-------------------------- MODULE JitSymbolsProofs --------------------------
(***************************************************************************)
(* Theorems about JitSymbols, for any names and objects, any number of      *)
(* definitions, contexts and scopes: no code calls what has gone, modules   *)
(* end once and after those that use them, and the linker agrees with       *)
(* find_symbol_value.                                                       *)
(***************************************************************************)
EXTENDS JitSymbols, WellFoundedInduction, SequenceTheorems, TLAPS

(***************************************************************************)
(* The invariant.  A context owns the modules of its deque until it ends;   *)
(* whatever is neither such a module, nor exported, nor removed is a value  *)
(* that was given to a name, and values stay.                               *)
(***************************************************************************)

Mods(ctx) == Entries(ctx.deque_jd) \ {BASE}
Exported == Entries(global.deque_jd)
Owned == UNION {Mods(stack[i]) : i \in DOMAIN stack}
Values == (1 .. made) \ (removed \cup Exported \cup Owned)

\* The modules of a context that have yet to end.
Pending(ctx) == UNION {Entries(ctx.cleaners[k]) : k \in DOMAIN ctx.cleaners}

Descending(s) == \A i, j \in DOMAIN s : i < j => s[i] > s[j]
Above(X, Y) == \A d \in X, e \in Y : d > e

\* No module has two owners, and none was made before it was loaded.
OneOwner ==
    /\ Exported \subseteq 1 .. made /\ removed \subseteq 1 .. made
    /\ stack # <<>> => Exported \cap removed = {}
    /\ stack = <<>> => Exported \subseteq removed
    /\ \A i \in DOMAIN stack :
         /\ Mods(stack[i]) \subseteq 1 .. made
         /\ Mods(stack[i]) \cap (Exported \cup removed) = {}
         /\ \A j \in DOMAIN stack : i # j => Mods(stack[i]) \cap Mods(stack[j]) = {}

\* The lists of a context are in order, the inner before the outer.
Ordered(ctx) ==
    \A k \in DOMAIN ctx.cleaners :
        /\ Descending(ctx.cleaners[k])
        /\ \A j \in DOMAIN ctx.cleaners :
              j < k => Above(Entries(ctx.cleaners[j]), Entries(ctx.cleaners[k]))

\* A context knows which of its modules have ended: done are all that have.
Accounted(ctx, done) ==
    /\ Pending(ctx) \subseteq Mods(ctx)
    /\ Pending(ctx) \cap done = {}
    /\ Mods(ctx) \ Pending(ctx) \subseteq done

InOrder ==
    /\ Entries(ended) \subseteq 1 .. made
    /\ \A i \in DOMAIN stack : Ordered(stack[i]) /\ Accounted(stack[i], Entries(ended))
    /\ stack # <<>> => global.cleaners = global.deque_jd /\ Descending(global.deque_jd)

\* What exported code can be bound to; the code of a context can also be bound
\* to the modules of the context.
GlobalReach == {None, TheExecutable} \cup Exported \cup Values

\* What d is bound to can be reached, and is not newer than d.
BoundIn(bound, d, reach) ==
    \A n \in Names : bound[n] \in reach /\ (bound[n] <= d \/ bound[n] = TheExecutable)

\* The same for the modules of a context, of code c, and for its unit.
CtxBound(ctx, c, reach) ==
    /\ \A d \in Mods(ctx) : BoundIn(c[d].bound, d, Mods(ctx) \cup reach)
    /\ \A n \in Names : ctx.bound[n] \in Mods(ctx) \cup reach

Bindings ==
    /\ \A d \in Definition : d \in Values \/ d > made => code[d] = NoModule
    /\ \A d \in Exported : BoundIn(code[d].bound, d, GlobalReach)
    /\ \A i \in DOMAIN stack : CtxBound(stack[i], code, GlobalReach)

\* Tables hold values.
Given(table, values) == \A n \in Names : table[n] \in {None} \cup values

Tabled ==
    /\ \A i \in DOMAIN stack : Given(stack[i].base_jd, Values) /\ Given(stack[i].unit_symbols, Values)
    /\ Given(global.base_jd, {TheExecutable} \cup Values) /\ Given(global.unit_symbols, Values)

IInv == TypeOK /\ EndsInTime /\ OneOwner /\ InOrder /\ Bindings /\ Tabled

(***************************************************************************)
(* Sequences.                                                               *)
(***************************************************************************)

\* A set of numbers has a least one.
LEMMA LeastOne ==
    ASSUME NEW X \in SUBSET Nat, X # {}
    PROVE  \E i \in X : \A j \in X : i <= j
  <1> DEFINE R == {ss \in Nat \X Nat : ss[1] < ss[2]}
  <1>1. \A i, j \in Nat : <<i, j>> \in R <=> i < j
    OBVIOUS
  <1>2. IsWellFoundedOn(R, Nat)
    BY NatLessThanWellFounded DEF OpToRel, IsWellFoundedOn
  <1> HIDE DEF R
  <1>3. PICK i \in X : \A j \in X : ~(<<j, i>> \in R)
    BY <1>2, WFMin
  <1>4. \A j \in X : ~(j < i)
    BY <1>1, <1>3
  <1> QED
    BY <1>3, <1>4

\* Where the elements of two joined sequences come from.
LEMMA Joined ==
    ASSUME NEW S, NEW s \in Seq(S), NEW t \in Seq(S)
    PROVE  /\ s \o t \in Seq(S)
           /\ Len(s) \in Nat /\ Len(t) \in Nat /\ Len(s \o t) = Len(s) + Len(t)
           /\ DOMAIN s = 1 .. Len(s) /\ DOMAIN t = 1 .. Len(t)
           /\ DOMAIN (s \o t) = 1 .. Len(s) + Len(t)
           /\ \A i \in 1 .. Len(s) : i \in DOMAIN (s \o t) /\ (s \o t)[i] = s[i]
           /\ \A i \in 1 .. Len(t) : i + Len(s) \in DOMAIN (s \o t) /\ (s \o t)[i + Len(s)] = t[i]
           /\ \A i \in DOMAIN (s \o t) :
                 IF i <= Len(s) THEN i \in 1 .. Len(s) /\ (s \o t)[i] = s[i]
                 ELSE i - Len(s) \in 1 .. Len(t) /\ (s \o t)[i] = t[i - Len(s)]
  <1> DEFINE u == s \o t
  <1>1. Len(s) \in Nat /\ Len(t) \in Nat
    BY LenProperties
  <1>2. /\ u \in Seq(S) /\ Len(u) = Len(s) + Len(t)
        /\ \A i \in 1 .. Len(s) + Len(t) : u[i] = IF i <= Len(s) THEN s[i] ELSE t[i - Len(s)]
    BY ConcatProperties
  <1>3. DOMAIN s = 1 .. Len(s) /\ DOMAIN t = 1 .. Len(t) /\ DOMAIN u = 1 .. Len(s) + Len(t)
    BY <1>2, LenProperties
  <1> HIDE DEF u
  <1>4. \A i \in 1 .. Len(s) : i \in DOMAIN u /\ u[i] = s[i]
    BY <1>1, <1>2, <1>3
  <1>5. ASSUME NEW i \in 1 .. Len(t)
        PROVE  i + Len(s) \in DOMAIN u /\ u[i + Len(s)] = t[i]
    <2>1. i + Len(s) \in DOMAIN u /\ i + Len(s) - Len(s) = i /\ ~(i + Len(s) <= Len(s))
      BY <1>1, <1>3
    <2> QED
      BY <1>2, <1>3, <2>1
  <1>6. ASSUME NEW i \in DOMAIN u
        PROVE  IF i <= Len(s) THEN i \in 1 .. Len(s) /\ u[i] = s[i]
               ELSE i - Len(s) \in 1 .. Len(t) /\ u[i] = t[i - Len(s)]
    BY <1>1, <1>2, <1>3
  <1> QED
    BY <1>1, <1>2, <1>3, <1>4, <1>5, <1>6 DEF u

LEMMA EntriesJoined ==
    ASSUME NEW S, NEW s \in Seq(S), NEW t \in Seq(S)
    PROVE  Entries(s \o t) = Entries(s) \cup Entries(t)
  <1>1. Range(s \o t) = Range(s) \cup Range(t)
    BY RangeConcatenation
  <1> QED
    BY <1>1 DEF Range, Entries

LEMMA EntriesType ==
    ASSUME NEW S, NEW s \in Seq(S)
    PROVE  Entries(s) \subseteq S
  BY ElementOfSeq, LenProperties DEF Entries

LEMMA EntriesSingle == \A e : Entries(<<e>>) = {e}
  BY DEF Entries

LEMMA EntriesNone == Entries(<<>>) = {}
  BY DEF Entries

\* Two lists in order, the first above the second, are one list in order.
LEMMA OrderJoined ==
    ASSUME NEW s \in Seq(Definition), NEW t \in Seq(Definition),
           Descending(s), Descending(t), Above(Entries(s), Entries(t))
    PROVE  Descending(s \o t)
  <1> DEFINE u == s \o t
  <1>1. /\ Len(s) \in Nat /\ Len(t) \in Nat
        /\ DOMAIN s = 1 .. Len(s) /\ DOMAIN t = 1 .. Len(t) /\ DOMAIN u = 1 .. Len(s) + Len(t)
        /\ \A i \in DOMAIN u :
              IF i <= Len(s) THEN i \in 1 .. Len(s) /\ u[i] = s[i]
              ELSE i - Len(s) \in 1 .. Len(t) /\ u[i] = t[i - Len(s)]
    BY Joined
  <1> HIDE DEF u
  <1>2. ASSUME NEW p \in DOMAIN u, NEW q \in DOMAIN u, p < q PROVE u[p] > u[q]
    <2>1. CASE q <= Len(s)
      BY <1>1, <1>2, <2>1 DEF Descending
    <2>2. CASE p <= Len(s) /\ ~(q <= Len(s))
      <3>1. u[p] \in Entries(s) /\ u[q] \in Entries(t)
        BY <1>1, <2>2 DEF Entries
      <3> QED
        BY <3>1 DEF Above
    <2>3. CASE ~(p <= Len(s))
      <3>1. ~(q <= Len(s)) /\ p - Len(s) < q - Len(s)
        BY <1>1, <1>2, <2>3
      <3>2. /\ u[p] = t[p - Len(s)] /\ p - Len(s) \in DOMAIN t
            /\ u[q] = t[q - Len(s)] /\ q - Len(s) \in DOMAIN t
        BY <1>1, <2>3, <3>1
      <3> QED
        BY <3>1, <3>2 DEF Descending
    <2> QED
      BY <1>1, <2>1, <2>2, <2>3
  <1> QED
    BY <1>2 DEF Descending, u

\* A module before a list of older ones.
LEMMA OneBefore ==
    ASSUME NEW s \in Seq(Definition), NEW d \in Definition
    PROVE  /\ <<d>> \o s \in Seq(Definition)
           /\ Entries(<<d>> \o s) = {d} \cup Entries(s)
           /\ Descending(s) /\ (\A e \in Entries(s) : d > e) => Descending(<<d>> \o s)
  <1>1. <<d>> \in Seq(Definition) /\ Entries(<<d>>) = {d} /\ Descending(<<d>>)
    BY DEF Entries, Descending
  <1>2. (\A e \in Entries(s) : d > e) => Above(Entries(<<d>>), Entries(s))
    BY <1>1 DEF Above
  <1> DEFINE one == <<d>>
  <1> HIDE DEF one
  <1>3. one \in Seq(Definition) /\ Entries(one) = {d} /\ Descending(one)
    BY <1>1 DEF one
  <1>4. one \o s \in Seq(Definition) /\ Entries(one \o s) = {d} \cup Entries(s)
    BY <1>3, ConcatProperties, EntriesJoined
  <1>5. Descending(s) /\ (\A e \in Entries(s) : d > e) => Descending(one \o s)
    BY <1>2, <1>3, OrderJoined DEF one
  <1> QED
    BY <1>4, <1>5 DEF one

\* What follows the first element, once a sequence got another in front.
LEMMA Before ==
    ASSUME NEW S, NEW s \in Seq(S), NEW e \in S
    PROVE  /\ <<e>> \o s \in Seq(S) /\ <<e>> \o s # <<>>
           /\ Len(s) \in Nat /\ Len(<<e>> \o s) = Len(s) + 1
           /\ DOMAIN (<<e>> \o s) = 1 .. Len(s) + 1
           /\ (<<e>> \o s)[1] = e
           /\ \A i \in 1 .. Len(s) : i + 1 \in DOMAIN (<<e>> \o s) /\ (<<e>> \o s)[i + 1] = s[i]
           /\ \A i \in DOMAIN (<<e>> \o s) :
                 i # 1 => i - 1 \in 1 .. Len(s) /\ (<<e>> \o s)[i] = s[i - 1]
  <1> DEFINE u == <<e>> \o s
  <1>1. <<e>> \in Seq(S) /\ Len(<<e>>) = 1 /\ <<e>>[1] = e
    OBVIOUS
  <1>2. /\ u \in Seq(S) /\ Len(s) \in Nat /\ Len(u) = 1 + Len(s)
        /\ DOMAIN u = 1 .. 1 + Len(s)
        /\ \A i \in 1 .. 1 : u[i] = <<e>>[i]
        /\ \A i \in 1 .. Len(s) : i + 1 \in DOMAIN u /\ u[i + 1] = s[i]
        /\ \A i \in DOMAIN u : IF i <= 1 THEN u[i] = <<e>>[i]
                               ELSE i - 1 \in 1 .. Len(s) /\ u[i] = s[i - 1]
    BY <1>1, Joined
  <1> HIDE DEF u
  <1>3. Len(u) # 0 /\ Len(u) = Len(s) + 1 /\ DOMAIN u = 1 .. Len(s) + 1 /\ u[1] = e
    BY <1>1, <1>2
  <1>4. u # <<>>
    BY <1>3
  <1>5. \A i \in DOMAIN u : i # 1 => ~(i <= 1)
    BY <1>2
  <1> QED
    BY <1>2, <1>3, <1>4, <1>5 DEF u

(***************************************************************************)
(* Looking names up.                                                        *)
(***************************************************************************)

Value == Definition \cup {None, TheExecutable}

\* The first dylib that has the name, and none if none has it.
LEMMA FoundFirst ==
    ASSUME NEW tables \in Seq(Table), NEW n \in Names
    PROVE  \/ (\A i \in DOMAIN tables : tables[i][n] = None) /\ Found(tables, n) = None
           \/ \E i \in DOMAIN tables :
                 /\ tables[i][n] # None /\ Found(tables, n) = tables[i][n]
                 /\ \A j \in DOMAIN tables : j < i => tables[j][n] = None
  <1> DEFINE has == {i \in DOMAIN tables : tables[i][n] # None}
  <1>1. DOMAIN tables \subseteq Nat
    BY LenProperties
  <1>2. CASE has = {}
    BY <1>2 DEF Found
  <1>3. CASE has # {}
    <2>1. \E i \in has : \A j \in has : i <= j
      <3>1. has \in SUBSET Nat
        BY <1>1
      <3> HIDE DEF has
      <3> QED
        BY <1>3, <3>1, LeastOne
    <2> DEFINE k == CHOOSE i \in has : \A j \in has : i <= j
    <2>2. k \in has /\ \A j \in has : k <= j
      BY <2>1
    <2>3. Found(tables, n) = tables[k][n]
      BY <1>3 DEF Found
    <2> HIDE DEF k
    <2>4. \A j \in DOMAIN tables : j < k => tables[j][n] = None
      BY <1>1, <2>2
    <2> QED
      BY <2>2, <2>3, <2>4
  <1> QED
    BY <1>2, <1>3

LEMMA FoundType ==
    ASSUME NEW tables \in Seq(Table), NEW n \in Names
    PROVE  Found(tables, n) \in Value
  <1>1. \A i \in DOMAIN tables : tables[i] \in Table
    BY ElementOfSeq, LenProperties
  <1>2. \A t \in Table : t[n] \in Value
    BY DEF Table, Value
  <1> QED
    BY <1>1, <1>2, FoundFirst DEF Value

\* The tables in front decide.
LEMMA FoundJoined ==
    ASSUME NEW s \in Seq(Table), NEW t \in Seq(Table), NEW n \in Names
    PROVE  Found(s \o t, n) = IF Found(s, n) # None THEN Found(s, n) ELSE Found(t, n)
  <1> DEFINE u == s \o t
  <1>1. /\ u \in Seq(Table)
        /\ Len(s) \in Nat /\ Len(t) \in Nat
        /\ DOMAIN s = 1 .. Len(s) /\ DOMAIN t = 1 .. Len(t) /\ DOMAIN u = 1 .. Len(s) + Len(t)
        /\ \A i \in 1 .. Len(s) : i \in DOMAIN u /\ u[i] = s[i]
        /\ \A i \in 1 .. Len(t) : i + Len(s) \in DOMAIN u /\ u[i + Len(s)] = t[i]
        /\ \A i \in DOMAIN u :
              IF i <= Len(s) THEN i \in 1 .. Len(s) /\ u[i] = s[i]
              ELSE i - Len(s) \in 1 .. Len(t) /\ u[i] = t[i - Len(s)]
    BY Joined
  <1> HIDE DEF u
  <1>2. CASE Found(s, n) # None
    <2>1. PICK i \in DOMAIN s :
             /\ s[i][n] # None /\ Found(s, n) = s[i][n]
             /\ \A j \in DOMAIN s : j < i => s[j][n] = None
      BY <1>2, FoundFirst
    <2>2. i \in DOMAIN u /\ u[i][n] # None
      BY <1>1, <2>1
    <2>3. PICK k \in DOMAIN u :
             /\ u[k][n] # None /\ Found(u, n) = u[k][n]
             /\ \A j \in DOMAIN u : j < k => u[j][n] = None
      BY <1>1, <2>2, FoundFirst
    <2>4. ~(i < k)
      BY <1>1, <2>1, <2>3
    <2>5. ~(k < i)
      BY <1>1, <2>1, <2>3
    <2>6. i = k
      BY <1>1, <2>4, <2>5
    <2> QED
      BY <1>1, <1>2, <2>1, <2>3, <2>6 DEF u
  <1>3. CASE Found(s, n) = None
    <2>1. \A i \in DOMAIN s : s[i][n] = None
      BY <1>3, FoundFirst
    <2>2. CASE \A i \in DOMAIN t : t[i][n] = None
      <3>1. \A i \in DOMAIN u : u[i][n] = None
        BY <1>1, <2>1, <2>2
      <3>2. Found(u, n) = None /\ Found(t, n) = None
        BY <1>1, <2>2, <3>1, FoundFirst
      <3> QED
        BY <1>3, <3>2 DEF u
    <2>3. CASE ~(\A i \in DOMAIN t : t[i][n] = None)
      <3>1. PICK i \in DOMAIN t :
               /\ t[i][n] # None /\ Found(t, n) = t[i][n]
               /\ \A j \in DOMAIN t : j < i => t[j][n] = None
        BY <2>3, FoundFirst
      <3>2. i + Len(s) \in DOMAIN u /\ u[i + Len(s)][n] = t[i][n]
        BY <1>1
      <3>3. PICK k \in DOMAIN u :
               /\ u[k][n] # None /\ Found(u, n) = u[k][n]
               /\ \A j \in DOMAIN u : j < k => u[j][n] = None
        BY <1>1, <3>1, <3>2, FoundFirst
      <3>4. ~(k <= Len(s)) /\ k - Len(s) \in 1 .. Len(t) /\ u[k] = t[k - Len(s)]
        BY <1>1, <2>1, <3>3
      <3>5. ~(k - Len(s) < i)
        BY <1>1, <3>1, <3>3, <3>4
      <3>6. ~(i + Len(s) < k)
        BY <3>1, <3>2, <3>3
      <3>7. k - Len(s) = i
        BY <1>1, <3>4, <3>5, <3>6
      <3> QED
        BY <1>3, <3>1, <3>3, <3>4, <3>7 DEF u
    <2> QED
      BY <2>2, <2>3
  <1> QED
    BY <1>2, <1>3

LEMMA FoundOne ==
    ASSUME NEW t \in Table, NEW n \in Names
    PROVE  Found(<<t>>, n) = t[n]
  <1> DEFINE one == <<t>>
  <1>1. one \in Seq(Table) /\ DOMAIN one = {1} /\ one[1] = t
    OBVIOUS
  <1> HIDE DEF one
  <1>2. Found(one, n) = t[n]
    BY <1>1, FoundFirst
  <1> QED
    BY <1>2 DEF one

LEMMA FoundNone == \A n \in Names : Found(<<>>, n) = None
  BY DEF Found

\* The dylibs of a context, one table each.
LEMMA TablesType ==
    ASSUME code \in [Definition -> Module],
           NEW c, c.deque_jd \in Seq(Definition \cup {BASE}), c.base_jd \in Table
    PROVE  /\ Tables(c) \in Seq(Table)
           /\ Len(Tables(c)) = Len(c.deque_jd) /\ Len(c.deque_jd) \in Nat
           /\ DOMAIN c.deque_jd = 1 .. Len(c.deque_jd)
           /\ DOMAIN Tables(c) = 1 .. Len(c.deque_jd)
           /\ \A i \in DOMAIN c.deque_jd :
                 Tables(c)[i] = IF c.deque_jd[i] = BASE THEN c.base_jd ELSE Symbols(c.deque_jd[i])
  <1>1. /\ Len(c.deque_jd) \in Nat /\ DOMAIN c.deque_jd = 1 .. Len(c.deque_jd)
        /\ \A i \in DOMAIN c.deque_jd : c.deque_jd[i] \in Definition \cup {BASE}
    BY LenProperties, ElementOfSeq
  <1>2. ASSUME NEW d \in Definition PROVE Symbols(d) \in Table
    BY <1>2 DEF Symbols, Table
  <1>3. ASSUME NEW i \in DOMAIN c.deque_jd
        PROVE  (IF c.deque_jd[i] = BASE THEN c.base_jd ELSE Symbols(c.deque_jd[i])) \in Table
    BY <1>1, <1>2, <1>3
  <1>4. Tables(c) \in [1 .. Len(c.deque_jd) -> Table]
    BY <1>1, <1>3 DEF Tables
  <1>5. Tables(c) \in Seq(Table)
    BY <1>1, <1>4, SeqDef
  <1>6. Len(Tables(c)) = Len(c.deque_jd)
    BY <1>1, <1>4, <1>5, LenProperties
  <1> QED
    BY <1>1, <1>5, <1>6, <1>4 DEF Tables

\* A context finds its own modules and its absolute symbols.
LEMMA FoundTable ==
    ASSUME code \in [Definition -> Module],
           NEW c, c.deque_jd \in Seq(Definition \cup {BASE}), c.base_jd \in Table,
           NEW n \in Names
    PROVE  Found(Tables(c), n) \in {None, c.base_jd[n]} \cup Mods(c)
  <1>1. CASE Found(Tables(c), n) = None
    BY <1>1
  <1>2. CASE Found(Tables(c), n) # None
    <2>1. PICK i \in DOMAIN Tables(c) : Found(Tables(c), n) = Tables(c)[i][n] /\ Tables(c)[i][n] # None
      BY <1>2, TablesType, FoundFirst
    <2>2. /\ i \in DOMAIN c.deque_jd
          /\ Tables(c)[i] = IF c.deque_jd[i] = BASE THEN c.base_jd ELSE Symbols(c.deque_jd[i])
      BY <2>1, TablesType
    <2>3. CASE c.deque_jd[i] = BASE
      BY <2>1, <2>2, <2>3
    <2>4. CASE c.deque_jd[i] # BASE
      <3>1. Tables(c)[i][n] = c.deque_jd[i]
        BY <2>1, <2>2, <2>4 DEF Symbols
      <3>2. c.deque_jd[i] \in Mods(c)
        BY <2>2, <2>4 DEF Mods, Entries
      <3> QED
        BY <2>1, <3>1, <3>2
    <2> QED
      BY <2>3, <2>4
  <1> QED
    BY <1>1, <1>2

(***************************************************************************)
(* Types.                                                                   *)
(***************************************************************************)

\* A context, and the global one.
HasTables(c) == c.deque_jd \in Seq(Definition \cup {BASE}) /\ c.base_jd \in Table

LEMMA GlobalParts ==
    ASSUME TypeOK
    PROVE  /\ global.base_jd \in Table /\ global.unit_symbols \in Table
           /\ global.deque_jd \in Seq(Definition) /\ global.cleaners \in Seq(Definition)
           /\ HasTables(global) /\ Mods(global) = Exported /\ Exported \subseteq Definition
  <1>1. /\ global.base_jd \in Table /\ global.unit_symbols \in Table
        /\ global.deque_jd \in Seq(Definition) /\ global.cleaners \in Seq(Definition)
    BY DEF TypeOK, Global
  <1>2. global.deque_jd \in Seq(Definition \cup {BASE})
    BY <1>1, SeqMonotonic
  <1>3. Exported \subseteq Definition
    BY <1>1, EntriesType DEF Exported
  <1>4. Mods(global) = Exported
    BY <1>3 DEF Mods, Exported, BASE, Definition
  <1> QED
    BY <1>1, <1>2, <1>3, <1>4 DEF HasTables

LEMMA ContextParts ==
    ASSUME NEW c \in Context
    PROVE  /\ c.base_jd \in Table /\ c.unit_symbols \in Table /\ c.bound \in Table
           /\ c.deque_jd \in Seq(Definition \cup {BASE})
           /\ c.cleaners \in Seq(Seq(Definition)) /\ c.running \in BOOLEAN
           /\ Len(c.cleaners) \in Nat /\ DOMAIN c.cleaners = 1 .. Len(c.cleaners)
           /\ \A k \in DOMAIN c.cleaners :
                 c.cleaners[k] \in Seq(Definition) /\ Entries(c.cleaners[k]) \subseteq Definition
           /\ HasTables(c) /\ Mods(c) \subseteq Definition
  <1>1. /\ c.base_jd \in Table /\ c.unit_symbols \in Table /\ c.bound \in Table
        /\ c.deque_jd \in Seq(Definition \cup {BASE})
        /\ c.cleaners \in Seq(Seq(Definition)) /\ c.running \in BOOLEAN
    BY DEF Context
  <1>2. Mods(c) \subseteq Definition
    BY <1>1, EntriesType DEF Mods
  <1>3. /\ Len(c.cleaners) \in Nat /\ DOMAIN c.cleaners = 1 .. Len(c.cleaners)
        /\ \A k \in DOMAIN c.cleaners : c.cleaners[k] \in Seq(Definition)
    BY <1>1, LenProperties, ElementOfSeq
  <1>4. \A k \in DOMAIN c.cleaners : Entries(c.cleaners[k]) \subseteq Definition
    BY <1>3, EntriesType
  <1> QED
    BY <1>1, <1>2, <1>3, <1>4 DEF HasTables

LEMMA StackParts ==
    ASSUME TypeOK
    PROVE  /\ stack \in Seq(Context) /\ Len(stack) \in Nat /\ DOMAIN stack = 1 .. Len(stack)
           /\ \A i \in DOMAIN stack :
                 i \in Nat /\ stack[i] \in Context /\ stack[i].cleaners # <<>>
                 /\ 1 \in DOMAIN stack[i].cleaners
           /\ stack # <<>> => 1 \in DOMAIN stack /\ Ctx = stack[1] /\ Len(stack) > 0
  <1>1. stack \in Seq(Context) /\ Len(stack) \in Nat /\ DOMAIN stack = 1 .. Len(stack)
    BY LenProperties DEF TypeOK
  <1>2. \A i \in DOMAIN stack : i \in Nat /\ stack[i] \in Context /\ stack[i].cleaners # <<>>
    BY <1>1, ElementOfSeq DEF TypeOK
  <1>3. \A i \in DOMAIN stack : 1 \in DOMAIN stack[i].cleaners
    <2> SUFFICES ASSUME NEW i \in DOMAIN stack PROVE 1 \in DOMAIN stack[i].cleaners
      OBVIOUS
    <2>1. /\ stack[i].cleaners \in Seq(Seq(Definition))
          /\ DOMAIN stack[i].cleaners = 1 .. Len(stack[i].cleaners)
      BY <1>2, ContextParts
    <2>2. Len(stack[i].cleaners) \in Nat \ {0}
      BY <1>2, <2>1, EmptySeq
    <2> QED
      BY <2>1, <2>2
  <1>4. ASSUME stack # <<>> PROVE 1 \in DOMAIN stack /\ Ctx = stack[1] /\ Len(stack) > 0
    <2>1. Len(stack) \in Nat \ {0}
      BY <1>1, <1>4, EmptySeq
    <2> QED
      BY <1>1, <1>4, <2>1 DEF Ctx
  <1> QED
    BY <1>1, <1>2, <1>3, <1>4

\* The innermost context.
LEMMA CtxParts ==
    ASSUME TypeOK, stack # <<>>
    PROVE  /\ 1 \in DOMAIN stack /\ Ctx = stack[1] /\ Ctx \in Context /\ Ctx.cleaners # <<>>
           /\ 1 \in DOMAIN Ctx.cleaners
  BY StackParts

LEMMA BecomeParts ==
    ASSUME TypeOK, stack # <<>>, NEW c \in Context, Become(c)
    PROVE  /\ stack' \in Seq(Context) /\ stack' # <<>> /\ Len(stack') = Len(stack)
           /\ DOMAIN stack' = DOMAIN stack /\ 1 \in DOMAIN stack
           /\ stack'[1] = c /\ Head(stack') = c
           /\ \A i \in DOMAIN stack : i # 1 => stack'[i] = stack[i]
  <1>1. /\ stack \in Seq(Context) /\ Len(stack) \in Nat /\ DOMAIN stack = 1 .. Len(stack)
        /\ 1 \in DOMAIN stack
    BY StackParts
  <1>2. /\ Tail(stack) \in Seq(Context) /\ Len(Tail(stack)) = Len(stack) - 1
        /\ \A i \in 1 .. Len(Tail(stack)) : Tail(stack)[i] = stack[i + 1]
    BY <1>1, HeadTailProperties
  <1>3. /\ stack' \in Seq(Context) /\ stack' # <<>> /\ Len(stack') = Len(Tail(stack)) + 1
        /\ DOMAIN stack' = 1 .. Len(Tail(stack)) + 1 /\ stack'[1] = c
        /\ \A i \in DOMAIN stack' : i # 1 => i - 1 \in 1 .. Len(Tail(stack)) /\ stack'[i] = Tail(stack)[i - 1]
    BY <1>2, Before DEF Become
  <1>4. Len(stack') = Len(stack) /\ DOMAIN stack' = DOMAIN stack
    BY <1>1, <1>2, <1>3
  <1>5. ASSUME NEW i \in DOMAIN stack, i # 1 PROVE stack'[i] = stack[i]
    <2>1. i - 1 \in 1 .. Len(Tail(stack)) /\ stack'[i] = Tail(stack)[i - 1] /\ i - 1 + 1 = i
      BY <1>1, <1>3, <1>4, <1>5
    <2> QED
      BY <1>2, <2>1
  <1>6. Head(stack') = stack'[1]
    BY <1>3
  <1> QED
    BY <1>1, <1>3, <1>4, <1>5, <1>6

\* Only the innermost context changes.
LEMMA BecomeType ==
    ASSUME TypeOK, stack # <<>>, NEW c \in Context, c.cleaners # <<>>, Become(c)
    PROVE  stack' \in Seq(Context) /\ \A i \in DOMAIN stack' : stack'[i].cleaners # <<>>
  BY BecomeParts, StackParts

\* Dropping the innermost context.
LEMMA TailParts ==
    ASSUME TypeOK, stack # <<>>, stack' = Tail(stack)
    PROVE  /\ stack' \in Seq(Context) /\ Len(stack') = Len(stack) - 1
           /\ \A i \in DOMAIN stack' :
                 /\ i + 1 \in DOMAIN stack /\ i + 1 # 1 /\ stack'[i] = stack[i + 1]
                 /\ i \in Nat
           /\ \A i \in DOMAIN stack : i # 1 => i - 1 \in DOMAIN stack' /\ stack'[i - 1] = stack[i]
  <1>1. stack \in Seq(Context) /\ Len(stack) \in Nat /\ DOMAIN stack = 1 .. Len(stack)
    BY StackParts
  <1>2. /\ stack' \in Seq(Context) /\ Len(stack') = Len(stack) - 1
        /\ \A i \in 1 .. Len(stack') : stack'[i] = stack[i + 1]
    BY <1>1, HeadTailProperties
  <1>3. DOMAIN stack' = 1 .. Len(stack')
    BY <1>2, LenProperties
  <1>4. \A i \in DOMAIN stack' : i + 1 \in DOMAIN stack /\ i + 1 # 1 /\ i \in Nat
    BY <1>1, <1>2, <1>3
  <1>5. ASSUME NEW i \in DOMAIN stack, i # 1
        PROVE  i - 1 \in DOMAIN stack' /\ stack'[i - 1] = stack[i]
    <2>1. i - 1 \in 1 .. Len(stack') /\ i - 1 + 1 = i
      BY <1>1, <1>2, <1>5
    <2> QED
      BY <1>2, <1>3, <2>1
  <1> QED
    BY <1>2, <1>3, <1>4, <1>5

(***************************************************************************)
(* Linking.                                                                 *)
(***************************************************************************)

\* What is behind the dylibs of a context, for those who link and who look up.
Outer(n) == IF Found(Tables(global), n) # None THEN Found(Tables(global), n) ELSE global.base_jd[n]

LEMMA FoundOuter ==
    ASSUME TypeOK, NEW n \in Names, NEW s \in Seq(Table)
    PROVE  /\ s \o Tables(global) \in Seq(Table)
           /\ s \o Tables(global) \o <<global.base_jd>> \in Seq(Table)
           /\ Found(s \o Tables(global) \o <<global.base_jd>>, n)
                = IF Found(s, n) # None THEN Found(s, n) ELSE Outer(n)
  <1> DEFINE base == <<global.base_jd>>
  <1> DEFINE u == s \o Tables(global)
  <1>1. Tables(global) \in Seq(Table)
    BY GlobalParts, TablesType DEF HasTables, TypeOK
  <1>2. base \in Seq(Table) /\ Found(base, n) = global.base_jd[n]
    BY GlobalParts, FoundOne
  <1> HIDE DEF base
  <1>3. /\ u \in Seq(Table)
        /\ Found(u, n) = IF Found(s, n) # None THEN Found(s, n) ELSE Found(Tables(global), n)
    BY <1>1, ConcatProperties, FoundJoined
  <1> HIDE DEF u
  <1>4. /\ u \o base \in Seq(Table)
        /\ Found(u \o base, n) = IF Found(u, n) # None THEN Found(u, n) ELSE Found(base, n)
    BY <1>2, <1>3, ConcatProperties, FoundJoined
  <1> QED
    BY <1>2, <1>3, <1>4 DEF u, base, Outer

LEMMA LocalLink ==
    ASSUME TypeOK, NEW c \in Context, NEW own \in Table, NEW n \in Names
    PROVE  /\ Tables(c) \in Seq(Table)
           /\ LocalLinkOrder(own, c) \in Seq(Table) /\ FindOrder(c) \in Seq(Table)
           /\ Found(FindOrder(c), n)
                = IF Found(Tables(c), n) # None THEN Found(Tables(c), n) ELSE Outer(n)
           /\ Found(LocalLinkOrder(own, c), n)
                = IF own[n] # None THEN own[n] ELSE Found(FindOrder(c), n)
  <1> DEFINE one == <<own>>
  <1>1. Tables(c) \in Seq(Table)
    BY ContextParts, TablesType DEF HasTables, TypeOK
  <1>2. one \in Seq(Table) /\ Found(one, n) = own[n]
    BY FoundOne
  <1> HIDE DEF one
  <1>3. /\ one \o Tables(c) \in Seq(Table)
        /\ Found(one \o Tables(c), n) = IF Found(one, n) # None THEN Found(one, n) ELSE Found(Tables(c), n)
    BY <1>1, <1>2, ConcatProperties, FoundJoined
  <1> DEFINE s == one \o Tables(c)
  <1> HIDE DEF s
  <1>4. /\ s \in Seq(Table)
        /\ Found(s, n) = IF own[n] # None THEN own[n] ELSE Found(Tables(c), n)
    BY <1>2, <1>3 DEF s
  <1>5. /\ s \o Tables(global) \o <<global.base_jd>> \in Seq(Table)
        /\ Found(s \o Tables(global) \o <<global.base_jd>>, n)
                = IF Found(s, n) # None THEN Found(s, n) ELSE Outer(n)
    BY <1>4, FoundOuter
  <1>6. /\ FindOrder(c) \in Seq(Table)
        /\ Found(FindOrder(c), n)
                = IF Found(Tables(c), n) # None THEN Found(Tables(c), n) ELSE Outer(n)
    BY <1>1, FoundOuter DEF FindOrder
  <1>7. LocalLinkOrder(own, c) = s \o Tables(global) \o <<global.base_jd>>
    BY DEF LocalLinkOrder, s, one
  <1> QED
    BY <1>1, <1>4, <1>5, <1>6, <1>7

LEMMA GlobalLink ==
    ASSUME TypeOK, NEW c \in Context, NEW own \in Table, NEW n \in Names
    PROVE  /\ GlobalLinkOrder(own, c) \in Seq(Table)
           /\ Found(GlobalLinkOrder(own, c), n)
                = IF own[n] # None THEN own[n]
                  ELSE IF c.base_jd[n] # None THEN c.base_jd[n] ELSE Outer(n)
  <1>1. c.base_jd \in Table
    BY ContextParts
  <1> DEFINE s == <<own, c.base_jd>>
  <1>2. /\ s \in Seq(Table) /\ DOMAIN s = {1, 2} /\ s[1] = own /\ s[2] = c.base_jd
        /\ 1 < 2
    BY <1>1
  <1>3. GlobalLinkOrder(own, c) = s \o Tables(global) \o <<global.base_jd>>
    BY DEF GlobalLinkOrder
  <1> HIDE DEF s
  <1>4. Found(s, n) = IF own[n] # None THEN own[n] ELSE c.base_jd[n]
    <2>1. CASE own[n] # None
      <3>1. PICK i \in DOMAIN s :
               /\ s[i][n] # None /\ Found(s, n) = s[i][n]
               /\ \A j \in DOMAIN s : j < i => s[j][n] = None
        BY <1>2, <2>1, FoundFirst
      <3>2. i = 1
        BY <1>2, <2>1, <3>1
      <3> QED
        BY <1>2, <2>1, <3>1, <3>2
    <2>2. CASE own[n] = None
      BY <1>2, <2>2, FoundFirst
    <2> QED
      BY <2>1, <2>2
  <1>5. /\ s \o Tables(global) \o <<global.base_jd>> \in Seq(Table)
        /\ Found(s \o Tables(global) \o <<global.base_jd>>, n)
                = IF Found(s, n) # None THEN Found(s, n) ELSE Outer(n)
    BY <1>2, FoundOuter
  <1> QED
    BY <1>3, <1>4, <1>5

\* What names are bound to.
LEMMA LinkedType ==
    ASSUME NEW order \in Seq(Table), NEW refs
    PROVE  Linked(order, refs) \in Table
  <1>1. \A n \in Names : (IF n \in refs THEN Found(order, n) ELSE None) \in Value
    BY FoundType DEF Value
  <1> QED
    BY <1>1 DEF Linked, Table, Value

LEMMA OwnType ==
    ASSUME TypeOK, made < MaxMade, NEW defs
    PROVE  /\ OwnSymbols(defs) \in Table /\ made + 1 \in Definition /\ made \in Nat
           /\ \A n \in Names : OwnSymbols(defs)[n] = IF n \in defs THEN made + 1 ELSE None
           /\ made + 1 # None
  <1>1. made + 1 \in Definition /\ made \in Nat /\ made + 1 # None
    BY BoundsAssumption DEF TypeOK, Definition, None
  <1> QED
    BY <1>1 DEF OwnSymbols, Table

(***************************************************************************)
(* Every step keeps the types.                                              *)
(***************************************************************************)

LEMMA NoSymbolsType == NoSymbols \in Table /\ \A n \in Names : NoSymbols[n] = None
  BY DEF NoSymbols, Table

LEMMA NewContextParts ==
    /\ NewContext \in Context /\ NewContext.cleaners # <<>>
    /\ NewContext.deque_jd = <<BASE>> /\ Entries(NewContext.deque_jd) = {BASE}
    /\ Mods(NewContext) = {} /\ Pending(NewContext) = {}
    /\ DOMAIN NewContext.cleaners = {1} /\ NewContext.cleaners[1] = <<>>
    /\ NewContext.base_jd = NoSymbols /\ NewContext.unit_symbols = NoSymbols
    /\ NewContext.bound = NoSymbols
  <1>1. <<BASE>> \in Seq(Definition \cup {BASE}) /\ <<<<>>>> \in Seq(Seq(Definition))
    <2>1. <<>> \in Seq(Definition)
      BY EmptySeq
    <2> QED
      BY <2>1
  <1>2. NewContext \in Context
    BY <1>1, NoSymbolsType DEF NewContext, Context
  <1>3. DOMAIN NewContext.cleaners = {1} /\ NewContext.cleaners[1] = <<>>
    BY DEF NewContext
  <1>4. Entries(NewContext.cleaners[1]) = {}
    BY <1>3, EntriesNone
  <1>5. Pending(NewContext) = {}
    BY <1>3, <1>4 DEF Pending
  <1>6. NewContext.deque_jd = <<BASE>> /\ NewContext.cleaners # <<>>
    BY DEF NewContext
  <1>7. Entries(NewContext.deque_jd) = {BASE}
    BY <1>6, EntriesSingle
  <1>8. Mods(NewContext) = {}
    BY <1>7 DEF Mods
  <1> QED
    BY <1>2, <1>3, <1>5, <1>6, <1>7, <1>8 DEF NewContext

\* Symbols of a context that wait or were flushed.
LEMMA AddType ==
    ASSUME NEW c, NEW n \in Names, NEW v \in Definition
    PROVE  /\ c \in Context => add_symbol_value(c, n, v) \in Context
           /\ c \in Global => add_symbol_value(c, n, v) \in Global
  BY DEF add_symbol_value, Context, Global, Table

Flushed(c) ==
    IF \E n \in Names : c.base_jd[n] # None /\ c.unit_symbols[n] # None THEN c.base_jd
    ELSE [n \in Names |-> IF c.base_jd[n] # None THEN c.base_jd[n] ELSE c.unit_symbols[n]]

LEMMA FlushedType ==
    ASSUME NEW c, c.base_jd \in Table, c.unit_symbols \in Table
    PROVE  Flushed(c) \in Table
  BY DEF Flushed, Table

LEMMA FlushType ==
    ASSUME NEW c
    PROVE  /\ flush_unit_symbols_helper(c)
                = [c EXCEPT !.unit_symbols = NoSymbols, !.base_jd = Flushed(c)]
           /\ c \in Context => flush_unit_symbols_helper(c) \in Context
           /\ c \in Global => flush_unit_symbols_helper(c) \in Global
  <1>1. flush_unit_symbols_helper(c) = [c EXCEPT !.unit_symbols = NoSymbols, !.base_jd = Flushed(c)]
    BY DEF flush_unit_symbols_helper, Flushed
  <1>2. c \in Context \/ c \in Global => Flushed(c) \in Table
    BY FlushedType DEF Context, Global
  <1> QED
    BY <1>1, <1>2, NoSymbolsType DEF Context, Global

\* A context in which the module m was loaded.
LoadedIn(c, m) == [c EXCEPT !.deque_jd = <<m>> \o @, !.cleaners[1] = <<m>> \o @]

LEMMA LoadedParts ==
    ASSUME NEW c \in Context, c.cleaners # <<>>, 1 \in DOMAIN c.cleaners, NEW m \in Definition
    PROVE  /\ LoadedIn(c, m) \in Context /\ LoadedIn(c, m).cleaners # <<>>
           /\ LoadedIn(c, m).deque_jd = <<m>> \o c.deque_jd
           /\ Entries(LoadedIn(c, m).deque_jd) = {m} \cup Entries(c.deque_jd)
           /\ Mods(LoadedIn(c, m)) = {m} \cup Mods(c)
           /\ DOMAIN LoadedIn(c, m).cleaners = DOMAIN c.cleaners
           /\ LoadedIn(c, m).cleaners[1] = <<m>> \o c.cleaners[1]
           /\ \A k \in DOMAIN c.cleaners : k # 1 => LoadedIn(c, m).cleaners[k] = c.cleaners[k]
           /\ LoadedIn(c, m).base_jd = c.base_jd /\ LoadedIn(c, m).unit_symbols = c.unit_symbols
           /\ LoadedIn(c, m).bound = c.bound /\ LoadedIn(c, m).running = c.running
  <1> DEFINE d == LoadedIn(c, m)
  <1> DEFINE q == <<m>> \o c.deque_jd
  <1> DEFINE l == [c.cleaners EXCEPT ![1] = <<m>> \o @]
  <1>1. c.deque_jd \in Seq(Definition \cup {BASE}) /\ c.cleaners \in Seq(Seq(Definition))
        /\ c.cleaners[1] \in Seq(Definition) /\ DOMAIN c.cleaners = 1 .. Len(c.cleaners)
        /\ c \in Context
    BY ContextParts
  <1>2. q \in Seq(Definition \cup {BASE}) /\ Entries(q) = {m} \cup Entries(c.deque_jd)
    <2> DEFINE one == <<m>>
    <2>1. one \in Seq(Definition \cup {BASE}) /\ Entries(one) = {m}
      BY EntriesSingle
    <2> HIDE DEF one
    <2>2. one \o c.deque_jd \in Seq(Definition \cup {BASE})
          /\ Entries(one \o c.deque_jd) = Entries(one) \cup Entries(c.deque_jd)
      BY <1>1, <2>1, ConcatProperties, EntriesJoined
    <2> QED
      BY <2>1, <2>2 DEF one
  <1>3. <<m>> \o c.cleaners[1] \in Seq(Definition)
    BY <1>1, OneBefore
  <1>4. /\ l \in Seq(Seq(Definition)) /\ Len(l) = Len(c.cleaners)
        /\ DOMAIN l = DOMAIN c.cleaners /\ l[1] = <<m>> \o c.cleaners[1]
        /\ \A k \in DOMAIN c.cleaners : k # 1 => l[k] = c.cleaners[k]
    BY <1>1, <1>3, ExceptSeq
  <1>5. l # <<>>
    BY <1>4
  <1> HIDE DEF q, l
  <1>6. d = [c EXCEPT !.deque_jd = q, !.cleaners = l]
    BY DEF LoadedIn, q, l
  <1> HIDE DEF d
  <1>7. /\ d \in Context /\ d.deque_jd = q /\ d.cleaners = l
        /\ d.base_jd = c.base_jd /\ d.unit_symbols = c.unit_symbols
        /\ d.bound = c.bound /\ d.running = c.running
    BY <1>2, <1>4, <1>6 DEF Context
  <1>8. Mods(d) = {m} \cup Mods(c)
    BY <1>2, <1>7 DEF Mods, Definition, BASE
  <1> QED
    BY <1>2, <1>4, <1>5, <1>7, <1>8 DEF d, q

\* A context with a scope opened.
PushedIn(c) == [c EXCEPT !.cleaners = <<<<>>>> \o @]

LEMMA PushedParts ==
    ASSUME NEW c \in Context, c.cleaners # <<>>
    PROVE  /\ PushedIn(c) \in Context /\ PushedIn(c).cleaners # <<>> /\ PushedIn(c).deque_jd = c.deque_jd
           /\ PushedIn(c).base_jd = c.base_jd /\ PushedIn(c).unit_symbols = c.unit_symbols /\ PushedIn(c).bound = c.bound
           /\ PushedIn(c).cleaners[1] = <<>>
           /\ \A k \in DOMAIN PushedIn(c).cleaners :
                 k # 1 => k - 1 \in DOMAIN c.cleaners /\ PushedIn(c).cleaners[k] = c.cleaners[k - 1]
           /\ \A k \in DOMAIN c.cleaners :
                 k + 1 \in DOMAIN PushedIn(c).cleaners /\ PushedIn(c).cleaners[k + 1] = c.cleaners[k]
           /\ 1 \in DOMAIN PushedIn(c).cleaners
  <1>1. c.cleaners \in Seq(Seq(Definition)) /\ c \in Context
        /\ DOMAIN c.cleaners = 1 .. Len(c.cleaners)
    BY ContextParts
  <1> DEFINE none == <<>>
  <1>2. none \in Seq(Definition)
    BY EmptySeq
  <1> HIDE DEF none
  <1> DEFINE l == <<none>> \o c.cleaners
  <1>3. /\ l \in Seq(Seq(Definition)) /\ l # <<>>
        /\ Len(c.cleaners) \in Nat
        /\ DOMAIN l = 1 .. Len(c.cleaners) + 1
        /\ l[1] = none
        /\ \A k \in 1 .. Len(c.cleaners) : k + 1 \in DOMAIN l /\ l[k + 1] = c.cleaners[k]
        /\ \A k \in DOMAIN l : k # 1 => k - 1 \in 1 .. Len(c.cleaners) /\ l[k] = c.cleaners[k - 1]
    BY <1>1, <1>2, Before
  <1> HIDE DEF l
  <1>4. 1 \in DOMAIN l
    <2>1. Len(c.cleaners) \in Nat /\ DOMAIN l = 1 .. Len(c.cleaners) + 1
      BY <1>3
    <2> QED
      BY <2>1
  <1> DEFINE d == PushedIn(c)
  <1>5. d = [c EXCEPT !.cleaners = l]
    BY DEF PushedIn, l, none
  <1> HIDE DEF d
  <1>6. /\ d \in Context /\ d.deque_jd = c.deque_jd /\ d.cleaners = l
        /\ d.base_jd = c.base_jd /\ d.unit_symbols = c.unit_symbols /\ d.bound = c.bound
    BY <1>3, <1>5 DEF Context
  <1>7. d.cleaners[1] = <<>>
    BY <1>3, <1>6 DEF none
  <1> QED
    BY <1>1, <1>3, <1>4, <1>6, <1>7 DEF d

\* A context whose inner scope was closed.
PoppedIn(c, held) ==
    [c EXCEPT !.cleaners =
        <<IF held THEN c.cleaners[1] \o c.cleaners[2] ELSE c.cleaners[2]>> \o Tail(Tail(@))]

LEMMA PoppedParts ==
    ASSUME NEW c \in Context, Len(c.cleaners) > 1, NEW held \in BOOLEAN
    PROVE  /\ PoppedIn(c, held) \in Context /\ PoppedIn(c, held).cleaners # <<>>
           /\ PoppedIn(c, held).deque_jd = c.deque_jd
           /\ PoppedIn(c, held).base_jd = c.base_jd
           /\ PoppedIn(c, held).unit_symbols = c.unit_symbols /\ PoppedIn(c, held).bound = c.bound
           /\ 1 \in DOMAIN c.cleaners /\ 2 \in DOMAIN c.cleaners
           /\ PoppedIn(c, held).cleaners[1]
                = IF held THEN c.cleaners[1] \o c.cleaners[2] ELSE c.cleaners[2]
           /\ \A k \in DOMAIN PoppedIn(c, held).cleaners :
                 k # 1 => /\ k \in Nat /\ k + 1 > 2 /\ k + 1 \in DOMAIN c.cleaners
                          /\ PoppedIn(c, held).cleaners[k] = c.cleaners[k + 1]
           /\ \A k \in DOMAIN c.cleaners :
                 k # 1 /\ k # 2 => /\ k - 1 \in DOMAIN PoppedIn(c, held).cleaners /\ k - 1 # 1
                                   /\ PoppedIn(c, held).cleaners[k - 1] = c.cleaners[k]
           /\ 1 \in DOMAIN PoppedIn(c, held).cleaners
  <1> DEFINE s == c.cleaners
  <1>1. /\ s \in Seq(Seq(Definition)) /\ Len(s) \in Nat /\ DOMAIN s = 1 .. Len(s)
        /\ c \in Context
    BY ContextParts
  <1>2. 1 \in DOMAIN s /\ 2 \in DOMAIN s /\ s[1] \in Seq(Definition) /\ s[2] \in Seq(Definition)
    BY <1>1, ElementOfSeq
  <1> DEFINE f == IF held THEN s[1] \o s[2] ELSE s[2]
  <1>3. f \in Seq(Definition)
    BY <1>2, ConcatProperties
  <1> HIDE DEF s, f
  <1>4. s # <<>> /\ Len(s) > 1
    BY <1>2 DEF s
  <1> DEFINE r == Tail(s)
  <1>5. /\ r \in Seq(Seq(Definition)) /\ Len(r) = Len(s) - 1
        /\ \A i \in 1 .. Len(r) : r[i] = s[i + 1]
    BY <1>1, <1>4, HeadTailProperties
  <1> HIDE DEF r
  <1>6. r # <<>>
    <2>1. Len(r) = Len(s) - 1 /\ Len(s) \in Nat /\ Len(s) > 1
      BY <1>1, <1>4, <1>5
    <2>2. Len(r) # 0
      BY <2>1
    <2> QED
      BY <1>5, <2>2, EmptySeq
  <1> DEFINE t == Tail(r)
  <1>7. /\ t \in Seq(Seq(Definition)) /\ Len(t) = Len(r) - 1
        /\ \A i \in 1 .. Len(t) : t[i] = r[i + 1]
    BY <1>5, <1>6, HeadTailProperties
  <1> HIDE DEF t
  <1>8. Len(t) = Len(s) - 2
    BY <1>1, <1>5, <1>7
  <1>9. \A i \in 1 .. Len(t) : t[i] = s[i + 2]
    <2> SUFFICES ASSUME NEW i \in 1 .. Len(t) PROVE t[i] = s[i + 2]
      OBVIOUS
    <2>1. i + 1 \in 1 .. Len(r) /\ i + 1 + 1 = i + 2
      BY <1>1, <1>5, <1>8
    <2> QED
      BY <1>5, <1>7, <2>1
  <1> DEFINE l == <<f>> \o t
  <1>10. /\ l \in Seq(Seq(Definition)) /\ l # <<>>
         /\ DOMAIN l = 1 .. Len(t) + 1
         /\ l[1] = f
         /\ \A i \in 1 .. Len(t) : l[i + 1] = t[i]
         /\ \A k \in DOMAIN l : k # 1 => k - 1 \in 1 .. Len(t) /\ l[k] = t[k - 1]
    BY <1>3, <1>7, Before
  <1> HIDE DEF l
  <1>11. ASSUME NEW k \in DOMAIN l, k # 1
         PROVE  k \in Nat /\ k + 1 > 2 /\ k + 1 \in DOMAIN s /\ l[k] = s[k + 1]
    <2>1. k - 1 \in 1 .. Len(t) /\ l[k] = t[k - 1] /\ t[k - 1] = s[k - 1 + 2]
      BY <1>9, <1>10, <1>11
    <2>2. k \in 1 .. Len(t) + 1 /\ Len(s) \in Nat /\ DOMAIN s = 1 .. Len(s)
      BY <1>1, <1>10, <1>11
    <2>3. k \in Nat /\ k - 1 + 2 = k + 1 /\ k + 1 > 2 /\ k + 1 \in DOMAIN s
      BY <1>8, <1>11, <2>2
    <2> QED
      BY <2>1, <2>3
  <1>12. ASSUME NEW k \in DOMAIN s, k # 1, k # 2
         PROVE  k - 1 \in DOMAIN l /\ k - 1 # 1 /\ l[k - 1] = s[k]
    <2>1. k \in 1 .. Len(s) /\ Len(s) \in Nat /\ DOMAIN l = 1 .. Len(t) + 1
      BY <1>1, <1>10, <1>12
    <2>2. k - 1 \in DOMAIN l /\ k - 1 # 1 /\ k - 1 + 1 = k
      BY <1>8, <1>12, <2>1
    <2> QED
      BY <1>11, <2>2
  <1>13. 1 \in DOMAIN l
    BY <1>1, <1>4, <1>8, <1>10
  <1> DEFINE d == PoppedIn(c, held)
  <1>14. d = [c EXCEPT !.cleaners = l]
    BY DEF PoppedIn, l, t, r, f, s
  <1> HIDE DEF d
  <1>15. /\ d \in Context /\ d.deque_jd = c.deque_jd /\ d.cleaners = l
         /\ d.base_jd = c.base_jd /\ d.unit_symbols = c.unit_symbols /\ d.bound = c.bound
    BY <1>10, <1>14 DEF Context
  <1>16. l[1] = IF held THEN c.cleaners[1] \o c.cleaners[2] ELSE c.cleaners[2]
    BY <1>10 DEF f, s
  <1> QED
    BY <1>2, <1>10, <1>11, <1>12, <1>13, <1>15, <1>16 DEF d, s

LEMMA CodeType ==
    ASSUME TypeOK, NEW m \in Definition, NEW defs \in SUBSET Names, NEW t \in Table,
           code' = [code EXCEPT ![m] = [defs |-> defs, bound |-> t]]
    PROVE  /\ code' \in [Definition -> Module]
           /\ code'[m].defs = defs /\ code'[m].bound = t
           /\ \A d \in Definition : d # m => code'[d] = code[d]
  <1>1. code \in [Definition -> Module] /\ [defs |-> defs, bound |-> t] \in Module
    BY DEF TypeOK, Module
  <1>2. code'[m] = [defs |-> defs, bound |-> t]
    BY <1>1
  <1> QED
    BY <1>1, <1>2

\* What a step that loads a module does.
LEMMA LoadLocalParts ==
    ASSUME TypeOK, NEW defs \in SUBSET Names, NEW refs \in SUBSET Names, LoadLocal(defs, refs)
    PROVE  /\ stack # <<>> /\ made < MaxMade /\ made' = made + 1 /\ made + 1 \in Definition
           /\ UNCHANGED <<global, ended, removed>>
           /\ LoadedIn(Ctx, made + 1) \in Context /\ Become(LoadedIn(Ctx, made + 1))
           /\ \A n \in Names : code'[made + 1].bound[n] \in {None, made + 1, Found(FindOrder(Ctx), n)}
           /\ code'[made + 1].defs = defs
           /\ \A d \in Definition : d # made + 1 => code'[d] = code[d]
           /\ TypeOK'
  <1> DEFINE order == LocalLinkOrder(OwnSymbols(defs), Ctx)
  <1> DEFINE m == made + 1
  <1>1. stack # <<>> /\ made < MaxMade /\ made' = m /\ UNCHANGED <<global, ended, removed>>
    BY DEF LoadLocal, Running, Make
  <1>2. /\ Ctx \in Context /\ Ctx.cleaners # <<>> /\ 1 \in DOMAIN Ctx.cleaners
        /\ OwnSymbols(defs) \in Table /\ m \in Definition /\ made \in Nat
    BY <1>1, CtxParts, OwnType
  <1>3. /\ code' = [code EXCEPT ![m] = [defs |-> defs, bound |-> Linked(order, refs)]]
        /\ Become(LoadedIn(Ctx, m))
    BY DEF LoadLocal, LoadedIn
  <1>4. LoadedIn(Ctx, m) \in Context /\ LoadedIn(Ctx, m).cleaners # <<>>
    BY <1>2, LoadedParts
  <1>5. ASSUME NEW n \in Names
        PROVE  order \in Seq(Table) /\ Found(order, n) \in {m, Found(FindOrder(Ctx), n)}
    <2> DEFINE own == OwnSymbols(defs)
    <2>1. own \in Table /\ own[n] \in {m, None}
      BY <1>1, OwnType
    <2> HIDE DEF own
    <2>2. /\ LocalLinkOrder(own, Ctx) \in Seq(Table)
          /\ Found(LocalLinkOrder(own, Ctx), n)
                = IF own[n] # None THEN own[n] ELSE Found(FindOrder(Ctx), n)
      BY <1>2, <2>1, LocalLink
    <2> QED
      BY <2>1, <2>2 DEF own
  <1>6. Linked(order, refs) \in Table
    <2>1. CASE Names = {}
      BY <2>1 DEF Linked, Table
    <2>2. CASE Names # {}
      BY <1>5, <2>2, LinkedType
    <2> QED
      BY <2>1, <2>2
  <1>7. /\ code' \in [Definition -> Module]
        /\ code'[m].defs = defs /\ code'[m].bound = Linked(order, refs)
        /\ \A d \in Definition : d # m => code'[d] = code[d]
    BY <1>2, <1>3, <1>6, CodeType
  <1>8. ASSUME NEW n \in Names
        PROVE  code'[m].bound[n] \in {None, m, Found(FindOrder(Ctx), n)}
    <2>1. code'[m].bound[n] = IF n \in refs THEN Found(order, n) ELSE None
      BY <1>7 DEF Linked
    <2> QED
      BY <1>5, <2>1
  <1>9. stack' \in Seq(Context) /\ \A i \in DOMAIN stack' : stack'[i].cleaners # <<>>
    BY <1>1, <1>3, <1>4, BecomeType
  <1>10. made' \in 0 .. MaxMade
    BY <1>1, <1>2 DEF Definition
  <1>11. TypeOK'
    BY <1>1, <1>7, <1>9, <1>10 DEF TypeOK
  <1> HIDE DEF m, order
  <1> QED
    BY <1>1, <1>2, <1>3, <1>4, <1>7, <1>8, <1>11 DEF m

LEMMA LoadExportedParts ==
    ASSUME TypeOK, NEW defs \in SUBSET Names, NEW refs \in SUBSET Names, LoadExported(defs, refs)
    PROVE  /\ stack # <<>> /\ made < MaxMade /\ made' = made + 1 /\ made + 1 \in Definition
           /\ UNCHANGED <<stack, ended, removed>>
           /\ global' = [global EXCEPT !.deque_jd = <<made + 1>> \o @, !.cleaners = <<made + 1>> \o @]
           /\ global'.deque_jd = <<made + 1>> \o global.deque_jd
           /\ global'.cleaners = <<made + 1>> \o global.cleaners
           /\ global'.base_jd = global.base_jd /\ global'.unit_symbols = global.unit_symbols
           /\ Exported' = {made + 1} \cup Exported
           /\ \A n \in Names : code'[made + 1].bound[n] \in {None, made + 1, Ctx.base_jd[n], Outer(n)}
           /\ code'[made + 1].defs = defs
           /\ \A d \in Definition : d # made + 1 => code'[d] = code[d]
           /\ TypeOK'
  <1> DEFINE order == GlobalLinkOrder(OwnSymbols(defs), Ctx)
  <1> DEFINE m == made + 1
  <1>1. stack # <<>> /\ made < MaxMade /\ made' = m /\ UNCHANGED <<stack, ended, removed>>
    BY DEF LoadExported, Running, Make
  <1>2. Ctx \in Context /\ OwnSymbols(defs) \in Table /\ m \in Definition /\ made \in Nat
    BY <1>1, CtxParts, OwnType
  <1>3. /\ code' = [code EXCEPT ![m] = [defs |-> defs, bound |-> Linked(order, refs)]]
        /\ global' = [global EXCEPT !.deque_jd = <<m>> \o @, !.cleaners = <<m>> \o @]
    BY DEF LoadExported
  <1>4. \A n \in Names : order \in Seq(Table) /\ Found(order, n) \in {m, Ctx.base_jd[n], Outer(n)}
    BY <1>1, <1>2, GlobalLink, OwnType
  <1>5. Linked(order, refs) \in Table
    <2>1. CASE Names = {}
      BY <2>1 DEF Linked, Table
    <2>2. CASE Names # {}
      BY <1>4, <2>2, LinkedType
    <2> QED
      BY <2>1, <2>2
  <1>6. /\ code' \in [Definition -> Module]
        /\ code'[m].defs = defs /\ code'[m].bound = Linked(order, refs)
        /\ \A d \in Definition : d # m => code'[d] = code[d]
    BY <1>2, <1>3, <1>5, CodeType
  <1>7. ASSUME NEW n \in Names
        PROVE  code'[m].bound[n] \in {None, m, Ctx.base_jd[n], Outer(n)}
    <2>1. code'[m].bound[n] = IF n \in refs THEN Found(order, n) ELSE None
      BY <1>6 DEF Linked
    <2> QED
      BY <1>4, <2>1
  <1>8. /\ <<m>> \o global.deque_jd \in Seq(Definition)
        /\ <<m>> \o global.cleaners \in Seq(Definition)
        /\ Entries(<<m>> \o global.deque_jd) = {m} \cup Entries(global.deque_jd)
    BY <1>2, GlobalParts, OneBefore
  <1> HIDE DEF m, order
  <1>9. /\ global' \in Global /\ global'.deque_jd = <<m>> \o global.deque_jd
        /\ global'.cleaners = <<m>> \o global.cleaners
        /\ global'.base_jd = global.base_jd /\ global'.unit_symbols = global.unit_symbols
    <2> DEFINE q == <<m>> \o global.deque_jd
    <2> DEFINE l == <<m>> \o global.cleaners
    <2>1. q \in Seq(Definition) /\ l \in Seq(Definition) /\ global \in Global
      BY <1>8 DEF TypeOK
    <2>2. global' = [global EXCEPT !.deque_jd = q, !.cleaners = l]
      BY <1>3
    <2> HIDE DEF q, l
    <2>3. /\ global' \in Global /\ global'.deque_jd = q /\ global'.cleaners = l
          /\ global'.base_jd = global.base_jd /\ global'.unit_symbols = global.unit_symbols
      BY <2>1, <2>2 DEF Global
    <2> QED
      BY <2>3 DEF q, l
  <1>10. made' \in 0 .. MaxMade
    BY <1>1, <1>2 DEF Definition
  <1>11. TypeOK'
    BY <1>1, <1>6, <1>9, <1>10 DEF TypeOK
  <1>12. Exported' = {m} \cup Exported
    BY <1>8, <1>9 DEF Exported
  <1> QED
    BY <1>1, <1>2, <1>3, <1>6, <1>7, <1>9, <1>11, <1>12 DEF m

LEMMA AddSymbolParts ==
    ASSUME TypeOK, NEW n \in Names, AddSymbol(n)
    PROVE  /\ stack # <<>> /\ made < MaxMade /\ made' = made + 1 /\ made + 1 \in Definition
           /\ UNCHANGED <<global, code, ended, removed>>
           /\ add_symbol_value(Ctx, n, made + 1) \in Context
           /\ Become(add_symbol_value(Ctx, n, made + 1))
           /\ TypeOK'
  <1>1. stack # <<>> /\ made < MaxMade /\ made' = made + 1 /\ UNCHANGED <<global, code, ended, removed>>
        /\ Become(add_symbol_value(Ctx, n, made + 1))
    BY DEF AddSymbol, Running, Make
  <1>2. Ctx \in Context /\ Ctx.cleaners # <<>> /\ made + 1 \in Definition
    BY <1>1, CtxParts, OwnType
  <1>3. /\ add_symbol_value(Ctx, n, made + 1) \in Context
        /\ add_symbol_value(Ctx, n, made + 1).cleaners = Ctx.cleaners
    BY <1>2, AddType DEF add_symbol_value, Context
  <1>4. stack' \in Seq(Context) /\ \A i \in DOMAIN stack' : stack'[i].cleaners # <<>>
    BY <1>1, <1>2, <1>3, BecomeType
  <1>5. made' \in 0 .. MaxMade
    BY <1>1, <1>2 DEF Definition
  <1>6. TypeOK'
    BY <1>1, <1>4, <1>5 DEF TypeOK
  <1> QED
    BY <1>1, <1>2, <1>3, <1>6

LEMMA ExportSymbolParts ==
    ASSUME TypeOK, NEW n \in Names, ExportSymbol(n)
    PROVE  /\ stack # <<>> /\ made < MaxMade /\ made' = made + 1 /\ made + 1 \in Definition
           /\ UNCHANGED <<stack, code, ended, removed>>
           /\ global' = add_symbol_value(global, n, made + 1)
           /\ TypeOK'
  <1>1. stack # <<>> /\ made < MaxMade /\ made' = made + 1 /\ UNCHANGED <<stack, code, ended, removed>>
        /\ global' = add_symbol_value(global, n, made + 1)
    BY DEF ExportSymbol, Running, Make
  <1>2. made + 1 \in Definition
    BY <1>1, OwnType
  <1>3. global' \in Global
    BY <1>1, <1>2, AddType DEF TypeOK
  <1>4. made' \in 0 .. MaxMade
    BY <1>1, <1>2 DEF Definition
  <1>5. TypeOK'
    BY <1>1, <1>3, <1>4 DEF TypeOK
  <1> QED
    BY <1>1, <1>2, <1>5

\* FlushUnitSymbols, and FinishUnit, which also leaves the unit.
FlushedStep(c) ==
    /\ stack # <<>> /\ Become(c) /\ c \in Context
    /\ c.cleaners = Ctx.cleaners /\ c.deque_jd = Ctx.deque_jd
    /\ c.unit_symbols = NoSymbols /\ c.base_jd = Flushed(Ctx)
    /\ \A n \in Names : c.bound[n] \in {None, Ctx.bound[n]}
    /\ global' = flush_unit_symbols_helper(global)
    /\ UNCHANGED <<code, made, ended, removed>>

LEMMA FlushParts ==
    ASSUME TypeOK, FlushUnitSymbols \/ FinishUnit
    PROVE  /\ \E c : FlushedStep(c)
           /\ TypeOK'
  <1>1. stack # <<>> /\ UNCHANGED <<code, made, ended, removed>>
        /\ global' = flush_unit_symbols_helper(global)
    BY DEF FlushUnitSymbols, FinishUnit, Running
  <1>2. Ctx \in Context /\ Ctx.cleaners # <<>>
    BY <1>1, CtxParts
  <1> DEFINE f == [Ctx EXCEPT !.unit_symbols = NoSymbols, !.base_jd = Flushed(Ctx)]
  <1>3. flush_unit_symbols_helper(Ctx) = f
    BY FlushType
  <1>4. Flushed(Ctx) \in Table /\ NoSymbols \in Table
    BY <1>2, FlushedType, NoSymbolsType DEF Context
  <1>5. \E c : FlushedStep(c) /\ c.cleaners # <<>>
    <2>1. CASE FlushUnitSymbols
      <3>1. Become(f)
        BY <1>3, <2>1 DEF FlushUnitSymbols
      <3>2. /\ f \in Context /\ f.cleaners = Ctx.cleaners /\ f.deque_jd = Ctx.deque_jd
            /\ f.unit_symbols = NoSymbols /\ f.base_jd = Flushed(Ctx) /\ f.bound = Ctx.bound
        BY <1>2, <1>4 DEF Context
      <3> HIDE DEF f
      <3> QED
        BY <1>1, <1>2, <3>1, <3>2 DEF FlushedStep
    <2>2. CASE FinishUnit
      <3> DEFINE g == [f EXCEPT !.running = FALSE, !.bound = NoSymbols]
      <3>1. Become(g)
        BY <1>3, <2>2 DEF FinishUnit
      <3>2. /\ g \in Context /\ g.cleaners = Ctx.cleaners /\ g.deque_jd = Ctx.deque_jd
            /\ g.unit_symbols = NoSymbols /\ g.base_jd = Flushed(Ctx) /\ g.bound = NoSymbols
        BY <1>2, <1>4 DEF Context
      <3>3. \A n \in Names : g.bound[n] = None
        BY <3>2, NoSymbolsType
      <3> HIDE DEF f, g
      <3> QED
        BY <1>1, <1>2, <3>1, <3>2, <3>3 DEF FlushedStep
    <2> QED
      BY <2>1, <2>2
  <1>6. stack' \in Seq(Context) /\ \A i \in DOMAIN stack' : stack'[i].cleaners # <<>>
    BY <1>5, BecomeType DEF FlushedStep
  <1>7. global' \in Global
    BY <1>1, FlushType DEF TypeOK
  <1>8. TypeOK'
    BY <1>1, <1>6, <1>7 DEF TypeOK
  <1> QED
    BY <1>5, <1>8

LEMMA RunUnitParts ==
    ASSUME TypeOK, NEW refs \in SUBSET Names, RunUnit(refs)
    PROVE  /\ stack # <<>> /\ UNCHANGED <<global, code, made, ended, removed>>
           /\ \E c \in Context :
                /\ Become(c) /\ c.cleaners = Ctx.cleaners /\ c.deque_jd = Ctx.deque_jd
                /\ c.unit_symbols = Ctx.unit_symbols /\ c.base_jd = Ctx.base_jd
                /\ \A n \in Names : c.bound[n] \in {None, Found(FindOrder(Ctx), n)}
           /\ TypeOK'
  <1> DEFINE order == LocalLinkOrder(NoSymbols, Ctx)
  <1>1. stack # <<>> /\ UNCHANGED <<global, code, made, ended, removed>>
    BY DEF RunUnit
  <1>2. Ctx \in Context /\ Ctx.cleaners # <<>>
    BY <1>1, CtxParts
  <1>3. \A n \in Names : order \in Seq(Table) /\ Found(order, n) = Found(FindOrder(Ctx), n)
    BY <1>2, LocalLink, NoSymbolsType
  <1>4. Linked(order, refs) \in Table
    <2>1. CASE Names = {}
      BY <2>1 DEF Linked, Table
    <2>2. CASE Names # {}
      BY <1>3, <2>2, LinkedType
    <2> QED
      BY <2>1, <2>2
  <1> DEFINE b == Linked(order, refs)
  <1> DEFINE c == [Ctx EXCEPT !.running = TRUE, !.bound = b]
  <1>5. Become(c)
    BY DEF RunUnit
  <1>6. \A n \in Names : b[n] \in {None, Found(FindOrder(Ctx), n)}
    BY <1>3 DEF Linked
  <1> HIDE DEF b
  <1>7. /\ c \in Context /\ c.cleaners = Ctx.cleaners /\ c.deque_jd = Ctx.deque_jd
        /\ c.unit_symbols = Ctx.unit_symbols /\ c.base_jd = Ctx.base_jd /\ c.bound = b
    BY <1>2, <1>4 DEF Context, b
  <1> HIDE DEF c
  <1>8. stack' \in Seq(Context) /\ \A i \in DOMAIN stack' : stack'[i].cleaners # <<>>
    BY <1>1, <1>2, <1>5, <1>7, BecomeType
  <1>9. TypeOK'
    BY <1>1, <1>8 DEF TypeOK
  <1> QED
    BY <1>1, <1>5, <1>6, <1>7, <1>9

LEMMA PushParts ==
    ASSUME TypeOK, push_variables
    PROVE  /\ stack # <<>> /\ UNCHANGED <<global, code, made, ended, removed>>
           /\ PushedIn(Ctx) \in Context /\ Become(PushedIn(Ctx))
           /\ TypeOK'
  <1>1. stack # <<>> /\ UNCHANGED <<global, code, made, ended, removed>> /\ Become(PushedIn(Ctx))
    BY DEF push_variables, Running, PushedIn
  <1>2. Ctx \in Context /\ Ctx.cleaners # <<>>
    BY <1>1, CtxParts
  <1>3. PushedIn(Ctx) \in Context /\ PushedIn(Ctx).cleaners # <<>>
    BY <1>2, PushedParts
  <1>4. stack' \in Seq(Context) /\ \A i \in DOMAIN stack' : stack'[i].cleaners # <<>>
    BY <1>1, <1>3, BecomeType
  <1>5. TypeOK'
    BY <1>1, <1>4 DEF TypeOK
  <1> QED
    BY <1>1, <1>3, <1>5

LEMMA PopParts ==
    ASSUME TypeOK, NEW held \in BOOLEAN, pop_variables(held)
    PROVE  /\ stack # <<>> /\ UNCHANGED <<global, code, made, removed>>
           /\ Len(Ctx.cleaners) > 1
           /\ ended' = IF held THEN ended ELSE ended \o Ctx.cleaners[1]
           /\ PoppedIn(Ctx, held) \in Context /\ Become(PoppedIn(Ctx, held))
           /\ Ctx.cleaners[1] \in Seq(Definition)
           /\ TypeOK'
  <1>1. /\ stack # <<>> /\ UNCHANGED <<global, code, made, removed>> /\ Len(Ctx.cleaners) > 1
        /\ ended' = IF held THEN ended ELSE ended \o Ctx.cleaners[1]
        /\ Become(PoppedIn(Ctx, held))
    BY DEF pop_variables, Running, PoppedIn
  <1>2. Ctx \in Context
    BY <1>1, CtxParts
  <1>3. /\ PoppedIn(Ctx, held) \in Context /\ PoppedIn(Ctx, held).cleaners # <<>>
        /\ 1 \in DOMAIN Ctx.cleaners
    BY <1>1, <1>2, PoppedParts
  <1>4. stack' \in Seq(Context) /\ \A i \in DOMAIN stack' : stack'[i].cleaners # <<>>
    BY <1>1, <1>3, BecomeType
  <1>5. Ctx.cleaners[1] \in Seq(Definition)
    BY <1>2, <1>3, ContextParts
  <1>6. ended \o Ctx.cleaners[1] \in Seq(Definition)
    BY <1>5, ConcatProperties DEF TypeOK
  <1>7. ended' \in Seq(Definition)
    BY <1>1, <1>6 DEF TypeOK
  <1>8. TypeOK'
    BY <1>1, <1>4, <1>7 DEF TypeOK
  <1> QED
    BY <1>1, <1>3, <1>5, <1>8

LEMMA ImportBeginParts ==
    ASSUME TypeOK, ImportBegin
    PROVE  /\ stack # <<>> /\ UNCHANGED <<global, code, made, ended, removed>>
           /\ stack' = <<NewContext>> \o stack /\ stack' # <<>>
           /\ 1 \in DOMAIN stack' /\ stack'[1] = NewContext
           /\ \A i \in DOMAIN stack' : i # 1 => i - 1 \in DOMAIN stack /\ stack'[i] = stack[i - 1]
           /\ \A i \in DOMAIN stack : i + 1 \in DOMAIN stack' /\ stack'[i + 1] = stack[i]
           /\ \A i, j \in DOMAIN stack' : i # j => i - 1 # j - 1
           /\ TypeOK'
  <1>1. stack # <<>> /\ UNCHANGED <<global, code, made, ended, removed>>
        /\ stack' = <<NewContext>> \o stack
    BY DEF ImportBegin, Running
  <1>2. stack \in Seq(Context) /\ NewContext \in Context /\ DOMAIN stack = 1 .. Len(stack)
    BY StackParts, NewContextParts
  <1>3. /\ stack' \in Seq(Context) /\ stack' # <<>> /\ Len(stack) \in Nat
        /\ DOMAIN stack' = 1 .. Len(stack) + 1 /\ stack'[1] = NewContext
        /\ \A i \in 1 .. Len(stack) : i + 1 \in DOMAIN stack' /\ stack'[i + 1] = stack[i]
        /\ \A i \in DOMAIN stack' : i # 1 => i - 1 \in 1 .. Len(stack) /\ stack'[i] = stack[i - 1]
    BY <1>1, <1>2, Before
  <1>4. 1 \in DOMAIN stack' /\ \A i, j \in DOMAIN stack' : i # j => i - 1 # j - 1
    <2>1. Len(stack) \in Nat /\ DOMAIN stack' = 1 .. Len(stack) + 1
      BY <1>3
    <2> QED
      BY <2>1
  <1>5. \A i \in DOMAIN stack' : stack'[i].cleaners # <<>>
    BY <1>2, <1>3, NewContextParts DEF TypeOK
  <1>6. TypeOK'
    BY <1>1, <1>3, <1>5 DEF TypeOK
  <1> QED
    BY <1>1, <1>2, <1>3, <1>4, <1>6

LEMMA EndType ==
    ASSUME TypeOK, stack # <<>>, stack' = Tail(stack)
    PROVE  /\ stack' \in Seq(Context) /\ \A i \in DOMAIN stack' : stack'[i].cleaners # <<>>
           /\ Ctx.cleaners[1] \in Seq(Definition)
           /\ ended \o Ctx.cleaners[1] \in Seq(Definition)
           /\ Mods(Ctx) \subseteq Definition
  <1>1. stack' \in Seq(Context) /\ \A i \in DOMAIN stack' : stack'[i].cleaners # <<>>
    BY TailParts, StackParts
  <1>2. Ctx \in Context /\ 1 \in DOMAIN Ctx.cleaners
    BY CtxParts
  <1>3. Ctx.cleaners[1] \in Seq(Definition) /\ Mods(Ctx) \subseteq Definition
    BY <1>2, ContextParts
  <1>4. ended \o Ctx.cleaners[1] \in Seq(Definition)
    BY <1>3, ConcatProperties DEF TypeOK
  <1> QED
    BY <1>1, <1>3, <1>4

LEMMA ImportEndParts ==
    ASSUME TypeOK, ImportEnd
    PROVE  /\ stack # <<>> /\ stack' # <<>> /\ UNCHANGED <<global, code, made>>
           /\ stack' = Tail(stack) /\ ended' = ended \o Ctx.cleaners[1]
           /\ removed' = removed \cup Mods(Ctx) /\ Len(Ctx.cleaners) = 1
           /\ Len(stack') = Len(stack) - 1
           /\ Ctx.cleaners[1] \in Seq(Definition)
           /\ TypeOK'
  <1>1. /\ Len(stack) > 1 /\ UNCHANGED <<global, code, made>> /\ stack' = Tail(stack)
        /\ ended' = ended \o Ctx.cleaners[1] /\ removed' = removed \cup Mods(Ctx)
        /\ Len(Ctx.cleaners) = 1
    BY DEF ImportEnd, EndContext, Mods
  <1>2. stack # <<>> /\ Len(stack) \in Nat /\ stack \in Seq(Context)
    BY <1>1, StackParts
  <1>3. stack' # <<>> /\ Len(stack') = Len(stack) - 1
    <2>1. Len(stack') = Len(stack) - 1
      BY <1>1, <1>2, TailParts
    <2>2. Len(stack) > 1 /\ Len(stack) \in Nat
      BY <1>1, <1>2
    <2>3. Len(stack') # 0
      BY <2>1, <2>2
    <2> QED
      BY <2>1, <2>3
  <1>4. /\ stack' \in Seq(Context) /\ \A i \in DOMAIN stack' : stack'[i].cleaners # <<>>
        /\ ended' \in Seq(Definition) /\ Mods(Ctx) \subseteq Definition
        /\ Ctx.cleaners[1] \in Seq(Definition)
    BY <1>1, <1>2, EndType
  <1>5. TypeOK'
    BY <1>1, <1>4 DEF TypeOK
  <1> QED
    BY <1>1, <1>2, <1>3, <1>4, <1>5

LEMMA TerminateParts ==
    ASSUME TypeOK, Terminate
    PROVE  /\ stack # <<>> /\ stack' = <<>> /\ UNCHANGED <<code, made>>
           /\ DOMAIN stack = {1} /\ Len(Ctx.cleaners) = 1 /\ DOMAIN Ctx.cleaners = {1}
           /\ ended' = ended \o Ctx.cleaners[1] \o global.cleaners
           /\ removed' = removed \cup Mods(Ctx) \cup Exported
           /\ global'.deque_jd = global.deque_jd /\ global'.base_jd = global.base_jd
           /\ global'.unit_symbols = global.unit_symbols
           /\ Ctx.cleaners[1] \in Seq(Definition)
           /\ TypeOK'
  <1>1. /\ Len(stack) = 1 /\ UNCHANGED <<code, made>> /\ stack' = <<>>
        /\ ended' = ended \o Ctx.cleaners[1] \o global.cleaners
        /\ removed' = removed \cup Mods(Ctx) \cup Exported
        /\ global' = [global EXCEPT !.cleaners = <<>>] /\ Len(Ctx.cleaners) = 1
    BY DEF Terminate, Mods, Exported
  <1>2. stack # <<>> /\ DOMAIN stack = {1}
    <2>1. Len(stack) = 1 /\ DOMAIN stack = 1 .. Len(stack)
      BY <1>1, StackParts
    <2> QED
      BY <2>1
  <1>3. /\ Ctx \in Context /\ 1 \in DOMAIN Ctx.cleaners /\ Mods(Ctx) \subseteq Definition
        /\ DOMAIN Ctx.cleaners = 1 .. Len(Ctx.cleaners) /\ Ctx.cleaners[1] \in Seq(Definition)
    BY <1>2, CtxParts, ContextParts
  <1>4. ended \o Ctx.cleaners[1] \in Seq(Definition)
    BY <1>3, ConcatProperties DEF TypeOK
  <1>5. ended' \in Seq(Definition)
    <2> DEFINE s == ended \o Ctx.cleaners[1]
    <2>1. s \in Seq(Definition) /\ ended' = s \o global.cleaners
      BY <1>1, <1>4
    <2> HIDE DEF s
    <2> QED
      BY <2>1, GlobalParts, ConcatProperties
  <1>6. <<>> \in Seq(Definition) /\ <<>> \in Seq(Context)
    BY EmptySeq
  <1>7. /\ global' \in Global /\ global'.deque_jd = global.deque_jd
        /\ global'.base_jd = global.base_jd /\ global'.unit_symbols = global.unit_symbols
    <2> DEFINE none == <<>>
    <2>1. none \in Seq(Definition) /\ global \in Global /\ global' = [global EXCEPT !.cleaners = none]
      BY <1>1, <1>6 DEF TypeOK
    <2> HIDE DEF none
    <2> QED
      BY <2>1 DEF Global
  <1>8. removed' \subseteq Definition
    BY <1>1, <1>3, GlobalParts DEF TypeOK
  <1>9. TypeOK'
    BY <1>1, <1>5, <1>6, <1>7, <1>8 DEF TypeOK
  <1> QED
    BY <1>1, <1>2, <1>3, <1>7, <1>9

LEMMA InitType == Init => TypeOK
  <1> SUFFICES ASSUME Init PROVE TypeOK
    OBVIOUS
  <1> DEFINE none == <<>>
  <1>1. NewContext \in Context /\ NewContext.cleaners # <<>>
    BY NewContextParts
  <1>2. none \in Seq(Definition)
    BY EmptySeq
  <1> HIDE DEF none
  <1>3. global \in Global
    <2> DEFINE t == [n \in Names |-> IF n \in External THEN TheExecutable ELSE None]
    <2>1. t \in Table
      BY DEF Table
    <2>2. global = [base_jd |-> t, unit_symbols |-> NoSymbols, deque_jd |-> none, cleaners |-> none]
      BY DEF Init, none
    <2> HIDE DEF t
    <2> QED
      BY <1>2, <2>1, <2>2, NoSymbolsType DEF Global
  <1>4. code \in [Definition -> Module]
    BY NoSymbolsType DEF Init, Module, NoModule
  <1>5. stack \in Seq(Context) /\ \A i \in DOMAIN stack : stack[i].cleaners # <<>>
    <2> DEFINE c == NewContext
    <2>1. c \in Context /\ c.cleaners # <<>> /\ stack = <<c>>
      BY <1>1 DEF Init
    <2> HIDE DEF c
    <2>2. <<c>> \in Seq(Context) /\ DOMAIN <<c>> = {1} /\ <<c>>[1] = c
      BY <2>1
    <2> QED
      BY <2>1, <2>2
  <1>6. made \in 0 .. MaxMade /\ ended \in Seq(Definition) /\ removed \subseteq Definition
    BY <1>2, BoundsAssumption DEF Init, none
  <1> QED
    BY <1>3, <1>4, <1>5, <1>6 DEF TypeOK

\* The steps of the system, on objects and units there are.
LEMMA Steps ==
    ASSUME Next
    PROVE  \/ \E refs \in SUBSET Names : RunUnit(refs)
           \/ \E defs \in SUBSET Names, refs \in SUBSET Names :
                 LoadLocal(defs, refs) \/ LoadExported(defs, refs)
           \/ \E n \in Names : AddSymbol(n) \/ ExportSymbol(n)
           \/ FlushUnitSymbols \/ FinishUnit
           \/ push_variables \/ \E held \in BOOLEAN : pop_variables(held)
           \/ ImportBegin \/ ImportEnd \/ Terminate
  <1>1. \A o \in Objects : o.defs \in SUBSET Names /\ o.refs \in SUBSET Names
    BY ObjectsAssumption
  <1>2. Units \subseteq SUBSET Names
    BY UnitsAssumption
  <1>3. CASE \E o \in Objects : LoadLocal(o.defs, o.refs) \/ LoadExported(o.defs, o.refs)
    BY <1>1, <1>3
  <1>4. CASE \E refs \in Units : RunUnit(refs)
    BY <1>2, <1>4
  <1> QED
    BY <1>3, <1>4 DEF Next

LEMMA NextType == TypeOK /\ [Next]_vars => TypeOK'
  <1> SUFFICES ASSUME TypeOK, [Next]_vars PROVE TypeOK'
    OBVIOUS
  <1>1. CASE Next
    BY <1>1, Steps, RunUnitParts, LoadLocalParts, LoadExportedParts, AddSymbolParts,
       ExportSymbolParts, FlushParts, PushParts, PopParts, ImportBeginParts, ImportEndParts,
       TerminateParts
  <1>2. CASE UNCHANGED vars
    BY <1>2 DEF vars, TypeOK
  <1> QED
    BY <1>1, <1>2

\* The state always has its type: the numbers that deques, cleaners and tables
\* hold are those of definitions, and no context is left without a list for its
\* outermost scope.
THEOREM TypeCorrect == Spec => []TypeOK
  <1>1. Init => TypeOK
    BY InitType
  <1>2. TypeOK /\ [Next]_vars => TypeOK'
    BY NextType
  <1> QED
    BY <1>1, <1>2, PTL DEF Spec

(***************************************************************************)
(* Linkers and find_symbol_value agree.                                     *)
(***************************************************************************)

\* The two parts of LinkedAsFound: the unit, and a module that was loaded.
UnitAsFound ==
    \A n \in Names :
        stack # <<>> /\ Len(stack') = Len(stack) /\ Head(stack').bound[n] # Ctx.bound[n]
            => Head(stack').bound[n] \in {None, find_symbol_value(n)}

ModuleAsFound ==
    \A n \in Names :
        Len(stack) > 0 /\ Len(stack') = Len(stack) /\ made' # made
          /\ Head(stack').deque_jd # Ctx.deque_jd
            => code'[made'].bound[n] \in {None, made', find_symbol_value(n)}

\* A step that leaves the innermost context its unit and its modules.
LEMMA QuietStep ==
    ASSUME TypeOK, stack # <<>>, NEW c \in Context, Become(c) \/ (stack' = stack /\ c = Ctx),
           \A n \in Names : c.bound[n] \in {None, Ctx.bound[n]},
           c.deque_jd = Ctx.deque_jd
    PROVE  UnitAsFound /\ ModuleAsFound
  <1>1. Head(stack') = c
    BY BecomeParts DEF Ctx
  <1> QED
    BY <1>1 DEF UnitAsFound, ModuleAsFound

LEMMA LinkStep == TypeOK /\ Next => UnitAsFound /\ ModuleAsFound
  <1> SUFFICES ASSUME TypeOK, Next PROVE UnitAsFound /\ ModuleAsFound
    OBVIOUS
  <1>1. ASSUME NEW refs \in SUBSET Names, RunUnit(refs) PROVE UnitAsFound /\ ModuleAsFound
    <2>1. PICK c \in Context :
             /\ Become(c) /\ c.deque_jd = Ctx.deque_jd
             /\ \A n \in Names : c.bound[n] \in {None, Found(FindOrder(Ctx), n)}
      BY <1>1, RunUnitParts
    <2>2. Head(stack') = c /\ made' = made
      BY <1>1, <2>1, RunUnitParts, BecomeParts
    <2> QED
      BY <2>1, <2>2 DEF UnitAsFound, ModuleAsFound, find_symbol_value
  <1>2. ASSUME NEW defs \in SUBSET Names, NEW refs \in SUBSET Names, LoadLocal(defs, refs)
        PROVE  UnitAsFound /\ ModuleAsFound
    <2>1. Head(stack') = LoadedIn(Ctx, made + 1) /\ made' = made + 1
      BY <1>2, LoadLocalParts, BecomeParts
    <2>2. Ctx \in Context /\ Ctx.cleaners # <<>> /\ 1 \in DOMAIN Ctx.cleaners /\ made + 1 \in Definition
      BY <1>2, LoadLocalParts, CtxParts
    <2>3. LoadedIn(Ctx, made + 1).bound = Ctx.bound
      BY <2>2, LoadedParts
    <2>4. \A n \in Names : code'[made'].bound[n] \in {None, made', find_symbol_value(n)}
      BY <1>2, <2>1, LoadLocalParts DEF find_symbol_value
    <2> QED
      BY <2>1, <2>3, <2>4 DEF UnitAsFound, ModuleAsFound
  <1>3. ASSUME stack # <<>>, stack' = stack PROVE UnitAsFound /\ ModuleAsFound
    BY <1>3, CtxParts, QuietStep
  <1>4. ASSUME NEW n \in Names, AddSymbol(n) PROVE UnitAsFound /\ ModuleAsFound
    <2> DEFINE c == add_symbol_value(Ctx, n, made + 1)
    <2>1. stack # <<>> /\ Ctx \in Context /\ c \in Context /\ Become(c)
      BY <1>4, AddSymbolParts, CtxParts
    <2>2. c.bound = Ctx.bound /\ c.deque_jd = Ctx.deque_jd
      BY <2>1 DEF add_symbol_value, Context
    <2> HIDE DEF c
    <2> QED
      BY <2>1, <2>2, QuietStep
  <1>5. ASSUME FlushUnitSymbols \/ FinishUnit PROVE UnitAsFound /\ ModuleAsFound
    BY <1>5, FlushParts, QuietStep DEF FlushedStep
  <1>6. ASSUME push_variables PROVE UnitAsFound /\ ModuleAsFound
    <2>1. /\ stack # <<>> /\ Ctx \in Context /\ Ctx.cleaners # <<>>
          /\ PushedIn(Ctx) \in Context /\ Become(PushedIn(Ctx))
      BY <1>6, PushParts, CtxParts
    <2>2. PushedIn(Ctx).bound = Ctx.bound /\ PushedIn(Ctx).deque_jd = Ctx.deque_jd
      BY <2>1, PushedParts
    <2> QED
      BY <2>1, <2>2, QuietStep
  <1>7. ASSUME NEW held \in BOOLEAN, pop_variables(held) PROVE UnitAsFound /\ ModuleAsFound
    <2>1. stack # <<>> /\ Ctx \in Context /\ Len(Ctx.cleaners) > 1
          /\ PoppedIn(Ctx, held) \in Context /\ Become(PoppedIn(Ctx, held))
      BY <1>7, PopParts, CtxParts
    <2>2. PoppedIn(Ctx, held).bound = Ctx.bound /\ PoppedIn(Ctx, held).deque_jd = Ctx.deque_jd
      BY <2>1, PoppedParts
    <2> QED
      BY <2>1, <2>2, QuietStep
  <1>8. ASSUME Len(stack') # Len(stack) PROVE UnitAsFound /\ ModuleAsFound
    BY <1>8 DEF UnitAsFound, ModuleAsFound
  <1>9. ImportBegin => Len(stack') # Len(stack)
    <2> SUFFICES ASSUME ImportBegin PROVE Len(stack') # Len(stack)
      OBVIOUS
    <2>1. stack \in Seq(Context) /\ NewContext \in Context /\ stack' = <<NewContext>> \o stack
      BY StackParts, NewContextParts DEF ImportBegin
    <2>2. Len(stack') = Len(stack) + 1 /\ Len(stack) \in Nat
      BY <2>1, Before
    <2> QED
      BY <2>2
  <1>10. ImportEnd => Len(stack') # Len(stack)
    <2> SUFFICES ASSUME ImportEnd PROVE Len(stack') # Len(stack)
      OBVIOUS
    <2>1. Len(stack') = Len(stack) - 1 /\ Len(stack) \in Nat
      BY ImportEndParts, StackParts
    <2> QED
      BY <2>1
  <1>11. Terminate => made' = made /\ Len(stack') # Len(stack)
    <2> SUFFICES ASSUME Terminate PROVE made' = made /\ Len(stack') # Len(stack)
      OBVIOUS
    <2>1. stack' = <<>> /\ made' = made /\ Len(stack) = 1
      BY DEF Terminate
    <2> QED
      BY <2>1
  <1>12. ASSUME NEW defs \in SUBSET Names, NEW refs \in SUBSET Names, LoadExported(defs, refs)
         PROVE  UnitAsFound /\ ModuleAsFound
    BY <1>3, <1>12, LoadExportedParts
  <1>13. ASSUME NEW n \in Names, ExportSymbol(n) PROVE UnitAsFound /\ ModuleAsFound
    BY <1>3, <1>13, ExportSymbolParts
  <1> QED
    BY <1>1, <1>2, <1>4, <1>5, <1>6, <1>7, <1>8, <1>9, <1>10, <1>11, <1>12, <1>13, Steps

\* Whatever is loaded, exported or imported before: a unit, and a module of a
\* context for what it does not define itself, is bound to what
\* find_symbol_value would have answered to the code that loads it.
THEOREM LinkersAgree == Spec => LinkedAsFound
  <1>1. TypeOK /\ [Next]_vars => [UnitAsFound /\ ModuleAsFound]_vars
    BY LinkStep
  <1>2. Spec => []TypeOK
    BY TypeCorrect
  <1> QED
    BY <1>1, <1>2, PTL DEF Spec, LinkedAsFound, UnitAsFound, ModuleAsFound

(***************************************************************************)
(* Who owns what after a step.                                              *)
(***************************************************************************)

\* The innermost context is now d, or has become d; the others are as they were.
Replaced(d) ==
    /\ DOMAIN stack' = DOMAIN stack /\ stack' # <<>>
    /\ stack'[1] = d
    /\ \A i \in DOMAIN stack : i # 1 => stack'[i] = stack[i]

\* The step makes no definition, or the next one.
Made(new) == made' \in Nat /\ (made' = made \/ made' = made + 1) /\ new \subseteq {made + 1} \cap 1 .. made'

\* It loads the modules M, if any, for the innermost context, and X for all.
Gains(d, M, X) ==
    /\ Replaced(d) /\ Made(M \cup X) /\ M \cap X = {}
    /\ Mods(d) = M \cup Mods(Ctx) /\ Exported' = X \cup Exported /\ removed' = removed

\* Loading a module for the context or for all, or neither: no module gets a
\* second owner, and what is made otherwise is a value.
LEMMA OwnersStep ==
    ASSUME TypeOK, OneOwner, stack # <<>>, NEW d, NEW M, NEW X, Gains(d, M, X)
    PROVE  /\ OneOwner'
           /\ Values' = Values \cup ((made + 1 .. made') \ (M \cup X))
           /\ Exported \subseteq Exported' /\ GlobalReach \subseteq GlobalReach'
  <1> USE DEF Gains
  <1>1. 1 \in DOMAIN stack /\ Ctx = stack[1] /\ made \in Nat
    BY CtxParts DEF TypeOK
  <1>2. /\ \A x \in M \cup X : x = made + 1 /\ x \in 1 .. made' /\ ~(x \in 1 .. made)
        /\ 1 .. made \subseteq 1 .. made'
        /\ \A x \in 1 .. made' : x \in 1 .. made \/ x \in made + 1 .. made'
        /\ \A x \in made + 1 .. made' : x \in 1 .. made' /\ ~(x \in 1 .. made)
    BY <1>1 DEF Made
  <1>3. /\ Mods(stack'[1]) = M \cup Mods(stack[1])
        /\ \A i \in DOMAIN stack : i # 1 => Mods(stack'[i]) = Mods(stack[i])
    BY <1>1 DEF Replaced
  <1>4. Owned' = M \cup Owned
    <2>1. Owned' = UNION {Mods(stack'[i]) : i \in DOMAIN stack'}
      BY DEF Owned
    <2>2. DOMAIN stack' = DOMAIN stack
      BY DEF Replaced
    <2> QED
      BY <1>1, <1>3, <2>1, <2>2 DEF Owned
  <1>5. /\ Exported \subseteq 1 .. made /\ removed \subseteq 1 .. made
        /\ \A i \in DOMAIN stack : Mods(stack[i]) \subseteq 1 .. made
    BY DEF OneOwner
  <1>6. Exported' \subseteq 1 .. made' /\ removed' \subseteq 1 .. made'
    BY <1>2, <1>5
  <1>7. Exported' \cap removed' = {} /\ stack' # <<>>
    BY <1>2, <1>5 DEF OneOwner, Replaced
  <1>8. ASSUME NEW i \in DOMAIN stack
        PROVE  /\ Mods(stack'[i]) \subseteq 1 .. made'
               /\ Mods(stack'[i]) \cap (Exported' \cup removed') = {}
               /\ \A j \in DOMAIN stack : i # j => Mods(stack'[i]) \cap Mods(stack'[j]) = {}
    <2>1. Mods(stack[i]) \cap (Exported \cup removed) = {}
          /\ \A j \in DOMAIN stack : i # j => Mods(stack[i]) \cap Mods(stack[j]) = {}
      BY DEF OneOwner
    <2>2. CASE i = 1
      BY <1>2, <1>3, <1>5, <2>1, <2>2
    <2>3. CASE i # 1
      BY <1>1, <1>2, <1>3, <1>5, <2>1, <2>3
    <2> QED
      BY <2>2, <2>3
  <1>9. OneOwner'
    BY <1>6, <1>7, <1>8 DEF OneOwner, Replaced
  <1>10. Owned \subseteq 1 .. made
    BY <1>5 DEF Owned
  <1>11. Values' = (1 .. made') \ (removed' \cup Exported' \cup Owned')
    BY DEF Values
  <1>12. Values' = Values \cup ((made + 1 .. made') \ (M \cup X))
    BY <1>2, <1>4, <1>5, <1>10, <1>11 DEF Values
  <1>13. GlobalReach' = {None, TheExecutable} \cup Exported' \cup Values'
    BY DEF GlobalReach
  <1> QED
    BY <1>9, <1>12, <1>13 DEF GlobalReach

\* What a context is bound to stays in its reach.
LEMMA BoundStep ==
    ASSUME NEW c, NEW code1, NEW code2, NEW R1, NEW R2, R1 \subseteq R2,
           \A d \in Mods(c) : code2[d] = code1[d],
           CtxBound(c, code1, R1)
    PROVE  CtxBound(c, code2, R2)
  BY DEF CtxBound, BoundIn

LEMMA GivenStep ==
    ASSUME NEW t, NEW V, NEW W, V \subseteq W, Given(t, V)
    PROVE  Given(t, W)
  BY DEF Given

\* Modules of other contexts that end do not concern a context.
LEMMA AccountedStep ==
    ASSUME NEW c, NEW E, NEW F, Accounted(c, E), E \subseteq F, (F \ E) \cap Mods(c) = {}
    PROVE  Accounted(c, F)
  BY DEF Accounted

\* A step that concerns the innermost context, d after it, and the global one.
LEMMA HeadStep ==
    ASSUME IInv, TypeOK', EndsInTime', stack # <<>>, NEW d, NEW M, NEW X, Gains(d, M, X),
           Entries(ended) \subseteq Entries(ended'),
           Entries(ended') \subseteq Entries(ended) \cup Pending(Ctx),
           Ordered(d), Accounted(d, Entries(ended')),
           global'.cleaners = global'.deque_jd, Descending(global'.deque_jd),
           \A x \in Definition : x \notin M \cup X => code'[x] = code[x],
           \A x \in M : BoundIn(code'[x].bound, x, Mods(d) \cup GlobalReach'),
           \A x \in X : BoundIn(code'[x].bound, x, GlobalReach'),
           \A n \in Names : d.bound[n] \in Mods(d) \cup GlobalReach',
           Given(d.base_jd, Values'), Given(d.unit_symbols, Values'),
           Given(global'.base_jd, {TheExecutable} \cup Values'), Given(global'.unit_symbols, Values')
    PROVE  IInv'
  <1>0. /\ Replaced(d) /\ Made(M \cup X) /\ M \cap X = {}
        /\ Mods(d) = M \cup Mods(Ctx) /\ Exported' = X \cup Exported /\ removed' = removed
    BY DEF Gains
  <1>1. 1 \in DOMAIN stack /\ Ctx = stack[1] /\ Ctx \in Context
    BY CtxParts DEF IInv
  <1>2. made \in Nat
    BY DEF IInv, TypeOK
  <1>3. /\ OneOwner'
        /\ Values' = Values \cup ((made + 1 .. made') \ (M \cup X))
        /\ Exported \subseteq Exported' /\ GlobalReach \subseteq GlobalReach'
    BY OwnersStep DEF IInv
  <1>4. Values \subseteq Values'
    BY <1>3
  <1>5. /\ \A x \in M \cup X : x = made + 1 /\ ~(x \in 1 .. made)
        /\ 1 .. made \subseteq 1 .. made' /\ made' \in Nat
        /\ \A x : x \in made + 1 .. made' => x > made
        /\ \A x \in Definition : x > made' => x > made
    BY <1>0, <1>2 DEF Made, Definition
  <1>6. /\ Exported \subseteq 1 .. made
        /\ \A i \in DOMAIN stack :
             /\ Mods(stack[i]) \subseteq 1 .. made
             /\ \A j \in DOMAIN stack : i # j => Mods(stack[i]) \cap Mods(stack[j]) = {}
    BY DEF IInv, OneOwner
  <1>7. Exported \subseteq Definition /\ \A i \in DOMAIN stack : Mods(stack[i]) \subseteq Definition
    BY GlobalParts, StackParts, ContextParts DEF IInv
  <1>8. InOrder'
    <2>1. Pending(Ctx) \subseteq Mods(Ctx) /\ Entries(ended) \subseteq 1 .. made
      BY <1>1 DEF IInv, InOrder, Accounted
    <2>2. Entries(ended') \subseteq 1 .. made'
      BY <1>1, <1>5, <1>6, <2>1
    <2>3. ASSUME NEW i \in DOMAIN stack, i # 1
          PROVE  Ordered(stack'[i]) /\ Accounted(stack'[i], Entries(ended'))
      <3>1. Ordered(stack[i]) /\ Accounted(stack[i], Entries(ended))
        BY DEF IInv, InOrder
      <3>2. (Entries(ended') \ Entries(ended)) \cap Mods(stack[i]) = {}
        BY <1>1, <1>6, <2>1, <2>3
      <3>3. Accounted(stack[i], Entries(ended'))
        BY <3>1, <3>2, AccountedStep
      <3> QED
        BY <1>0, <2>3, <3>1, <3>3 DEF Replaced
    <2>4. \A i \in DOMAIN stack' : Ordered(stack'[i]) /\ Accounted(stack'[i], Entries(ended'))
      BY <1>0, <2>3 DEF Replaced
    <2>5. Entries(ended)' = Entries(ended')
      OBVIOUS
    <2> QED
      BY <2>2, <2>4 DEF InOrder
  <1>9. Bindings'
    <2>1. ASSUME NEW x \in Definition, x \in Values' \/ x > made' PROVE code'[x] = NoModule
      <3>1. CASE x \in Values'
        <4>1. x \notin M \cup X
          <5>1. ASSUME x \in M \cup X PROVE FALSE
            <6>1. x \notin Values
              BY <1>5, <5>1 DEF Values
            <6> QED
              BY <1>3, <3>1, <5>1, <6>1
          <5> QED
            BY <5>1
        <4>2. x \in Values \/ x > made
          BY <1>3, <1>5, <3>1
        <4> QED
          BY <4>1, <4>2 DEF IInv, Bindings
      <3>2. CASE x > made'
        <4>1. x > made /\ x \notin M \cup X
          BY <1>0, <1>2, <1>5, <3>2 DEF Made
        <4> QED
          BY <4>1 DEF IInv, Bindings
      <3> QED
        BY <2>1, <3>1, <3>2
    <2>2. ASSUME NEW x \in Exported' PROVE BoundIn(code'[x].bound, x, GlobalReach')
      <3>1. CASE x \in X
        BY <3>1
      <3>2. CASE x \in Exported
        <4>1. x \notin M \cup X /\ x \in Definition
          BY <1>5, <1>6, <1>7, <3>2
        <4>2. code'[x] = code[x] /\ BoundIn(code[x].bound, x, GlobalReach)
          BY <3>2, <4>1 DEF IInv, Bindings
        <4> QED
          BY <1>3, <4>2 DEF BoundIn
      <3> QED
        BY <1>0, <2>2, <3>1, <3>2
    <2>3. ASSUME NEW i \in DOMAIN stack PROVE CtxBound(stack'[i], code', GlobalReach')
      <3>1. CtxBound(stack[i], code, GlobalReach)
        BY DEF IInv, Bindings
      <3>2. \A x \in Mods(stack[i]) : code'[x] = code[x]
        BY <1>5, <1>6, <1>7
      <3>3. CASE i # 1
        BY <1>0, <1>3, <3>1, <3>2, <3>3, BoundStep DEF Replaced
      <3>4. CASE i = 1
        <4>1. ASSUME NEW x \in Mods(d) PROVE BoundIn(code'[x].bound, x, Mods(d) \cup GlobalReach')
          <5>1. CASE x \in M
            BY <5>1
          <5>2. CASE x \in Mods(Ctx)
            <6>1. BoundIn(code[x].bound, x, Mods(Ctx) \cup GlobalReach) /\ code'[x] = code[x]
              BY <1>1, <3>1, <3>2, <3>4, <5>2 DEF CtxBound
            <6> QED
              BY <1>0, <1>3, <6>1 DEF BoundIn
          <5> QED
            BY <1>0, <4>1, <5>1, <5>2
        <4> QED
          BY <1>0, <3>4, <4>1 DEF CtxBound, Replaced
      <3> QED
        BY <3>3, <3>4
    <2> QED
      BY <1>0, <2>1, <2>2, <2>3 DEF Bindings, Replaced
  <1>10. Tabled'
    <2>1. ASSUME NEW i \in DOMAIN stack
          PROVE  Given(stack'[i].base_jd, Values') /\ Given(stack'[i].unit_symbols, Values')
      <3>1. Given(stack[i].base_jd, Values) /\ Given(stack[i].unit_symbols, Values)
        BY DEF IInv, Tabled
      <3>2. Given(stack[i].base_jd, Values') /\ Given(stack[i].unit_symbols, Values')
        BY <1>4, <3>1, GivenStep
      <3> QED
        BY <1>0, <3>2 DEF Replaced
    <2> QED
      BY <1>0, <2>1 DEF Tabled, Replaced
  <1> QED
    BY <1>3, <1>8, <1>9, <1>10 DEF IInv

(***************************************************************************)
(* The lists of a context over its operations.                              *)
(***************************************************************************)

LEMMA PendingIn ==
    ASSUME NEW c, NEW k \in DOMAIN c.cleaners
    PROVE  Entries(c.cleaners[k]) \subseteq Pending(c)
  BY DEF Pending

LEMMA LoadedOrdered ==
    ASSUME NEW c \in Context, c.cleaners # <<>>, 1 \in DOMAIN c.cleaners,
           NEW m \in Definition, NEW E, Ordered(c), Accounted(c, E),
           \A x \in Mods(c) : m > x, m \notin E
    PROVE  Ordered(LoadedIn(c, m)) /\ Accounted(LoadedIn(c, m), E)
  <1> DEFINE d == LoadedIn(c, m)
  <1>1. /\ DOMAIN d.cleaners = DOMAIN c.cleaners
        /\ d.cleaners[1] = <<m>> \o c.cleaners[1]
        /\ \A k \in DOMAIN c.cleaners : k # 1 => d.cleaners[k] = c.cleaners[k]
        /\ Mods(d) = {m} \cup Mods(c)
    BY LoadedParts
  <1> HIDE DEF d
  <1>2. /\ DOMAIN c.cleaners = 1 .. Len(c.cleaners) /\ Len(c.cleaners) \in Nat
        /\ c.cleaners[1] \in Seq(Definition)
    BY ContextParts
  <1>3. \A k \in DOMAIN c.cleaners : Entries(c.cleaners[k]) \subseteq Mods(c)
    BY PendingIn DEF Accounted
  <1>4. Entries(d.cleaners[1]) = {m} \cup Entries(c.cleaners[1])
    BY <1>1, <1>2, OneBefore
  <1>5. Descending(d.cleaners[1])
    <2>1. Descending(c.cleaners[1]) /\ \A x \in Entries(c.cleaners[1]) : m > x
      BY <1>3 DEF Ordered
    <2> QED
      BY <1>1, <1>2, <2>1, OneBefore
  <1>6. Ordered(d)
    <2> SUFFICES ASSUME NEW k \in DOMAIN c.cleaners
                 PROVE  /\ Descending(d.cleaners[k])
                        /\ \A j \in DOMAIN c.cleaners :
                              j < k => Above(Entries(d.cleaners[j]), Entries(d.cleaners[k]))
      BY <1>1 DEF Ordered
    <2>1. Descending(c.cleaners[k]) /\ \A j \in DOMAIN c.cleaners :
              j < k => Above(Entries(c.cleaners[j]), Entries(c.cleaners[k]))
      BY DEF Ordered
    <2>2. CASE k = 1
      <3>1. \A j \in DOMAIN c.cleaners : ~(j < k)
        BY <1>2, <2>2
      <3> QED
        BY <1>5, <2>2, <3>1
    <2>3. CASE k # 1
      <3>1. d.cleaners[k] = c.cleaners[k]
        BY <1>1, <2>3
      <3>2. ASSUME NEW j \in DOMAIN c.cleaners, j < k
            PROVE  Above(Entries(d.cleaners[j]), Entries(d.cleaners[k]))
        <4>1. CASE j = 1
          BY <1>3, <1>4, <2>1, <3>1, <3>2, <4>1 DEF Above
        <4>2. CASE j # 1
          BY <1>1, <2>1, <3>1, <3>2, <4>2
        <4> QED
          BY <4>1, <4>2
      <3> QED
        BY <2>1, <3>1, <3>2
    <2> QED
      BY <2>2, <2>3
  <1>7. Pending(d) = {m} \cup Pending(c)
    <2>1. ASSUME NEW x \in Pending(d) PROVE x \in {m} \cup Pending(c)
      <3>1. PICK k \in DOMAIN c.cleaners : x \in Entries(d.cleaners[k])
        BY <1>1 DEF Pending
      <3>2. x = m \/ x \in Entries(c.cleaners[k])
        BY <1>1, <1>4, <3>1
      <3> QED
        BY <3>2 DEF Pending
    <2>2. m \in Pending(d)
      BY <1>1, <1>4 DEF Pending
    <2>3. ASSUME NEW x \in Pending(c) PROVE x \in Pending(d)
      <3>1. PICK k \in DOMAIN c.cleaners : x \in Entries(c.cleaners[k])
        BY DEF Pending
      <3>2. x \in Entries(d.cleaners[k])
        BY <1>1, <1>4, <3>1
      <3> QED
        BY <1>1, <3>2 DEF Pending
    <2> QED
      BY <2>1, <2>2, <2>3
  <1>8. Accounted(d, E)
    BY <1>1, <1>7 DEF Accounted
  <1> QED
    BY <1>6, <1>8 DEF d

LEMMA PushedOrdered ==
    ASSUME NEW c \in Context, c.cleaners # <<>>, NEW E, Ordered(c), Accounted(c, E)
    PROVE  Ordered(PushedIn(c)) /\ Accounted(PushedIn(c), E) /\ Mods(PushedIn(c)) = Mods(c)
  <1> DEFINE d == PushedIn(c)
  <1>1. /\ d.deque_jd = c.deque_jd /\ d.cleaners[1] = <<>> /\ d \in Context
        /\ \A k \in DOMAIN d.cleaners :
              k # 1 => k - 1 \in DOMAIN c.cleaners /\ d.cleaners[k] = c.cleaners[k - 1]
        /\ \A k \in DOMAIN c.cleaners : k + 1 \in DOMAIN d.cleaners /\ d.cleaners[k + 1] = c.cleaners[k]
    BY PushedParts
  <1> HIDE DEF d
  <1>2. /\ DOMAIN d.cleaners = 1 .. Len(d.cleaners) /\ Len(d.cleaners) \in Nat
    BY <1>1, ContextParts
  <1>3. Entries(d.cleaners[1]) = {} /\ Descending(d.cleaners[1])
    BY <1>1, EntriesNone DEF Descending
  <1>4. Ordered(d)
    <2> SUFFICES ASSUME NEW k \in DOMAIN d.cleaners
                 PROVE  /\ Descending(d.cleaners[k])
                        /\ \A j \in DOMAIN d.cleaners :
                              j < k => Above(Entries(d.cleaners[j]), Entries(d.cleaners[k]))
      BY DEF Ordered
    <2>1. CASE k = 1
      <3>1. \A j \in DOMAIN d.cleaners : ~(j < k)
        BY <1>2, <2>1
      <3> QED
        BY <1>3, <2>1, <3>1
    <2>2. CASE k # 1
      <3>1. k - 1 \in DOMAIN c.cleaners /\ d.cleaners[k] = c.cleaners[k - 1]
        BY <1>1, <2>2
      <3>2. ASSUME NEW j \in DOMAIN d.cleaners, j < k
            PROVE  Above(Entries(d.cleaners[j]), Entries(d.cleaners[k]))
        <4>1. CASE j = 1
          BY <1>3, <4>1 DEF Above
        <4>2. CASE j # 1
          <5>1. j - 1 \in DOMAIN c.cleaners /\ d.cleaners[j] = c.cleaners[j - 1]
            BY <1>1, <4>2
          <5>2. j - 1 < k - 1
            BY <1>2, <3>2
          <5> QED
            BY <3>1, <5>1, <5>2 DEF Ordered
        <4> QED
          BY <4>1, <4>2
      <3> QED
        BY <3>1, <3>2 DEF Ordered
    <2> QED
      BY <2>1, <2>2
  <1>5. Pending(d) = Pending(c)
    <2>1. ASSUME NEW x \in Pending(d) PROVE x \in Pending(c)
      <3>1. PICK k \in DOMAIN d.cleaners : x \in Entries(d.cleaners[k])
        BY DEF Pending
      <3>2. k - 1 \in DOMAIN c.cleaners /\ x \in Entries(c.cleaners[k - 1])
        BY <1>1, <1>3, <3>1
      <3> QED
        BY <3>2 DEF Pending
    <2>2. ASSUME NEW x \in Pending(c) PROVE x \in Pending(d)
      <3>1. PICK k \in DOMAIN c.cleaners : x \in Entries(c.cleaners[k])
        BY DEF Pending
      <3>2. k + 1 \in DOMAIN d.cleaners /\ x \in Entries(d.cleaners[k + 1])
        BY <1>1, <3>1
      <3> QED
        BY <3>2 DEF Pending
    <2> QED
      BY <2>1, <2>2
  <1>6. Mods(d) = Mods(c)
    BY <1>1 DEF Mods
  <1> QED
    BY <1>4, <1>5, <1>6 DEF Accounted, d

\* The modules of the inner scope end, or wait with those of the scope around.
LEMMA PoppedOrdered ==
    ASSUME NEW c \in Context, Len(c.cleaners) > 1, NEW held \in BOOLEAN,
           NEW E, NEW F, Ordered(c), Accounted(c, E),
           F = IF held THEN E ELSE E \cup Entries(c.cleaners[1])
    PROVE  /\ Ordered(PoppedIn(c, held)) /\ Accounted(PoppedIn(c, held), F)
           /\ Mods(PoppedIn(c, held)) = Mods(c)
  <1> DEFINE d == PoppedIn(c, held)
  <1>1. /\ d \in Context /\ d.deque_jd = c.deque_jd
        /\ 1 \in DOMAIN c.cleaners /\ 2 \in DOMAIN c.cleaners /\ 1 \in DOMAIN d.cleaners
        /\ d.cleaners[1] = IF held THEN c.cleaners[1] \o c.cleaners[2] ELSE c.cleaners[2]
        /\ \A k \in DOMAIN d.cleaners :
              k # 1 => /\ k \in Nat /\ k + 1 > 2 /\ k + 1 \in DOMAIN c.cleaners
                       /\ d.cleaners[k] = c.cleaners[k + 1]
        /\ \A k \in DOMAIN c.cleaners :
              k # 1 /\ k # 2 => k - 1 \in DOMAIN d.cleaners /\ d.cleaners[k - 1] = c.cleaners[k]
    BY PoppedParts
  <1> HIDE DEF d
  <1>2. /\ c.cleaners[1] \in Seq(Definition) /\ c.cleaners[2] \in Seq(Definition)
        /\ DOMAIN d.cleaners = 1 .. Len(d.cleaners) /\ Len(d.cleaners) \in Nat
    BY <1>1, ContextParts
  <1>3. /\ Descending(c.cleaners[1]) /\ Descending(c.cleaners[2])
        /\ Above(Entries(c.cleaners[1]), Entries(c.cleaners[2]))
    BY <1>1 DEF Ordered
  <1>4. /\ Descending(d.cleaners[1])
        /\ Entries(d.cleaners[1]) = IF held THEN Entries(c.cleaners[1]) \cup Entries(c.cleaners[2])
                                    ELSE Entries(c.cleaners[2])
    <2> DEFINE s == c.cleaners[1]
    <2> DEFINE t == c.cleaners[2]
    <2>1. /\ s \in Seq(Definition) /\ t \in Seq(Definition)
          /\ Descending(s) /\ Descending(t) /\ Above(Entries(s), Entries(t))
      BY <1>2, <1>3
    <2>2. d.cleaners[1] = IF held THEN s \o t ELSE t
      BY <1>1
    <2> HIDE DEF s, t
    <2>3. Descending(s \o t) /\ Entries(s \o t) = Entries(s) \cup Entries(t)
      BY <2>1, OrderJoined, EntriesJoined
    <2>4. /\ Descending(d.cleaners[1])
          /\ Entries(d.cleaners[1]) = IF held THEN Entries(s) \cup Entries(t) ELSE Entries(t)
      BY <2>1, <2>2, <2>3
    <2> QED
      BY <2>4 DEF s, t
  <1>5. \A k \in DOMAIN c.cleaners :
           k > 2 => /\ Above(Entries(c.cleaners[1]), Entries(c.cleaners[k]))
                    /\ Above(Entries(c.cleaners[2]), Entries(c.cleaners[k]))
    <2> SUFFICES ASSUME NEW k \in DOMAIN c.cleaners, k > 2
                 PROVE  /\ Above(Entries(c.cleaners[1]), Entries(c.cleaners[k]))
                        /\ Above(Entries(c.cleaners[2]), Entries(c.cleaners[k]))
      OBVIOUS
    <2>1. k \in Nat
      BY ContextParts
    <2>2. 1 < k /\ 2 < k
      BY <2>1
    <2> QED
      BY <1>1, <2>2 DEF Ordered
  <1>6. Ordered(d)
    <2> SUFFICES ASSUME NEW k \in DOMAIN d.cleaners
                 PROVE  /\ Descending(d.cleaners[k])
                        /\ \A j \in DOMAIN d.cleaners :
                              j < k => Above(Entries(d.cleaners[j]), Entries(d.cleaners[k]))
      BY DEF Ordered
    <2>1. CASE k = 1
      <3>1. \A j \in DOMAIN d.cleaners : ~(j < k)
        BY <1>2, <2>1
      <3> QED
        BY <1>4, <2>1, <3>1
    <2>2. CASE k # 1
      <3>1. k + 1 > 2 /\ k + 1 \in DOMAIN c.cleaners /\ d.cleaners[k] = c.cleaners[k + 1]
        BY <1>1, <2>2
      <3>2. ASSUME NEW j \in DOMAIN d.cleaners, j < k
            PROVE  Above(Entries(d.cleaners[j]), Entries(d.cleaners[k]))
        <4>1. CASE j = 1
          <5>1. /\ Above(Entries(c.cleaners[1]), Entries(d.cleaners[k]))
                /\ Above(Entries(c.cleaners[2]), Entries(d.cleaners[k]))
            BY <1>5, <3>1
          <5> QED
            BY <1>4, <4>1, <5>1 DEF Above
        <4>2. CASE j # 1
          <5>1. j + 1 \in DOMAIN c.cleaners /\ d.cleaners[j] = c.cleaners[j + 1]
            BY <1>1, <4>2
          <5>2. j + 1 < k + 1
            BY <1>2, <3>2
          <5> QED
            BY <3>1, <5>1, <5>2 DEF Ordered
        <4> QED
          BY <4>1, <4>2
      <3> QED
        BY <3>1, <3>2 DEF Ordered
    <2> QED
      BY <2>1, <2>2
  <1>7. Pending(d) = IF held THEN Pending(c) ELSE Pending(c) \ Entries(c.cleaners[1])
    <2>1. ASSUME NEW x \in Pending(d)
          PROVE  x \in Pending(c) /\ (~held => x \notin Entries(c.cleaners[1]))
      <3>1. PICK k \in DOMAIN d.cleaners : x \in Entries(d.cleaners[k])
        BY DEF Pending
      <3>2. CASE k = 1
        <4>1. x \in Entries(c.cleaners[1]) \/ x \in Entries(c.cleaners[2])
          BY <1>4, <3>1, <3>2
        <4>2. ASSUME ~held PROVE x \notin Entries(c.cleaners[1])
          <5>1. x \in Entries(c.cleaners[2]) /\ x \in Definition
            BY <1>1, <1>4, <3>1, <3>2, <4>2, ContextParts
          <5>2. ~(x > x)
            BY <5>1 DEF Definition
          <5> QED
            BY <1>3, <5>1, <5>2 DEF Above
        <4> QED
          BY <1>1, <4>1, <4>2 DEF Pending
      <3>3. CASE k # 1
        <4>1. k + 1 > 2 /\ k + 1 \in DOMAIN c.cleaners /\ x \in Entries(c.cleaners[k + 1])
          BY <1>1, <3>1, <3>3
        <4>2. x \in Definition
          BY <4>1, ContextParts
        <4>3. ~(x > x)
          BY <4>2 DEF Definition
        <4>4. x \notin Entries(c.cleaners[1])
          BY <1>5, <4>1, <4>3 DEF Above
        <4> QED
          BY <4>1, <4>4 DEF Pending
      <3> QED
        BY <3>2, <3>3
    <2>2. ASSUME NEW x \in Pending(c), held \/ x \notin Entries(c.cleaners[1])
          PROVE  x \in Pending(d)
      <3>1. PICK k \in DOMAIN c.cleaners : x \in Entries(c.cleaners[k])
        BY DEF Pending
      <3>2. CASE k = 1 \/ k = 2
        <4>1. x \in Entries(d.cleaners[1])
          BY <1>4, <2>2, <3>1, <3>2
        <4> QED
          BY <1>1, <4>1 DEF Pending
      <3>3. CASE k # 1 /\ k # 2
        BY <1>1, <3>1, <3>3 DEF Pending
      <3> QED
        BY <3>2, <3>3
    <2> QED
      BY <2>1, <2>2
  <1>8. Mods(d) = Mods(c)
    BY <1>1 DEF Mods
  <1>9. Entries(c.cleaners[1]) \subseteq Pending(c)
    BY <1>1, PendingIn
  <1>10. Accounted(d, F)
    BY <1>7, <1>8, <1>9 DEF Accounted
  <1> QED
    BY <1>6, <1>8, <1>10 DEF d

(***************************************************************************)
(* Every step keeps the invariant.                                          *)
(***************************************************************************)

\* What can be found can be reached, and was made before.
LEMMA ReachParts ==
    ASSUME IInv, stack # <<>>
    PROVE  /\ made \in Nat
           /\ \A x \in Mods(Ctx) \cup GlobalReach : x <= made \/ x = TheExecutable
           /\ \A n \in Names :
                 /\ Outer(n) \in GlobalReach /\ Ctx.base_jd[n] \in GlobalReach
                 /\ Found(FindOrder(Ctx), n) \in Mods(Ctx) \cup GlobalReach
  <1>1. TypeOK /\ 1 \in DOMAIN stack /\ Ctx = stack[1] /\ Ctx \in Context /\ made \in Nat
    BY CtxParts DEF IInv, TypeOK
  <1>2. Mods(Ctx) \subseteq 1 .. made /\ Exported \subseteq 1 .. made /\ Values \subseteq 1 .. made
    BY <1>1 DEF IInv, OneOwner, Values
  <1>3. \A x \in Mods(Ctx) \cup GlobalReach : x <= made \/ x = TheExecutable
    <2>1. \A x \in {None} \cup 1 .. made : x <= made
      BY <1>1 DEF None
    <2>2. Mods(Ctx) \cup GlobalReach \subseteq {TheExecutable} \cup ({None} \cup 1 .. made)
      BY <1>2 DEF GlobalReach
    <2> QED
      BY <2>1, <2>2
  <1>4. ASSUME NEW n \in Names
        PROVE  /\ Outer(n) \in GlobalReach /\ Ctx.base_jd[n] \in GlobalReach
               /\ Found(FindOrder(Ctx), n) \in Mods(Ctx) \cup GlobalReach
    <2>1. global.base_jd[n] \in GlobalReach /\ Ctx.base_jd[n] \in GlobalReach
      BY <1>1 DEF IInv, Tabled, Given, GlobalReach
    <2>2. code \in [Definition -> Module]
      BY <1>1 DEF TypeOK
    <2>3. Found(Tables(global), n) \in {None, global.base_jd[n]} \cup Exported
      BY <1>1, <2>2, GlobalParts, FoundTable DEF HasTables
    <2>4. Found(Tables(Ctx), n) \in {None, Ctx.base_jd[n]} \cup Mods(Ctx)
      BY <1>1, <2>2, ContextParts, FoundTable DEF HasTables
    <2>5. Outer(n) \in GlobalReach
      BY <2>1, <2>3 DEF Outer, GlobalReach
    <2>6. NoSymbols \in Table
      BY NoSymbolsType
    <2>7. Found(FindOrder(Ctx), n)
             = IF Found(Tables(Ctx), n) # None THEN Found(Tables(Ctx), n) ELSE Outer(n)
      BY <1>1, <2>6, LocalLink
    <2> QED
      BY <2>1, <2>4, <2>5, <2>7
  <1> QED
    BY <1>1, <1>3, <1>4

LEMMA SameReplaced ==
    ASSUME TypeOK, stack # <<>>
    PROVE  /\ stack' = stack => Replaced(Ctx)
           /\ \A c \in Context : Become(c) => Replaced(c)
  BY CtxParts, BecomeParts DEF Replaced

LEMMA HeadFacts ==
    ASSUME IInv, stack # <<>>
    PROVE  /\ TypeOK /\ EndsInTime /\ OneOwner
           /\ Ctx \in Context /\ Ctx.cleaners # <<>> /\ 1 \in DOMAIN Ctx.cleaners
           /\ Ordered(Ctx) /\ Accounted(Ctx, Entries(ended)) /\ Pending(Ctx) \subseteq Mods(Ctx)
           /\ Mods(Ctx) \subseteq 1 .. made /\ Entries(ended) \subseteq 1 .. made
           /\ Exported \cap Entries(ended) = {} /\ Exported \cap Mods(Ctx) = {}
           /\ Exported \subseteq 1 .. made /\ made \in Nat
           /\ global.cleaners = global.deque_jd /\ Descending(global.deque_jd)
           /\ Given(Ctx.base_jd, Values) /\ Given(Ctx.unit_symbols, Values)
           /\ Given(global.base_jd, {TheExecutable} \cup Values) /\ Given(global.unit_symbols, Values)
           /\ \A n \in Names : Ctx.bound[n] \in Mods(Ctx) \cup GlobalReach
  <1>1. TypeOK /\ 1 \in DOMAIN stack /\ Ctx = stack[1] /\ made \in Nat
        /\ Ctx \in Context /\ Ctx.cleaners # <<>> /\ 1 \in DOMAIN Ctx.cleaners
    BY CtxParts DEF IInv, TypeOK
  <1>2. EndsInTime /\ Exported \cap Entries(ended) = {}
    BY DEF IInv, EndsInTime, Exported
  <1>3. /\ OneOwner /\ Mods(Ctx) \subseteq 1 .. made /\ Exported \subseteq 1 .. made
        /\ Exported \cap Mods(Ctx) = {}
    BY <1>1 DEF IInv, OneOwner
  <1>4. /\ Ordered(Ctx) /\ Accounted(Ctx, Entries(ended)) /\ Entries(ended) \subseteq 1 .. made
        /\ global.cleaners = global.deque_jd /\ Descending(global.deque_jd)
    BY <1>1 DEF IInv, InOrder
  <1>5. Pending(Ctx) \subseteq Mods(Ctx)
    BY <1>4 DEF Accounted
  <1>6. /\ Given(Ctx.base_jd, Values) /\ Given(Ctx.unit_symbols, Values)
        /\ Given(global.base_jd, {TheExecutable} \cup Values) /\ Given(global.unit_symbols, Values)
    BY <1>1 DEF IInv, Tabled
  <1>7. \A n \in Names : Ctx.bound[n] \in Mods(Ctx) \cup GlobalReach
    BY <1>1 DEF IInv, Bindings, CtxBound
  <1> QED
    BY <1>1, <1>2, <1>3, <1>4, <1>5, <1>6, <1>7

\* No module ends, and none that has ended is exported.
LEMMA SameEnds ==
    ASSUME EndsInTime, ended' = ended, removed' = removed, Exported' \cap Entries(ended) = {}
    PROVE  EndsInTime'
  BY DEF EndsInTime, Exported, Entries

LEMMA LoadLocalInv ==
    ASSUME IInv, NEW defs \in SUBSET Names, NEW refs \in SUBSET Names, LoadLocal(defs, refs)
    PROVE  IInv'
  <1> DEFINE m == made + 1
  <1> DEFINE d == LoadedIn(Ctx, made + 1)
  <1> DEFINE M == {made + 1}
  <1> DEFINE X == {}
  <1>1. /\ stack # <<>> /\ made < MaxMade /\ made' = m /\ m \in Definition
        /\ UNCHANGED <<global, ended, removed>>
        /\ d \in Context /\ Become(d)
        /\ \A n \in Names : code'[m].bound[n] \in {None, m, Found(FindOrder(Ctx), n)}
        /\ \A x \in Definition : x # m => code'[x] = code[x]
        /\ TypeOK'
    BY LoadLocalParts DEF IInv
  <1>2. /\ TypeOK /\ EndsInTime /\ OneOwner
        /\ Ctx \in Context /\ Ctx.cleaners # <<>> /\ 1 \in DOMAIN Ctx.cleaners
        /\ Ordered(Ctx) /\ Accounted(Ctx, Entries(ended)) /\ made \in Nat
        /\ Mods(Ctx) \subseteq 1 .. made /\ Entries(ended) \subseteq 1 .. made
        /\ Exported \cap Entries(ended) = {}
        /\ global.cleaners = global.deque_jd /\ Descending(global.deque_jd)
        /\ Given(Ctx.base_jd, Values) /\ Given(Ctx.unit_symbols, Values)
        /\ Given(global.base_jd, {TheExecutable} \cup Values) /\ Given(global.unit_symbols, Values)
        /\ \A n \in Names : Ctx.bound[n] \in Mods(Ctx) \cup GlobalReach
    BY <1>1, HeadFacts
  <1>3. Replaced(d)
    BY <1>1, <1>2, SameReplaced
  <1>4. (\A x \in 1 .. made : m > x) /\ m \notin 1 .. made /\ Made(M \cup X) /\ M \cap X = {}
    BY <1>1, <1>2 DEF Made
  <1>5. /\ Mods(d) = M \cup Mods(Ctx) /\ d.bound = Ctx.bound
        /\ d.base_jd = Ctx.base_jd /\ d.unit_symbols = Ctx.unit_symbols
    BY <1>1, <1>2, LoadedParts
  <1>6. Ordered(d) /\ Accounted(d, Entries(ended))
    BY <1>1, <1>2, <1>4, LoadedOrdered
  <1>7. Exported' = X \cup Exported /\ Entries(ended') = Entries(ended)
    BY <1>1 DEF Exported
  <1>8. EndsInTime'
    BY <1>1, <1>2, <1>7, SameEnds
  <1> HIDE DEF d, M, X
  <1>9. Gains(d, M, X) /\ GlobalReach \subseteq GlobalReach' /\ Values \subseteq Values'
    <2>1. Gains(d, M, X)
      BY <1>1, <1>3, <1>4, <1>5, <1>7 DEF Gains
    <2>2. Values' = Values \cup ((made + 1 .. made') \ (M \cup X)) /\ GlobalReach \subseteq GlobalReach'
      BY <1>1, <1>2, <2>1, OwnersStep
    <2> QED
      BY <2>1, <2>2
  <1>10. \A x \in M : BoundIn(code'[x].bound, x, Mods(d) \cup GlobalReach')
    <2> SUFFICES ASSUME NEW n \in Names
                 PROVE  /\ code'[m].bound[n] \in Mods(d) \cup GlobalReach'
                        /\ code'[m].bound[n] <= m \/ code'[m].bound[n] = TheExecutable
      BY DEF BoundIn, M
    <2>1. m \in Mods(d) /\ None \in GlobalReach
      BY <1>5 DEF M, GlobalReach
    <2>2. Found(FindOrder(Ctx), n) \in Mods(Ctx) \cup GlobalReach
      BY <1>1, ReachParts
    <2>3. Found(FindOrder(Ctx), n) <= made \/ Found(FindOrder(Ctx), n) = TheExecutable
      BY <1>1, <2>2, ReachParts
    <2>4. code'[m].bound[n] \in {None, m, Found(FindOrder(Ctx), n)}
      BY <1>1
    <2>5. code'[m].bound[n] \in Mods(d) \cup GlobalReach'
      BY <1>5, <1>9, <2>1, <2>2, <2>4
    <2>6. CASE code'[m].bound[n] \in {None, m}
      BY <1>2, <2>5, <2>6 DEF None
    <2>7. CASE code'[m].bound[n] = Found(FindOrder(Ctx), n)
      <3>1. Found(FindOrder(Ctx), n) \in Value
        BY <1>2, FoundType, LocalLink, NoSymbolsType
      <3>2. Found(FindOrder(Ctx), n) <= made => Found(FindOrder(Ctx), n) <= m
        BY <1>2, <3>1, BoundsAssumption DEF Value, Definition, None, TheExecutable
      <3> QED
        BY <2>3, <2>5, <2>7, <3>2
    <2> QED
      BY <2>4, <2>6, <2>7
  <1>11. /\ Given(d.base_jd, Values') /\ Given(d.unit_symbols, Values')
         /\ Given(global'.base_jd, {TheExecutable} \cup Values') /\ Given(global'.unit_symbols, Values')
    BY <1>1, <1>2, <1>5, <1>9 DEF Given
  <1>12. \A x \in Definition : x \notin M \cup X => code'[x] = code[x]
    BY <1>1 DEF M
  <1>13. \A n \in Names : d.bound[n] \in Mods(d) \cup GlobalReach'
    BY <1>2, <1>5, <1>9
  <1>14. \A x \in X : BoundIn(code'[x].bound, x, GlobalReach')
    BY DEF X
  <1>15. /\ Entries(ended) \subseteq Entries(ended')
         /\ Entries(ended') \subseteq Entries(ended) \cup Pending(Ctx)
         /\ Accounted(d, Entries(ended'))
         /\ global'.cleaners = global'.deque_jd /\ Descending(global'.deque_jd)
    BY <1>1, <1>2, <1>6, <1>7
  <1> QED
    BY <1>1, <1>6, <1>8, <1>9, <1>10, <1>11, <1>12, <1>13, <1>14, <1>15, HeadStep

LEMMA LoadExportedInv ==
    ASSUME IInv, NEW defs \in SUBSET Names, NEW refs \in SUBSET Names, LoadExported(defs, refs)
    PROVE  IInv'
  <1> DEFINE m == made + 1
  <1> DEFINE d == Ctx
  <1> DEFINE M == {}
  <1> DEFINE X == {made + 1}
  <1>1. /\ stack # <<>> /\ made < MaxMade /\ made' = m /\ m \in Definition
        /\ UNCHANGED <<stack, ended, removed>>
        /\ global'.deque_jd = <<m>> \o global.deque_jd
        /\ global'.cleaners = <<m>> \o global.cleaners
        /\ global'.base_jd = global.base_jd /\ global'.unit_symbols = global.unit_symbols
        /\ Exported' = {m} \cup Exported
        /\ \A n \in Names : code'[m].bound[n] \in {None, m, Ctx.base_jd[n], Outer(n)}
        /\ \A x \in Definition : x # m => code'[x] = code[x]
        /\ TypeOK'
    BY LoadExportedParts DEF IInv
  <1>2. /\ TypeOK /\ EndsInTime /\ OneOwner
        /\ Ctx \in Context /\ Ordered(Ctx) /\ Accounted(Ctx, Entries(ended)) /\ made \in Nat
        /\ Entries(ended) \subseteq 1 .. made /\ Exported \subseteq 1 .. made
        /\ Exported \cap Entries(ended) = {}
        /\ global.cleaners = global.deque_jd /\ Descending(global.deque_jd)
        /\ Given(Ctx.base_jd, Values) /\ Given(Ctx.unit_symbols, Values)
        /\ Given(global.base_jd, {TheExecutable} \cup Values) /\ Given(global.unit_symbols, Values)
        /\ \A n \in Names : Ctx.bound[n] \in Mods(Ctx) \cup GlobalReach
    BY <1>1, HeadFacts
  <1>3. Replaced(d)
    BY <1>1, <1>2, SameReplaced
  <1>4. (\A x \in 1 .. made : m > x) /\ m \notin 1 .. made /\ Made(M \cup X) /\ M \cap X = {}
    BY <1>1, <1>2 DEF Made
  <1>5. Mods(d) = M \cup Mods(Ctx) /\ Exported' = X \cup Exported
    BY <1>1
  <1>6. global'.cleaners = global'.deque_jd /\ Descending(global'.deque_jd)
    <2>1. global.deque_jd \in Seq(Definition) /\ \A x \in Entries(global.deque_jd) : m > x
      BY <1>2, <1>4, GlobalParts DEF Exported
    <2> QED
      BY <1>1, <1>2, <2>1, OneBefore
  <1>7. EndsInTime'
    BY <1>1, <1>2, <1>4, SameEnds
  <1> HIDE DEF d, M, X
  <1>8. Gains(d, M, X) /\ GlobalReach \subseteq GlobalReach' /\ Values \subseteq Values'
    <2>1. Gains(d, M, X)
      BY <1>1, <1>3, <1>4, <1>5, <1>5 DEF Gains
    <2>2. Values' = Values \cup ((made + 1 .. made') \ (M \cup X)) /\ GlobalReach \subseteq GlobalReach'
      BY <1>1, <1>2, <2>1, OwnersStep
    <2> QED
      BY <2>1, <2>2
  <1>9. \A x \in X : BoundIn(code'[x].bound, x, GlobalReach')
    <2> SUFFICES ASSUME NEW n \in Names
                 PROVE  /\ code'[m].bound[n] \in GlobalReach'
                        /\ code'[m].bound[n] <= m \/ code'[m].bound[n] = TheExecutable
      BY DEF BoundIn, X
    <2>1. m \in GlobalReach' /\ None \in GlobalReach
      BY <1>1 DEF GlobalReach
    <2>2. Ctx.base_jd[n] \in GlobalReach /\ Outer(n) \in GlobalReach
      BY <1>1, ReachParts
    <2>3. /\ Ctx.base_jd[n] <= made \/ Ctx.base_jd[n] = TheExecutable
          /\ Outer(n) <= made \/ Outer(n) = TheExecutable
      BY <1>1, <2>2, ReachParts
    <2>4. code'[m].bound[n] \in {None, m, Ctx.base_jd[n], Outer(n)}
      BY <1>1
    <2>5. code'[m].bound[n] \in GlobalReach'
      BY <1>8, <2>1, <2>2, <2>4
    <2>6. Ctx.base_jd[n] \in Value /\ Outer(n) \in Value
      <3>1. Tables(global) \in Seq(Table) /\ global.base_jd \in Table /\ Ctx.base_jd \in Table
        BY <1>2, GlobalParts, ContextParts, TablesType DEF HasTables, TypeOK
      <3>2. Found(Tables(global), n) \in Value
        BY <3>1, FoundType
      <3>3. \A t \in Table : t[n] \in Value
        BY DEF Table, Value
      <3> QED
        BY <3>1, <3>2, <3>3 DEF Outer
    <2>7. \A x \in Value : x <= made => x <= m
      BY <1>2, BoundsAssumption DEF Value, Definition, None, TheExecutable
    <2>8. None <= m /\ m <= m
      BY <1>2 DEF None
    <2> QED
      BY <2>3, <2>4, <2>5, <2>6, <2>7, <2>8
  <1>10. /\ Given(d.base_jd, Values') /\ Given(d.unit_symbols, Values')
         /\ Given(global'.base_jd, {TheExecutable} \cup Values') /\ Given(global'.unit_symbols, Values')
    BY <1>1, <1>2, <1>8 DEF Given, d
  <1>11. \A x \in Definition : x \notin M \cup X => code'[x] = code[x]
    BY <1>1 DEF X
  <1>12. \A n \in Names : d.bound[n] \in Mods(d) \cup GlobalReach'
    BY <1>2, <1>8 DEF d
  <1>13. \A x \in M : BoundIn(code'[x].bound, x, Mods(d) \cup GlobalReach')
    BY DEF M
  <1>14. /\ Entries(ended) \subseteq Entries(ended')
         /\ Entries(ended') \subseteq Entries(ended) \cup Pending(Ctx)
         /\ Ordered(d) /\ Accounted(d, Entries(ended'))
    BY <1>1, <1>2 DEF d
  <1> QED
    BY <1>1, <1>6, <1>7, <1>8, <1>9, <1>10, <1>11, <1>12, <1>13, <1>14, HeadStep

\* A step that loads nothing.
LEMMA QuietInv ==
    ASSUME IInv, TypeOK', EndsInTime', stack # <<>>, NEW d, Replaced(d),
           made' = made \/ made' = made + 1, Mods(d) = Mods(Ctx),
           global'.deque_jd = global.deque_jd, global'.cleaners = global.cleaners,
           UNCHANGED <<code, removed>>,
           Entries(ended) \subseteq Entries(ended'),
           Entries(ended') \subseteq Entries(ended) \cup Pending(Ctx),
           Ordered(d), Accounted(d, Entries(ended')),
           \A n \in Names : d.bound[n] \in Mods(Ctx) \cup GlobalReach,
           Given(d.base_jd, Values \cup made + 1 .. made'),
           Given(d.unit_symbols, Values \cup made + 1 .. made'),
           Given(global'.base_jd, {TheExecutable} \cup Values \cup made + 1 .. made'),
           Given(global'.unit_symbols, Values \cup made + 1 .. made')
    PROVE  IInv'
  <1> DEFINE M == {}
  <1> DEFINE X == {}
  <1>1. TypeOK /\ OneOwner /\ made \in Nat /\ global.cleaners = global.deque_jd /\ Descending(global.deque_jd)
    BY HeadFacts
  <1>2. Gains(d, M, X)
    BY <1>1 DEF Gains, Made, Exported
  <1>3. \A x : x \notin M /\ x \notin X
    OBVIOUS
  <1> HIDE DEF M, X
  <1>4. /\ Values' = Values \cup ((made + 1 .. made') \ (M \cup X))
        /\ GlobalReach \subseteq GlobalReach'
    BY <1>1, <1>2, OwnersStep
  <1>5. Values' = Values \cup made + 1 .. made'
    BY <1>3, <1>4
  <1>6. /\ Given(d.base_jd, Values') /\ Given(d.unit_symbols, Values')
        /\ Given(global'.base_jd, {TheExecutable} \cup Values') /\ Given(global'.unit_symbols, Values')
    BY <1>5 DEF Given
  <1>7. /\ \A x \in M : BoundIn(code'[x].bound, x, Mods(d) \cup GlobalReach')
        /\ \A x \in X : BoundIn(code'[x].bound, x, GlobalReach')
        /\ \A x \in Definition : x \notin M \cup X => code'[x] = code[x]
    BY <1>3
  <1>8. \A n \in Names : d.bound[n] \in Mods(d) \cup GlobalReach'
    BY <1>4
  <1>9. global'.cleaners = global'.deque_jd /\ Descending(global'.deque_jd)
    BY <1>1
  <1> QED
    BY <1>2, <1>6, <1>7, <1>8, <1>9, HeadStep

\* Among them those that leave the context its cleaners.
LEMMA SameListsInv ==
    ASSUME IInv, TypeOK', stack # <<>>, NEW d, Replaced(d),
           made' = made \/ made' = made + 1,
           d.deque_jd = Ctx.deque_jd, d.cleaners = Ctx.cleaners,
           global'.deque_jd = global.deque_jd, global'.cleaners = global.cleaners,
           UNCHANGED <<code, ended, removed>>,
           \A n \in Names : d.bound[n] \in Mods(Ctx) \cup GlobalReach,
           Given(d.base_jd, Values \cup made + 1 .. made'),
           Given(d.unit_symbols, Values \cup made + 1 .. made'),
           Given(global'.base_jd, {TheExecutable} \cup Values \cup made + 1 .. made'),
           Given(global'.unit_symbols, Values \cup made + 1 .. made')
    PROVE  IInv'
  <1>1. /\ EndsInTime /\ Exported \cap Entries(ended) = {}
        /\ Ordered(Ctx) /\ Accounted(Ctx, Entries(ended))
    BY HeadFacts
  <1>2. EndsInTime' /\ Entries(ended') = Entries(ended)
    BY <1>1, SameEnds DEF Exported
  <1>3. Ordered(d) /\ Accounted(d, Entries(ended')) /\ Mods(d) = Mods(Ctx)
    BY <1>1, <1>2 DEF Ordered, Accounted, Pending, Mods
  <1>4. UNCHANGED <<code, removed>> /\ Entries(ended) \subseteq Entries(ended')
        /\ Entries(ended') \subseteq Entries(ended) \cup Pending(Ctx)
    BY <1>2
  <1> QED
    BY <1>2, <1>3, <1>4, QuietInv

\* A symbol is given a new value.
LEMMA AddedGiven ==
    ASSUME NEW c, c \in Context \/ c \in Global, NEW n \in Names, NEW V, NEW m \in Definition,
           NEW W, Given(c.unit_symbols, V), V \subseteq W, m \in W
    PROVE  /\ Given(add_symbol_value(c, n, m).unit_symbols, W)
           /\ add_symbol_value(c, n, m).base_jd = c.base_jd
           /\ add_symbol_value(c, n, m).deque_jd = c.deque_jd
           /\ add_symbol_value(c, n, m).cleaners = c.cleaners
           /\ c \in Context => add_symbol_value(c, n, m).bound = c.bound
  <1> DEFINE d == add_symbol_value(c, n, m)
  <1>1. CASE c.base_jd[n] # None
    <2>1. d = c
      BY <1>1 DEF add_symbol_value
    <2> QED
      BY <2>1 DEF Given
  <1>2. CASE c.base_jd[n] = None
    <2>1. d = [c EXCEPT !.unit_symbols[n] = m]
      BY <1>2 DEF add_symbol_value
    <2> HIDE DEF d
    <2>2. /\ d.base_jd = c.base_jd /\ d.deque_jd = c.deque_jd /\ d.cleaners = c.cleaners
          /\ c \in Context => d.bound = c.bound
          /\ d.unit_symbols = [c.unit_symbols EXCEPT ![n] = m] /\ c.unit_symbols \in Table
      BY <2>1 DEF Context, Global
    <2>3. Given(d.unit_symbols, W)
      BY <2>2 DEF Given, Table
    <2> QED
      BY <2>2, <2>3 DEF d
  <1> QED
    BY <1>1, <1>2

LEMMA AddSymbolInv ==
    ASSUME IInv, NEW n \in Names, AddSymbol(n)
    PROVE  IInv'
  <1> DEFINE d == add_symbol_value(Ctx, n, made + 1)
  <1> DEFINE W == Values \cup made + 1 .. made'
  <1>1. /\ stack # <<>> /\ made' = made + 1 /\ made + 1 \in Definition
        /\ UNCHANGED <<global, code, ended, removed>>
        /\ d \in Context /\ Become(d) /\ TypeOK'
    BY AddSymbolParts DEF IInv
  <1>2. /\ TypeOK /\ Ctx \in Context /\ made \in Nat
        /\ Given(Ctx.base_jd, Values) /\ Given(Ctx.unit_symbols, Values)
        /\ Given(global.base_jd, {TheExecutable} \cup Values) /\ Given(global.unit_symbols, Values)
        /\ \A x \in Names : Ctx.bound[x] \in Mods(Ctx) \cup GlobalReach
    BY <1>1, HeadFacts
  <1>3. Values \subseteq W /\ made + 1 \in W
    BY <1>1, <1>2
  <1>4. /\ Given(d.unit_symbols, W) /\ d.base_jd = Ctx.base_jd /\ d.deque_jd = Ctx.deque_jd
        /\ d.cleaners = Ctx.cleaners /\ d.bound = Ctx.bound
    <2> DEFINE m == made + 1
    <2> DEFINE c == Ctx
    <2>1. c \in Context /\ m \in Definition /\ Given(c.unit_symbols, Values) /\ Values \subseteq W /\ m \in W
      BY <1>1, <1>2, <1>3
    <2> HIDE DEF m, c, W
    <2>2. /\ Given(add_symbol_value(c, n, m).unit_symbols, W)
          /\ add_symbol_value(c, n, m).base_jd = c.base_jd
          /\ add_symbol_value(c, n, m).deque_jd = c.deque_jd
          /\ add_symbol_value(c, n, m).cleaners = c.cleaners
          /\ add_symbol_value(c, n, m).bound = c.bound
      BY <2>1, AddedGiven
    <2> QED
      BY <2>2 DEF m, c
  <1>5. /\ Given(d.base_jd, W) /\ Given(global'.base_jd, {TheExecutable} \cup W)
        /\ Given(global'.unit_symbols, W)
    BY <1>1, <1>2, <1>3, <1>4 DEF Given
  <1>6. Replaced(d)
    BY <1>1, <1>2, SameReplaced
  <1> HIDE DEF d
  <1> QED
    BY <1>1, <1>2, <1>4, <1>5, <1>6, SameListsInv

LEMMA ExportSymbolInv ==
    ASSUME IInv, NEW n \in Names, ExportSymbol(n)
    PROVE  IInv'
  <1> DEFINE d == Ctx
  <1> DEFINE W == Values \cup made + 1 .. made'
  <1>1. /\ stack # <<>> /\ made' = made + 1 /\ made + 1 \in Definition
        /\ UNCHANGED <<stack, code, ended, removed>>
        /\ global' = add_symbol_value(global, n, made + 1) /\ TypeOK'
    BY ExportSymbolParts DEF IInv
  <1>2. /\ TypeOK /\ Ctx \in Context /\ made \in Nat /\ global \in Global
        /\ Given(Ctx.base_jd, Values) /\ Given(Ctx.unit_symbols, Values)
        /\ Given(global.base_jd, {TheExecutable} \cup Values) /\ Given(global.unit_symbols, Values)
        /\ \A x \in Names : Ctx.bound[x] \in Mods(Ctx) \cup GlobalReach
    BY <1>1, HeadFacts DEF TypeOK
  <1>3. Values \subseteq W /\ made + 1 \in W
    BY <1>1, <1>2
  <1>4. /\ Given(global'.unit_symbols, W) /\ global'.base_jd = global.base_jd
        /\ global'.deque_jd = global.deque_jd /\ global'.cleaners = global.cleaners
    <2> DEFINE m == made + 1
    <2>1. m \in Definition /\ Values \subseteq W /\ m \in W
      BY <1>1, <1>2, <1>3
    <2> HIDE DEF m, W
    <2>2. /\ Given(add_symbol_value(global, n, m).unit_symbols, W)
          /\ add_symbol_value(global, n, m).base_jd = global.base_jd
          /\ add_symbol_value(global, n, m).deque_jd = global.deque_jd
          /\ add_symbol_value(global, n, m).cleaners = global.cleaners
      BY <1>2, <2>1, AddedGiven
    <2> QED
      BY <1>1, <2>2 DEF m
  <1>5. /\ Given(d.base_jd, W) /\ Given(d.unit_symbols, W)
        /\ Given(global'.base_jd, {TheExecutable} \cup W)
    BY <1>2, <1>3, <1>4 DEF Given
  <1>6. Replaced(d)
    BY <1>1, <1>2, SameReplaced
  <1> QED
    BY <1>1, <1>2, <1>4, <1>5, <1>6, SameListsInv

LEMMA FlushedGiven ==
    ASSUME NEW c, NEW V, Given(c.base_jd, V), NEW U, Given(c.unit_symbols, U), U \subseteq V
    PROVE  Given(Flushed(c), V) /\ Given(NoSymbols, U)
  BY DEF Given, Flushed, NoSymbols

LEMMA FlushInv ==
    ASSUME IInv, FlushUnitSymbols \/ FinishUnit
    PROVE  IInv'
  <1> DEFINE W == Values \cup made + 1 .. made'
  <1>1. TypeOK' /\ \E c : FlushedStep(c)
    BY FlushParts DEF IInv
  <1>2. PICK d : FlushedStep(d)
    BY <1>1
  <1>3. /\ stack # <<>> /\ Become(d) /\ d \in Context
        /\ d.cleaners = Ctx.cleaners /\ d.deque_jd = Ctx.deque_jd
        /\ d.unit_symbols = NoSymbols /\ d.base_jd = Flushed(Ctx)
        /\ \A n \in Names : d.bound[n] \in {None, Ctx.bound[n]}
        /\ global' = flush_unit_symbols_helper(global)
        /\ UNCHANGED <<code, made, ended, removed>>
    BY <1>2 DEF FlushedStep
  <1>4. /\ TypeOK /\ Ctx \in Context /\ made \in Nat /\ global \in Global
        /\ Given(Ctx.base_jd, Values) /\ Given(Ctx.unit_symbols, Values)
        /\ Given(global.base_jd, {TheExecutable} \cup Values) /\ Given(global.unit_symbols, Values)
        /\ \A x \in Names : Ctx.bound[x] \in Mods(Ctx) \cup GlobalReach
    BY <1>3, HeadFacts DEF TypeOK
  <1>5. /\ global'.unit_symbols = NoSymbols /\ global'.base_jd = Flushed(global)
        /\ global'.deque_jd = global.deque_jd /\ global'.cleaners = global.cleaners
    <2>1. global' = [global EXCEPT !.unit_symbols = NoSymbols, !.base_jd = Flushed(global)]
      BY <1>3, FlushType
    <2> QED
      BY <1>4, <2>1 DEF Global
  <1>6. /\ Given(Flushed(Ctx), Values) /\ Given(NoSymbols, Values)
        /\ Given(Flushed(global), {TheExecutable} \cup Values)
    BY <1>4, FlushedGiven
  <1>7. /\ Given(d.base_jd, W) /\ Given(d.unit_symbols, W)
        /\ Given(global'.base_jd, {TheExecutable} \cup W) /\ Given(global'.unit_symbols, W)
    BY <1>3, <1>5, <1>6 DEF Given
  <1>8. \A n \in Names : d.bound[n] \in Mods(Ctx) \cup GlobalReach
    BY <1>3, <1>4 DEF GlobalReach
  <1>9. Replaced(d)
    BY <1>3, <1>4, SameReplaced
  <1> QED
    BY <1>1, <1>3, <1>5, <1>7, <1>8, <1>9, SameListsInv

LEMMA RunUnitInv ==
    ASSUME IInv, NEW refs \in SUBSET Names, RunUnit(refs)
    PROVE  IInv'
  <1> DEFINE W == Values \cup made + 1 .. made'
  <1>1. /\ stack # <<>> /\ UNCHANGED <<global, code, made, ended, removed>> /\ TypeOK'
        /\ \E c \in Context :
             /\ Become(c) /\ c.cleaners = Ctx.cleaners /\ c.deque_jd = Ctx.deque_jd
             /\ c.unit_symbols = Ctx.unit_symbols /\ c.base_jd = Ctx.base_jd
             /\ \A n \in Names : c.bound[n] \in {None, Found(FindOrder(Ctx), n)}
    BY RunUnitParts DEF IInv
  <1>2. PICK d \in Context :
             /\ Become(d) /\ d.cleaners = Ctx.cleaners /\ d.deque_jd = Ctx.deque_jd
             /\ d.unit_symbols = Ctx.unit_symbols /\ d.base_jd = Ctx.base_jd
             /\ \A n \in Names : d.bound[n] \in {None, Found(FindOrder(Ctx), n)}
    BY <1>1
  <1>3. /\ TypeOK /\ Given(Ctx.base_jd, Values) /\ Given(Ctx.unit_symbols, Values)
        /\ Given(global.base_jd, {TheExecutable} \cup Values) /\ Given(global.unit_symbols, Values)
    BY <1>1, HeadFacts
  <1>4. /\ Given(d.base_jd, W) /\ Given(d.unit_symbols, W)
        /\ Given(global'.base_jd, {TheExecutable} \cup W) /\ Given(global'.unit_symbols, W)
    BY <1>1, <1>2, <1>3 DEF Given
  <1>5. \A n \in Names : d.bound[n] \in Mods(Ctx) \cup GlobalReach
    BY <1>1, <1>2, ReachParts DEF GlobalReach
  <1>6. Replaced(d)
    BY <1>1, <1>2, <1>3, SameReplaced
  <1> QED
    BY <1>1, <1>2, <1>4, <1>5, <1>6, SameListsInv

LEMMA PushInv ==
    ASSUME IInv, push_variables
    PROVE  IInv'
  <1> DEFINE d == PushedIn(Ctx)
  <1> DEFINE W == Values \cup made + 1 .. made'
  <1>1. /\ stack # <<>> /\ UNCHANGED <<global, code, made, ended, removed>> /\ TypeOK'
        /\ d \in Context /\ Become(d)
    BY PushParts DEF IInv
  <1>2. /\ TypeOK /\ EndsInTime /\ Exported \cap Entries(ended) = {}
        /\ Ctx \in Context /\ Ctx.cleaners # <<>> /\ Ordered(Ctx) /\ Accounted(Ctx, Entries(ended))
        /\ Given(Ctx.base_jd, Values) /\ Given(Ctx.unit_symbols, Values)
        /\ Given(global.base_jd, {TheExecutable} \cup Values) /\ Given(global.unit_symbols, Values)
        /\ \A x \in Names : Ctx.bound[x] \in Mods(Ctx) \cup GlobalReach
    BY <1>1, HeadFacts
  <1>3. Ordered(d) /\ Accounted(d, Entries(ended)) /\ Mods(d) = Mods(Ctx)
    BY <1>2, PushedOrdered
  <1>4. d.base_jd = Ctx.base_jd /\ d.unit_symbols = Ctx.unit_symbols /\ d.bound = Ctx.bound
    BY <1>2, PushedParts
  <1>5. EndsInTime' /\ Entries(ended') = Entries(ended)
    BY <1>1, <1>2, SameEnds DEF Exported
  <1>6. Replaced(d)
    BY <1>1, <1>2, SameReplaced
  <1> HIDE DEF d
  <1>7. /\ Given(d.base_jd, W) /\ Given(d.unit_symbols, W)
        /\ Given(global'.base_jd, {TheExecutable} \cup W) /\ Given(global'.unit_symbols, W)
    BY <1>1, <1>2, <1>4 DEF Given
  <1>8. /\ Entries(ended) \subseteq Entries(ended')
        /\ Entries(ended') \subseteq Entries(ended) \cup Pending(Ctx)
        /\ Accounted(d, Entries(ended'))
        /\ \A x \in Names : d.bound[x] \in Mods(Ctx) \cup GlobalReach
        /\ global'.deque_jd = global.deque_jd /\ global'.cleaners = global.cleaners
        /\ UNCHANGED <<code, removed>> /\ made' = made
    BY <1>1, <1>2, <1>3, <1>4, <1>5
  <1> QED
    BY <1>1, <1>3, <1>5, <1>6, <1>7, <1>8, QuietInv

(***************************************************************************)
(* Modules that end.                                                        *)
(***************************************************************************)

Once(s) == \A i, j \in DOMAIN s : i # j => s[i] # s[j]

\* A list of others that is in order ends.
LEMMA EndsOnce ==
    ASSUME NEW s \in Seq(Definition), NEW t \in Seq(Definition), Once(s), Descending(t),
           Entries(s) \cap Entries(t) = {}
    PROVE  /\ s \o t \in Seq(Definition) /\ Once(s \o t)
           /\ Entries(s \o t) = Entries(s) \cup Entries(t)
  <1> DEFINE u == s \o t
  <1>1. /\ u \in Seq(Definition) /\ Len(s) \in Nat /\ Len(t) \in Nat
        /\ DOMAIN s = 1 .. Len(s) /\ DOMAIN t = 1 .. Len(t) /\ DOMAIN u = 1 .. Len(s) + Len(t)
        /\ \A i \in DOMAIN u :
              IF i <= Len(s) THEN i \in 1 .. Len(s) /\ u[i] = s[i]
              ELSE i - Len(s) \in 1 .. Len(t) /\ u[i] = t[i - Len(s)]
    BY Joined
  <1>2. Entries(u) = Entries(s) \cup Entries(t)
    BY EntriesJoined
  <1> HIDE DEF u
  <1>3. \A i, j \in DOMAIN t : i # j => t[i] # t[j]
    <2>1. \A i \in DOMAIN t : t[i] \in Nat /\ i \in Nat
      <3>1. \A i \in DOMAIN t : t[i] \in Definition
        BY <1>1, ElementOfSeq
      <3>2. Definition \subseteq Nat
        BY DEF Definition
      <3>3. DOMAIN t = 1 .. Len(t) /\ Len(t) \in Nat
        BY <1>1
      <3>4. \A i \in DOMAIN t : i \in Nat
        BY <3>3
      <3> QED
        BY <3>1, <3>2, <3>4
    <2>2. \A i, j \in DOMAIN t : i # j => i < j \/ j < i
      BY <2>1
    <2> QED
      BY <2>1, <2>2 DEF Descending
  <1>4. ASSUME NEW p \in DOMAIN u, NEW q \in DOMAIN u, p # q PROVE u[p] # u[q]
    <2>1. CASE p <= Len(s) /\ q <= Len(s)
      BY <1>1, <1>4, <2>1 DEF Once
    <2>2. CASE p <= Len(s) /\ ~(q <= Len(s))
      <3>1. u[p] \in Entries(s) /\ u[q] \in Entries(t)
        BY <1>1, <2>2 DEF Entries
      <3> QED
        BY <3>1
    <2>3. CASE ~(p <= Len(s)) /\ q <= Len(s)
      <3>1. u[p] \in Entries(t) /\ u[q] \in Entries(s)
        BY <1>1, <2>3 DEF Entries
      <3> QED
        BY <3>1
    <2>4. CASE ~(p <= Len(s)) /\ ~(q <= Len(s))
      <3>1. p - Len(s) # q - Len(s)
        BY <1>1, <1>4
      <3>2. /\ u[p] = t[p - Len(s)] /\ p - Len(s) \in DOMAIN t
            /\ u[q] = t[q - Len(s)] /\ q - Len(s) \in DOMAIN t
        BY <1>1, <2>4
      <3> QED
        BY <1>3, <3>1, <3>2
    <2> QED
      BY <2>1, <2>2, <2>3, <2>4
  <1> QED
    BY <1>1, <1>2, <1>4 DEF Once, u

LEMMA PopInv ==
    ASSUME IInv, NEW held \in BOOLEAN, pop_variables(held)
    PROVE  IInv'
  <1> DEFINE d == PoppedIn(Ctx, held)
  <1> DEFINE W == Values \cup made + 1 .. made'
  <1> DEFINE s == Ctx.cleaners[1]
  <1>1. /\ stack # <<>> /\ UNCHANGED <<global, code, made, removed>> /\ TypeOK'
        /\ Len(Ctx.cleaners) > 1 /\ s \in Seq(Definition)
        /\ ended' = IF held THEN ended ELSE ended \o s
        /\ d \in Context /\ Become(d)
    BY PopParts DEF IInv
  <1>2. /\ TypeOK /\ EndsInTime /\ Exported \cap Entries(ended) = {}
        /\ Ctx \in Context /\ 1 \in DOMAIN Ctx.cleaners
        /\ Ordered(Ctx) /\ Accounted(Ctx, Entries(ended))
        /\ Pending(Ctx) \subseteq Mods(Ctx) /\ Exported \cap Mods(Ctx) = {}
        /\ Given(Ctx.base_jd, Values) /\ Given(Ctx.unit_symbols, Values)
        /\ Given(global.base_jd, {TheExecutable} \cup Values) /\ Given(global.unit_symbols, Values)
        /\ \A x \in Names : Ctx.bound[x] \in Mods(Ctx) \cup GlobalReach
    BY <1>1, HeadFacts
  <1>3. Descending(s) /\ Entries(s) \subseteq Pending(Ctx) /\ Entries(s) \cap Entries(ended) = {}
    BY <1>2, PendingIn DEF Ordered, Accounted
  <1>4. d.base_jd = Ctx.base_jd /\ d.unit_symbols = Ctx.unit_symbols /\ d.bound = Ctx.bound
    BY <1>1, <1>2, PoppedParts
  <1>5. Replaced(d)
    BY <1>1, <1>2, SameReplaced
  <1>6. ended \in Seq(Definition) /\ Once(ended)
    BY <1>2 DEF EndsInTime, Once, TypeOK
  <1>7. Once(ended') /\ Entries(ended') = IF held THEN Entries(ended) ELSE Entries(ended) \cup Entries(s)
    <2> HIDE DEF s
    <2>1. Once(ended \o s) /\ Entries(ended \o s) = Entries(ended) \cup Entries(s)
      BY <1>1, <1>3, <1>6, EndsOnce
    <2> QED
      BY <1>1, <1>6, <2>1
  <1>8. Ordered(d) /\ Accounted(d, Entries(ended')) /\ Mods(d) = Mods(Ctx)
    BY <1>1, <1>2, <1>7, PoppedOrdered
  <1> HIDE DEF d, s
  <1>9. EndsInTime'
    <2>1. removed \subseteq Entries(ended) /\ Exported \cap Entries(ended') = {}
      BY <1>2, <1>3, <1>7 DEF EndsInTime
    <2> QED
      BY <1>1, <1>7, <2>1 DEF EndsInTime, Once, Exported
  <1>10. /\ Given(d.base_jd, W) /\ Given(d.unit_symbols, W)
         /\ Given(global'.base_jd, {TheExecutable} \cup W) /\ Given(global'.unit_symbols, W)
    BY <1>1, <1>2, <1>4 DEF Given
  <1>11. /\ Entries(ended) \subseteq Entries(ended')
         /\ Entries(ended') \subseteq Entries(ended) \cup Pending(Ctx)
         /\ \A x \in Names : d.bound[x] \in Mods(Ctx) \cup GlobalReach
         /\ global'.deque_jd = global.deque_jd /\ global'.cleaners = global.cleaners
         /\ UNCHANGED <<code, removed>> /\ made' = made
    BY <1>1, <1>2, <1>3, <1>4, <1>7
  <1> QED
    BY <1>1, <1>5, <1>8, <1>9, <1>10, <1>11, QuietInv

\* A new context has no modules, and what is bound to nothing is in any reach.
LEMMA NewContextFacts ==
    /\ Mods(NewContext) = {} /\ Ordered(NewContext) /\ \A E : Accounted(NewContext, E)
    /\ \A c, R : None \in R => CtxBound(NewContext, c, R)
    /\ \A V : Given(NewContext.base_jd, V) /\ Given(NewContext.unit_symbols, V)
  <1>1. /\ NewContext.deque_jd = <<BASE>> /\ NewContext.cleaners = <<<<>>>>
        /\ NewContext.base_jd = NoSymbols /\ NewContext.unit_symbols = NoSymbols
        /\ NewContext.bound = NoSymbols
    BY DEF NewContext
  <1>2. Mods(NewContext) = {}
    BY <1>1, EntriesSingle DEF Mods
  <1>3. DOMAIN NewContext.cleaners = {1} /\ NewContext.cleaners[1] = <<>>
    BY <1>1
  <1>4. Pending(NewContext) = {}
    BY <1>3, EntriesNone DEF Pending
  <1>5. Ordered(NewContext)
    BY <1>3 DEF Ordered, Descending
  <1> QED
    BY <1>1, <1>2, <1>4, <1>5 DEF Accounted, CtxBound, Given, NoSymbols

LEMMA ImportBeginInv ==
    ASSUME IInv, ImportBegin
    PROVE  IInv'
  <1> DEFINE E == Entries(ended)
  <1>1. /\ stack # <<>> /\ UNCHANGED <<global, code, made, ended, removed>> /\ stack' # <<>>
        /\ 1 \in DOMAIN stack' /\ stack'[1] = NewContext
        /\ \A i \in DOMAIN stack' : i # 1 => i - 1 \in DOMAIN stack /\ stack'[i] = stack[i - 1]
        /\ \A i \in DOMAIN stack : i + 1 \in DOMAIN stack' /\ stack'[i + 1] = stack[i]
        /\ \A i, j \in DOMAIN stack' : i # j => i - 1 # j - 1
        /\ TypeOK'
    BY ImportBeginParts DEF IInv
  <1>2. /\ Exported' = Exported /\ Entries(ended') = E /\ global' = global /\ code' = code
        /\ removed' = removed /\ made' = made
    BY <1>1 DEF Exported
  <1>3. EndsInTime'
    BY <1>1, HeadFacts, SameEnds DEF Exported
  <1>4. Owned' = Owned
    <2>1. Owned' = UNION {Mods(stack'[i]) : i \in DOMAIN stack'}
      BY DEF Owned
    <2>2. ASSUME NEW x \in Owned' PROVE x \in Owned
      <3>1. PICK i \in DOMAIN stack' : x \in Mods(stack'[i])
        BY <2>1
      <3>2. i # 1
        BY <1>1, <3>1, NewContextFacts
      <3> QED
        BY <1>1, <3>1, <3>2 DEF Owned
    <2>3. ASSUME NEW x \in Owned PROVE x \in Owned'
      <3>1. PICK i \in DOMAIN stack : x \in Mods(stack[i])
        BY DEF Owned
      <3> QED
        BY <1>1, <2>1, <3>1
    <2> QED
      BY <2>2, <2>3
  <1>5. Values' = Values /\ GlobalReach' = GlobalReach
    BY <1>2, <1>4 DEF Values, GlobalReach
  <1>6. OneOwner'
    <2>1. ASSUME NEW i \in DOMAIN stack'
          PROVE  /\ Mods(stack'[i]) \subseteq 1 .. made
                 /\ Mods(stack'[i]) \cap (Exported \cup removed) = {}
                 /\ \A j \in DOMAIN stack' : i # j => Mods(stack'[i]) \cap Mods(stack'[j]) = {}
      <3>1. CASE i = 1
        BY <1>1, <3>1, NewContextFacts
      <3>2. CASE i # 1
        BY <1>1, <3>2, NewContextFacts DEF IInv, OneOwner
      <3> QED
        BY <3>1, <3>2
    <2> QED
      BY <1>1, <1>2, <2>1 DEF IInv, OneOwner
  <1>7. InOrder'
    <2>1. ASSUME NEW i \in DOMAIN stack' PROVE Ordered(stack'[i]) /\ Accounted(stack'[i], E)
      BY <1>1, NewContextFacts DEF IInv, InOrder
    <2> QED
      BY <1>1, <1>2, <2>1 DEF IInv, InOrder
  <1>8. Bindings'
    <2>1. ASSUME NEW i \in DOMAIN stack' PROVE CtxBound(stack'[i], code, GlobalReach)
      <3>1. None \in GlobalReach
        BY DEF GlobalReach
      <3> QED
        BY <1>1, <3>1, NewContextFacts DEF IInv, Bindings
    <2> QED
      BY <1>2, <1>5, <2>1 DEF IInv, Bindings
  <1>9. Tabled'
    <2>1. ASSUME NEW i \in DOMAIN stack'
          PROVE  Given(stack'[i].base_jd, Values) /\ Given(stack'[i].unit_symbols, Values)
      BY <1>1, NewContextFacts DEF IInv, Tabled
    <2> QED
      BY <1>2, <1>5, <2>1 DEF IInv, Tabled
  <1> QED
    BY <1>1, <1>3, <1>6, <1>7, <1>8, <1>9 DEF IInv

LEMMA ImportEndInv ==
    ASSUME IInv, ImportEnd
    PROVE  IInv'
  <1> DEFINE E == Entries(ended)
  <1> DEFINE F == Entries(ended')
  <1> DEFINE s == Ctx.cleaners[1]
  <1>1. /\ stack # <<>> /\ stack' # <<>> /\ UNCHANGED <<global, code, made>>
        /\ stack' = Tail(stack) /\ ended' = ended \o s
        /\ removed' = removed \cup Mods(Ctx) /\ Len(Ctx.cleaners) = 1
        /\ s \in Seq(Definition) /\ TypeOK'
    BY ImportEndParts DEF IInv
  <1>2. /\ TypeOK /\ EndsInTime /\ Exported \cap E = {}
        /\ Ctx \in Context /\ 1 \in DOMAIN Ctx.cleaners
        /\ Ordered(Ctx) /\ Accounted(Ctx, E)
        /\ Mods(Ctx) \subseteq 1 .. made /\ E \subseteq 1 .. made
        /\ Exported \cap Mods(Ctx) = {} /\ Exported \subseteq 1 .. made
    BY <1>1, HeadFacts
  <1>3. /\ Descending(s) /\ Entries(s) = Pending(Ctx)
        /\ Entries(s) \subseteq Mods(Ctx) /\ Entries(s) \cap E = {} /\ Mods(Ctx) \subseteq E \cup Entries(s)
    <2>1. DOMAIN Ctx.cleaners = {1}
      BY <1>1, <1>2, ContextParts
    <2>2. Entries(s) = Pending(Ctx)
      BY <2>1 DEF Pending
    <2> QED
      BY <1>2, <2>2 DEF Ordered, Accounted
  <1>4. /\ 1 \in DOMAIN stack /\ Ctx = stack[1]
        /\ \A i \in DOMAIN stack' :
              i + 1 \in DOMAIN stack /\ i + 1 # 1 /\ stack'[i] = stack[i + 1]
        /\ \A i \in DOMAIN stack : i # 1 => i - 1 \in DOMAIN stack' /\ stack'[i - 1] = stack[i]
        /\ \A i, j \in DOMAIN stack' : i # j => i + 1 # j + 1
    <2>1. /\ 1 \in DOMAIN stack /\ Ctx = stack[1]
          /\ \A i \in DOMAIN stack' :
                i + 1 \in DOMAIN stack /\ i + 1 # 1 /\ stack'[i] = stack[i + 1] /\ i \in Nat
          /\ \A i \in DOMAIN stack : i # 1 => i - 1 \in DOMAIN stack' /\ stack'[i - 1] = stack[i]
      BY <1>1, <1>2, CtxParts, TailParts
    <2>2. \A i, j \in Nat : i # j => i + 1 # j + 1
      OBVIOUS
    <2> QED
      BY <2>1, <2>2
  <1>5. Once(ended') /\ F = E \cup Entries(s)
    <2>1. ended \in Seq(Definition) /\ Once(ended)
      BY <1>2 DEF EndsInTime, Once, TypeOK
    <2> HIDE DEF s
    <2> QED
      BY <1>1, <1>3, <2>1, EndsOnce
  <1> HIDE DEF s
  <1>6. /\ Exported' = Exported /\ Entries(ended)' = F /\ global' = global /\ code' = code
        /\ made' = made
    BY <1>1 DEF Exported
  <1>7. EndsInTime'
    <2>1. removed' \subseteq F /\ Exported \cap F = {}
      BY <1>1, <1>2, <1>3, <1>5 DEF EndsInTime
    <2> QED
      BY <1>1, <1>5, <1>6, <2>1 DEF EndsInTime, Once, Exported
  <1>8. Owned = Mods(Ctx) \cup Owned'
    <2>1. Owned' = UNION {Mods(stack'[i]) : i \in DOMAIN stack'}
      BY DEF Owned
    <2>2. ASSUME NEW x \in Owned PROVE x \in Mods(Ctx) \cup Owned'
      <3>1. PICK i \in DOMAIN stack : x \in Mods(stack[i])
        BY DEF Owned
      <3>2. CASE i = 1
        BY <1>4, <3>1, <3>2
      <3>3. CASE i # 1
        BY <1>4, <2>1, <3>1, <3>3
      <3> QED
        BY <3>2, <3>3
    <2>3. ASSUME NEW x \in Owned' PROVE x \in Owned
      <3>1. PICK i \in DOMAIN stack' : x \in Mods(stack'[i])
        BY <2>1
      <3> QED
        BY <1>4, <3>1 DEF Owned
    <2>4. Mods(Ctx) \subseteq Owned
      BY <1>4 DEF Owned
    <2> QED
      BY <2>2, <2>3, <2>4
  <1>9. Values' = Values /\ GlobalReach' = GlobalReach
    <2>1. Values' = (1 .. made) \ (removed' \cup Exported \cup Owned')
      BY <1>6 DEF Values
    <2>2. Values' = Values
      BY <1>1, <1>8, <2>1 DEF Values
    <2> QED
      BY <1>6, <2>2 DEF GlobalReach
  <1>10. OneOwner'
    <2>1. ASSUME NEW i \in DOMAIN stack'
          PROVE  /\ Mods(stack'[i]) \subseteq 1 .. made
                 /\ Mods(stack'[i]) \cap (Exported \cup removed') = {}
                 /\ \A j \in DOMAIN stack' : i # j => Mods(stack'[i]) \cap Mods(stack'[j]) = {}
      <3>1. /\ Mods(stack'[i]) \subseteq 1 .. made
            /\ Mods(stack'[i]) \cap (Exported \cup removed) = {}
            /\ Mods(stack'[i]) \cap Mods(Ctx) = {}
        BY <1>4 DEF IInv, OneOwner
      <3>2. \A j \in DOMAIN stack' : i # j => Mods(stack'[i]) \cap Mods(stack'[j]) = {}
        BY <1>4 DEF IInv, OneOwner
      <3> QED
        BY <1>1, <3>1, <3>2
    <2>2. removed' \subseteq 1 .. made /\ Exported \cap removed' = {}
      BY <1>1, <1>2 DEF IInv, OneOwner
    <2> QED
      BY <1>1, <1>2, <1>6, <2>1, <2>2 DEF OneOwner
  <1>11. InOrder'
    <2>1. ASSUME NEW i \in DOMAIN stack' PROVE Ordered(stack'[i]) /\ Accounted(stack'[i], F)
      <3>1. Ordered(stack'[i]) /\ Accounted(stack'[i], E)
        BY <1>4 DEF IInv, InOrder
      <3>2. Mods(stack'[i]) \cap Mods(Ctx) = {}
        BY <1>4 DEF IInv, OneOwner
      <3>3. E \subseteq F /\ (F \ E) \cap Mods(stack'[i]) = {}
        BY <1>3, <1>5, <3>2
      <3> HIDE DEF E, F
      <3> QED
        BY <3>1, <3>3, AccountedStep
    <2>2. F \subseteq 1 .. made
      BY <1>2, <1>3, <1>5
    <2> QED
      BY <1>1, <1>6, <2>1, <2>2 DEF IInv, InOrder
  <1>12. Bindings'
    <2>1. ASSUME NEW i \in DOMAIN stack' PROVE CtxBound(stack'[i], code, GlobalReach)
      BY <1>4 DEF IInv, Bindings
    <2> QED
      BY <1>6, <1>9, <2>1 DEF IInv, Bindings
  <1>13. Tabled'
    <2>1. ASSUME NEW i \in DOMAIN stack'
          PROVE  Given(stack'[i].base_jd, Values) /\ Given(stack'[i].unit_symbols, Values)
      BY <1>4 DEF IInv, Tabled
    <2> QED
      BY <1>6, <1>9, <2>1 DEF IInv, Tabled
  <1> QED
    BY <1>1, <1>7, <1>10, <1>11, <1>12, <1>13 DEF IInv

LEMMA TerminateInv ==
    ASSUME IInv, Terminate
    PROVE  IInv'
  <1> DEFINE E == Entries(ended)
  <1> DEFINE F == Entries(ended')
  <1> DEFINE s == Ctx.cleaners[1]
  <1> DEFINE t == global.cleaners
  <1>1. /\ stack # <<>> /\ stack' = <<>> /\ UNCHANGED <<code, made>>
        /\ DOMAIN stack = {1} /\ DOMAIN Ctx.cleaners = {1}
        /\ ended' = ended \o s \o t
        /\ removed' = removed \cup Mods(Ctx) \cup Exported
        /\ global'.deque_jd = global.deque_jd /\ global'.base_jd = global.base_jd
        /\ global'.unit_symbols = global.unit_symbols
        /\ s \in Seq(Definition) /\ TypeOK'
    BY TerminateParts DEF IInv
  <1>2. /\ TypeOK /\ EndsInTime /\ Exported \cap E = {}
        /\ 1 \in DOMAIN Ctx.cleaners /\ Ctx = stack[1]
        /\ Ordered(Ctx) /\ Accounted(Ctx, E)
        /\ Mods(Ctx) \subseteq 1 .. made /\ E \subseteq 1 .. made
        /\ Exported \cap Mods(Ctx) = {} /\ Exported \subseteq 1 .. made
        /\ global.cleaners = global.deque_jd /\ Descending(global.deque_jd)
    BY <1>1, HeadFacts, CtxParts
  <1>3. /\ Descending(s) /\ Entries(s) \subseteq Mods(Ctx) /\ Entries(s) \cap E = {}
        /\ Mods(Ctx) \subseteq E \cup Entries(s)
    <2>1. Entries(s) = Pending(Ctx)
      BY <1>1 DEF Pending
    <2> QED
      BY <1>2, <2>1 DEF Ordered, Accounted
  <1>4. t \in Seq(Definition) /\ Descending(t) /\ Entries(t) = Exported
    BY <1>2, GlobalParts DEF Exported
  <1>5. Once(ended') /\ F = E \cup Entries(s) \cup Exported
    <2>1. ended \in Seq(Definition) /\ Once(ended)
      BY <1>2 DEF EndsInTime, Once, TypeOK
    <2> HIDE DEF s, t
    <2> DEFINE u == ended \o s
    <2>2. u \in Seq(Definition) /\ Once(u) /\ Entries(u) = E \cup Entries(s)
      BY <1>1, <1>3, <2>1, EndsOnce
    <2>3. Entries(u) \cap Entries(t) = {}
      BY <1>2, <1>3, <1>4, <2>2
    <2>4. ended' = u \o t
      BY <1>1
    <2> HIDE DEF u
    <2> QED
      BY <1>4, <2>2, <2>3, <2>4, EndsOnce
  <1> HIDE DEF s, t
  <1>6. /\ Exported' = Exported /\ Entries(ended)' = F /\ code' = code /\ made' = made
        /\ DOMAIN stack' = {}
    BY <1>1 DEF Exported
  <1>7. EndsInTime'
    <2>1. removed' \subseteq F
      BY <1>1, <1>2, <1>3, <1>5 DEF EndsInTime
    <2> QED
      BY <1>1, <1>5, <2>1 DEF EndsInTime, Once
  <1>8. Values' = Values /\ GlobalReach' = GlobalReach
    <2>1. Owned = Mods(Ctx) /\ Owned' = {}
      BY <1>1, <1>2, <1>6 DEF Owned
    <2>2. Values' = (1 .. made) \ (removed' \cup Exported \cup Owned')
      BY <1>6 DEF Values
    <2>3. Values' = Values
      BY <1>1, <2>1, <2>2 DEF Values
    <2> QED
      BY <1>6, <2>3 DEF GlobalReach
  <1>9. OneOwner'
    <2>1. removed' \subseteq 1 .. made /\ Exported \subseteq removed'
      BY <1>1, <1>2 DEF IInv, OneOwner
    <2> QED
      BY <1>1, <1>2, <1>6, <2>1 DEF OneOwner
  <1>10. InOrder'
    <2>1. F \subseteq 1 .. made
      BY <1>2, <1>3, <1>5
    <2> QED
      BY <1>1, <1>6, <2>1 DEF InOrder
  <1>11. Bindings'
    BY <1>6, <1>8 DEF IInv, Bindings
  <1>12. Tabled'
    BY <1>1, <1>6, <1>8 DEF IInv, Tabled
  <1> QED
    BY <1>1, <1>7, <1>9, <1>10, <1>11, <1>12 DEF IInv

LEMMA InitInv == Init => IInv
  <1> SUFFICES ASSUME Init PROVE IInv
    OBVIOUS
  <1>1. TypeOK
    BY InitType
  <1>2. /\ stack = <<NewContext>> /\ DOMAIN stack = {1} /\ stack[1] = NewContext /\ stack # <<>>
        /\ global.deque_jd = <<>> /\ global.cleaners = <<>> /\ global.unit_symbols = NoSymbols
        /\ global.base_jd = [n \in Names |-> IF n \in External THEN TheExecutable ELSE None]
        /\ code = [d \in Definition |-> NoModule] /\ made = 0 /\ ended = <<>> /\ removed = {}
    <2> DEFINE c == NewContext
    <2>1. stack = <<c>>
      BY DEF Init
    <2> HIDE DEF c
    <2>2. DOMAIN stack = {1} /\ stack[1] = c /\ stack # <<>>
      BY <2>1
    <2> QED
      BY <2>2 DEF Init, c
  <1>3. Exported = {} /\ Entries(ended) = {} /\ Mods(stack[1]) = {}
    BY <1>2, EntriesNone, NewContextFacts DEF Exported
  <1>4. EndsInTime
    BY <1>2, <1>3 DEF EndsInTime, Exported
  <1>5. OneOwner
    BY <1>2, <1>3 DEF OneOwner
  <1>6. InOrder
    <2>1. Ordered(stack[1]) /\ Accounted(stack[1], Entries(ended))
      BY <1>2, NewContextFacts
    <2> QED
      BY <1>2, <1>3, <2>1 DEF InOrder, Descending
  <1>7. Bindings
    <2>1. None \in GlobalReach
      BY DEF GlobalReach
    <2> QED
      BY <1>2, <1>3, <2>1, NewContextFacts DEF Bindings
  <1>8. Tabled
    <2>1. Given(stack[1].base_jd, Values) /\ Given(stack[1].unit_symbols, Values)
      BY <1>2, NewContextFacts
    <2>2. Given(global.base_jd, {TheExecutable} \cup Values) /\ Given(global.unit_symbols, Values)
      BY <1>2 DEF Given, NoSymbols
    <2> QED
      BY <1>2, <2>1, <2>2 DEF Tabled
  <1> QED
    BY <1>1, <1>4, <1>5, <1>6, <1>7, <1>8 DEF IInv

LEMMA NextInv == IInv /\ [Next]_vars => IInv'
  <1> SUFFICES ASSUME IInv, [Next]_vars PROVE IInv'
    OBVIOUS
  <1>1. CASE Next
    BY <1>1, Steps, RunUnitInv, LoadLocalInv, LoadExportedInv, AddSymbolInv, ExportSymbolInv,
       FlushInv, PushInv, PopInv, ImportBeginInv, ImportEndInv, TerminateInv
  <1>2. CASE UNCHANGED vars
    <2>1. /\ Exported' = Exported /\ Owned' = Owned /\ Values' = Values /\ GlobalReach' = GlobalReach
      BY <1>2 DEF vars, Exported, Owned, Values, GlobalReach
    <2>2. TypeOK' /\ EndsInTime' /\ OneOwner'
      BY <1>2, <2>1 DEF vars, IInv, TypeOK, EndsInTime, OneOwner
    <2>3. InOrder'
      BY <1>2 DEF vars, IInv, InOrder
    <2>4. Bindings'
      BY <1>2, <2>1 DEF vars, IInv, Bindings
    <2>5. Tabled'
      BY <1>2, <2>1 DEF vars, IInv, Tabled
    <2> QED
      BY <2>2, <2>3, <2>4, <2>5 DEF IInv
  <1> QED
    BY <1>1, <1>2

LEMMA Invariant == Spec => []IInv
  <1>1. Init => IInv
    BY InitInv
  <1>2. IInv /\ [Next]_vars => IInv'
    BY NextInv
  <1> QED
    BY <1>1, <1>2, PTL DEF Spec
(***************************************************************************)
(* Code that calls code.                                                    *)
(***************************************************************************)

\* What a module that is there was bound to.
LEMMA BoundFacts ==
    ASSUME IInv, stack # <<>>, NEW d \in Loaded, NEW n \in Names
    PROVE  /\ d \in Definition /\ d \in Values \cup Exported \cup Owned
           /\ code[d].bound[n] \notin removed
           /\ \A x \in Definition : x > d => code[d].bound[n] # x
           /\ \A i \in DOMAIN stack : d \notin Mods(stack[i]) => code[d].bound[n] \notin Mods(stack[i])
  <1> DEFINE b == code[d].bound[n]
  <1>1. /\ TypeOK /\ OneOwner /\ Bindings /\ made \in Nat /\ made <= MaxMade /\ MaxMade \in Nat
    BY BoundsAssumption DEF IInv, TypeOK
  <1>2. d \in 1 .. made /\ d \notin removed
    BY DEF Loaded
  <1>3. d \in Definition /\ d \in Values \cup Exported \cup Owned
    BY <1>1, <1>2 DEF Definition, Values
  <1>4. removed \subseteq 1 .. made /\ Exported \cap removed = {} /\ Exported \subseteq 1 .. made
    BY <1>1 DEF OneOwner
  <1>5. /\ Values \cap removed = {} /\ Values \cap Exported = {}
        /\ \A i \in DOMAIN stack : Values \cap Mods(stack[i]) = {}
    BY DEF Values, Owned
  <1>6. \A i \in DOMAIN stack :
           /\ Mods(stack[i]) \subseteq 1 .. made /\ Mods(stack[i]) \cap (Exported \cup removed) = {}
           /\ \A j \in DOMAIN stack : i # j => Mods(stack[i]) \cap Mods(stack[j]) = {}
    BY <1>1 DEF OneOwner
  <1>7. \A x \in 1 .. made : x # None /\ x # TheExecutable
    BY <1>1 DEF None, TheExecutable
  <1>8. /\ GlobalReach \cap removed = {}
        /\ \A i \in DOMAIN stack : GlobalReach \cap Mods(stack[i]) = {}
    BY <1>4, <1>5, <1>6, <1>7 DEF GlobalReach
  <1>9. b \in Value
    <2>1. code[d] \in Module
      BY <1>1, <1>3 DEF TypeOK
    <2>2. code[d].bound \in Table
      BY <2>1 DEF Module
    <2> QED
      BY <2>2 DEF Table, Value
  <1>10. CASE d \in Values
    <2>1. b = None
      BY <1>1, <1>3, <1>10 DEF Bindings, NoModule, NoSymbols
    <2>2. \A x \in Definition : None # x
      BY DEF Definition, None
    <2>3. b \in GlobalReach
      BY <2>1 DEF GlobalReach
    <2> QED
      BY <1>3, <1>8, <2>1, <2>2, <2>3
  <1>11. ASSUME BoundIn(code[d].bound, d, GlobalReach) \/ \E i \in DOMAIN stack : BoundIn(code[d].bound, d, Mods(stack[i]) \cup GlobalReach)
         PROVE  \A x \in Definition : x > d => b # x
    <2>1. b <= d \/ b = TheExecutable
      BY <1>11 DEF BoundIn
    <2>2. ASSUME NEW x \in Definition, x > d PROVE b # x
      <3>1. CASE b <= d
        BY <1>1, <1>3, <1>9, <2>2, <3>1 DEF Definition
      <3>2. CASE b = TheExecutable
        BY <1>1, <3>2 DEF Definition, TheExecutable
      <3> QED
        BY <2>1, <3>1, <3>2
    <2> QED
      BY <2>2
  <1>12. CASE d \in Exported
    <2>1. BoundIn(code[d].bound, d, GlobalReach)
      BY <1>1, <1>12 DEF Bindings
    <2>2. b \in GlobalReach
      BY <2>1 DEF BoundIn
    <2> QED
      BY <1>3, <1>8, <1>11, <2>1, <2>2
  <1>13. CASE d \in Owned
    <2>1. PICK i \in DOMAIN stack : d \in Mods(stack[i])
      BY <1>13 DEF Owned
    <2>2. BoundIn(code[d].bound, d, Mods(stack[i]) \cup GlobalReach)
      BY <1>1, <2>1 DEF Bindings, CtxBound
    <2>3. b \in Mods(stack[i]) \cup GlobalReach
      BY <2>2 DEF BoundIn
    <2>4. b \notin removed
      BY <1>6, <1>8, <2>3
    <2>5. ASSUME NEW j \in DOMAIN stack, d \notin Mods(stack[j]) PROVE b \notin Mods(stack[j])
      BY <1>6, <1>8, <2>1, <2>3, <2>5
    <2> QED
      BY <1>3, <1>11, <2>2, <2>4, <2>5
  <1> QED
    BY <1>3, <1>10, <1>12, <1>13

LEMMA NoneDangles == IInv => NoDanglingCode
  <1> SUFFICES ASSUME IInv PROVE NoDanglingCode
    OBVIOUS
  <1>1. /\ TypeOK /\ OneOwner /\ made \in Nat /\ made <= MaxMade /\ MaxMade \in Nat
    BY BoundsAssumption DEF IInv, TypeOK
  <1>2. removed \subseteq 1 .. made /\ None \notin removed /\ TheExecutable \notin removed
    BY <1>1 DEF OneOwner, None, TheExecutable
  <1>3. ASSUME NEW d \in Loaded, NEW n \in Names PROVE code[d].bound[n] \notin removed
    <2>1. CASE stack # <<>>
      BY <2>1, BoundFacts
    <2>2. CASE stack = <<>>
      <3>1. Owned = {} /\ Exported \subseteq removed
        BY <1>1, <2>2 DEF Owned, OneOwner
      <3>2. d \in 1 .. made /\ d \notin removed
        BY DEF Loaded
      <3>3. d \in Values /\ d \in Definition
        BY <1>1, <3>1, <3>2 DEF Values, Definition
      <3>4. code[d].bound[n] = None
        BY <3>3 DEF IInv, Bindings, NoModule, NoSymbols
      <3> QED
        BY <1>2, <3>4
    <2> QED
      BY <2>1, <2>2
  <1>4. ASSUME NEW i \in DOMAIN stack, NEW n \in Names PROVE stack[i].bound[n] \notin removed
    <2>1. stack # <<>>
      OBVIOUS
    <2>2. stack[i].bound[n] \in Mods(stack[i]) \cup GlobalReach
      BY DEF IInv, Bindings, CtxBound
    <2>3. Mods(stack[i]) \cap removed = {} /\ Exported \cap removed = {} /\ Values \cap removed = {}
      BY <1>1, <2>1 DEF OneOwner, Values
    <2> QED
      BY <1>2, <2>2, <2>3 DEF GlobalReach
  <1> QED
    BY <1>3, <1>4 DEF NoDanglingCode

\* No code is left with calls into code that is gone, whichever imports have
\* ended: the modules of a context are bound to modules of that context, to
\* what is exported and to values, and exported code to no module of a context.
THEOREM NoneIsLeftDangling == Spec => []NoDanglingCode
  <1>1. IInv => NoDanglingCode
    BY NoneDangles
  <1> QED
    BY <1>1, Invariant, PTL

\* Each module ends once, an exported one with the process, and any before its
\* dylib is removed: the term_func of no module is lost or run twice, whatever
\* scopes are held, closed and left to the end of their import.
THEOREM ModulesEndOnce == Spec => []EndsInTime
  <1>1. IInv => EndsInTime
    BY DEF IInv
  <1> QED
    BY <1>1, Invariant, PTL

(***************************************************************************)
(* Users end first.                                                         *)
(***************************************************************************)

\* The modules `now' end, in that order.
UsersFirst(now, waiting) ==
    \A i \in DOMAIN now, n \in Names :
        /\ \A j \in DOMAIN now : i < j => code[now[j]].bound[n] # now[i]
        /\ \A d \in waiting : code[d].bound[n] # now[i]

NowEnded == SubSeq(ended', Len(ended) + 1, Len(ended'))
Waits == Loaded \ Entries(ended')

LEMMA EndedNow ==
    ASSUME NEW s \in Seq(Definition), NEW t \in Seq(Definition)
    PROVE  SubSeq(s \o t, Len(s) + 1, Len(s \o t)) = t
  <1> DEFINE u == s \o t
  <1>1. /\ u \in Seq(Definition) /\ Len(s) \in Nat /\ Len(t) \in Nat
        /\ Len(u) = Len(s) + Len(t) /\ DOMAIN t = 1 .. Len(t)
        /\ \A i \in 1 .. Len(t) : i + Len(s) \in DOMAIN u /\ u[i + Len(s)] = t[i]
    BY Joined
  <1> HIDE DEF u
  <1> DEFINE r == SubSeq(u, Len(s) + 1, Len(u))
  <1>2. DOMAIN u = 1 .. Len(u)
    BY <1>1, LenProperties
  <1>3. /\ r \in Seq(Definition)
        /\ Len(r) = IF Len(s) + 1 <= Len(u) THEN Len(u) - (Len(s) + 1) + 1 ELSE 0
        /\ \A i \in 1 .. Len(u) - (Len(s) + 1) + 1 : r[i] = u[Len(s) + 1 + i - 1]
    <2>1. Len(s) + 1 \in 1 .. Len(u) + 1 /\ Len(u) \in 0 .. Len(u)
      BY <1>1
    <2> QED
      BY <1>1, <2>1, SubSeqProperties
  <1> HIDE DEF r
  <1>4. Len(r) = Len(t) /\ Len(u) - (Len(s) + 1) + 1 = Len(t)
    BY <1>1, <1>3
  <1>5. ASSUME NEW i \in 1 .. Len(t) PROVE r[i] = t[i]
    <2>1. Len(s) + 1 + i - 1 = i + Len(s)
      BY <1>1
    <2>2. r[i] = u[Len(s) + 1 + i - 1]
      BY <1>3, <1>4
    <2> QED
      BY <1>1, <2>1, <2>2
  <1>6. r = t
    BY <1>3, <1>4, <1>5, SeqEqual
  <1> QED
    BY <1>6 DEF r, u

\* No module ends.
LEMMA NoneEnds ==
    ASSUME TypeOK, ended' = ended
    PROVE  UsersFirst(NowEnded, Waits)
  <1> DEFINE none == <<>>
  <1>1. ended \in Seq(Definition)
    BY DEF TypeOK
  <1>2. Len(ended) \in Nat /\ Len(ended) < Len(ended) + 1
    BY <1>1, LenProperties
  <1>3. NowEnded = none
    BY <1>2, SubSeqEmpty DEF NowEnded
  <1>4. DOMAIN none = {}
    OBVIOUS
  <1> HIDE DEF none
  <1> QED
    BY <1>3, <1>4 DEF UsersFirst

\* Modules of the innermost context end, and none of it stays that is newer.
LEMMA SomeEnd ==
    ASSUME IInv, stack # <<>>, NEW t \in Seq(Definition), ended' = ended \o t,
           Descending(t), Entries(t) \subseteq Mods(Ctx), Entries(t) \cap removed = {},
           \A d \in Mods(Ctx) : d \notin Entries(ended') => \A x \in Entries(t) : x > d
    PROVE  UsersFirst(NowEnded, Waits)
  <1>1. ended \in Seq(Definition) /\ made \in Nat
    BY DEF IInv, TypeOK
  <1>2. NowEnded = t
    BY <1>1, EndedNow DEF NowEnded
  <1>3. 1 \in DOMAIN stack /\ Ctx = stack[1] /\ Mods(Ctx) \subseteq 1 .. made
    BY CtxParts, HeadFacts DEF IInv
  <1>4. Entries(t) \subseteq Definition /\ \A i \in DOMAIN t : t[i] \in Entries(t)
    BY EntriesType DEF Entries
  <1>5. Entries(t) \subseteq Loaded
    BY <1>3 DEF Loaded
  <1>6. ASSUME NEW i \in DOMAIN t, NEW n \in Names, NEW j \in DOMAIN t, i < j
        PROVE  code[t[j]].bound[n] # t[i]
    <2>1. t[i] > t[j] /\ t[j] \in Loaded /\ t[i] \in Definition
      BY <1>4, <1>5, <1>6 DEF Descending
    <2> QED
      BY <2>1, BoundFacts
  <1>7. ASSUME NEW i \in DOMAIN t, NEW n \in Names, NEW d \in Waits
        PROVE  code[d].bound[n] # t[i]
    <2>1. d \in Loaded /\ d \notin Entries(ended')
      BY DEF Waits
    <2>2. CASE d \in Mods(Ctx)
      <3>1. t[i] > d /\ t[i] \in Definition
        BY <1>4, <2>1, <2>2
      <3> QED
        BY <2>1, <3>1, BoundFacts
    <2>3. CASE d \notin Mods(Ctx)
      <3>1. code[d].bound[n] \notin Mods(Ctx) /\ t[i] \in Mods(Ctx)
        BY <1>3, <1>4, <2>1, <2>3, BoundFacts
      <3> QED
        BY <3>1
    <2> QED
      BY <2>2, <2>3
  <1> QED
    BY <1>2, <1>6, <1>7 DEF UsersFirst

LEMMA PopUsers ==
    ASSUME IInv, NEW held \in BOOLEAN, pop_variables(held)
    PROVE  UsersFirst(NowEnded, Waits)
  <1> DEFINE t == Ctx.cleaners[1]
  <1>1. /\ stack # <<>> /\ Len(Ctx.cleaners) > 1 /\ t \in Seq(Definition) /\ TypeOK
        /\ ended' = IF held THEN ended ELSE ended \o t
    BY PopParts DEF IInv
  <1>2. /\ Ctx \in Context /\ 1 \in DOMAIN Ctx.cleaners
        /\ Ordered(Ctx) /\ Accounted(Ctx, Entries(ended)) /\ Pending(Ctx) \subseteq Mods(Ctx)
    BY <1>1, HeadFacts
  <1>3. CASE held
    BY <1>1, <1>3, NoneEnds
  <1>4. CASE ~held
    <2>1. Descending(t) /\ Entries(t) \subseteq Mods(Ctx)
      BY <1>2, PendingIn DEF Ordered
    <2>2. Mods(Ctx) \cap removed = {}
      BY <1>1, CtxParts DEF IInv, OneOwner
    <2>3. ended \in Seq(Definition)
      BY <1>1 DEF TypeOK
    <2>4. ASSUME NEW d \in Mods(Ctx), d \notin Entries(ended'), NEW x \in Entries(t) PROVE x > d
      <3>1. d \notin Entries(ended) /\ d \notin Entries(t)
        <4> HIDE DEF t
        <4>1. Entries(ended \o t) = Entries(ended) \cup Entries(t)
          BY <1>1, <2>3, EntriesJoined
        <4> QED
          BY <1>1, <1>4, <2>4, <4>1
      <3>2. d \in Pending(Ctx)
        BY <1>2, <3>1 DEF Accounted
      <3>3. PICK k \in DOMAIN Ctx.cleaners : d \in Entries(Ctx.cleaners[k])
        BY <3>2 DEF Pending
      <3>4. k # 1 /\ k \in 1 .. Len(Ctx.cleaners) /\ Len(Ctx.cleaners) \in Nat
        BY <1>2, <3>1, <3>3, ContextParts
      <3>5. 1 < k
        BY <3>4
      <3>6. Above(Entries(Ctx.cleaners[1]), Entries(Ctx.cleaners[k]))
        BY <1>2, <3>3, <3>5 DEF Ordered
      <3> QED
        BY <3>3, <3>6 DEF Above
    <2>5. ended' = ended \o t /\ Entries(t) \cap removed = {}
      BY <1>1, <1>4, <2>1, <2>2
    <2> HIDE DEF t
    <2> QED
      BY <1>1, <2>1, <2>4, <2>5, SomeEnd
  <1> QED
    BY <1>3, <1>4

LEMMA ImportEndUsers ==
    ASSUME IInv, ImportEnd
    PROVE  UsersFirst(NowEnded, Waits)
  <1> DEFINE t == Ctx.cleaners[1]
  <1>1. /\ stack # <<>> /\ Len(Ctx.cleaners) = 1 /\ t \in Seq(Definition) /\ TypeOK
        /\ ended' = ended \o t /\ ended \in Seq(Definition)
    BY ImportEndParts DEF IInv, TypeOK
  <1>2. /\ Ctx \in Context /\ 1 \in DOMAIN Ctx.cleaners
        /\ Ordered(Ctx) /\ Accounted(Ctx, Entries(ended)) /\ Pending(Ctx) \subseteq Mods(Ctx)
    BY <1>1, HeadFacts
  <1>3. DOMAIN Ctx.cleaners = {1}
    BY <1>1, <1>2, ContextParts
  <1>4. Descending(t) /\ Entries(t) = Pending(Ctx)
    BY <1>2, <1>3 DEF Ordered, Pending
  <1>5. Mods(Ctx) \cap removed = {}
    BY <1>1, CtxParts DEF IInv, OneOwner
  <1> HIDE DEF t
  <1>6. Entries(ended') = Entries(ended) \cup Entries(t)
    BY <1>1, EntriesJoined
  <1>7. \A d \in Mods(Ctx) : d \in Entries(ended')
    BY <1>2, <1>4, <1>6 DEF Accounted
  <1>8. Entries(t) \subseteq Mods(Ctx) /\ Entries(t) \cap removed = {}
    BY <1>2, <1>4, <1>5
  <1> QED
    BY <1>1, <1>4, <1>7, <1>8, SomeEnd

\* With the process everything ends: the context before what it exported.
LEMMA TerminateUsers ==
    ASSUME IInv, Terminate
    PROVE  UsersFirst(NowEnded, Waits)
  <1> DEFINE s == Ctx.cleaners[1]
  <1> DEFINE t == global.cleaners
  <1>1. /\ stack # <<>> /\ DOMAIN stack = {1} /\ DOMAIN Ctx.cleaners = {1}
        /\ ended' = ended \o s \o t /\ s \in Seq(Definition) /\ TypeOK
        /\ ended \in Seq(Definition)
    BY TerminateParts DEF IInv, TypeOK
  <1>2. /\ Ordered(Ctx) /\ Accounted(Ctx, Entries(ended)) /\ Pending(Ctx) \subseteq Mods(Ctx)
        /\ Exported \subseteq 1 .. made /\ Mods(Ctx) \subseteq 1 .. made /\ Exported \cap Mods(Ctx) = {}
        /\ t = global.deque_jd /\ Descending(t)
        /\ 1 \in DOMAIN stack /\ Ctx = stack[1]
    BY <1>1, HeadFacts, CtxParts
  <1>3. Descending(s) /\ Entries(s) = Pending(Ctx)
    BY <1>1, <1>2 DEF Ordered, Pending
  <1>4. t \in Seq(Definition) /\ Entries(t) = Exported
    BY <1>1, <1>2, GlobalParts DEF Exported
  <1> HIDE DEF s, t
  <1>5. NowEnded = s \o t /\ Entries(ended') = Entries(ended) \cup Entries(s) \cup Entries(t)
    <2> DEFINE u == s \o t
    <2>1. u \in Seq(Definition) /\ ended' = ended \o u /\ Entries(u) = Entries(s) \cup Entries(t)
      BY <1>1, <1>4, ConcatProperties, ConcatAssociative, EntriesJoined
    <2> HIDE DEF u
    <2>2. NowEnded = u /\ Entries(ended') = Entries(ended) \cup Entries(u)
      BY <1>1, <2>1, EndedNow, EntriesJoined DEF NowEnded
    <2> QED
      BY <2>1, <2>2 DEF u
  <1>6. /\ Owned = Mods(Ctx) /\ (Mods(Ctx) \cup Exported) \cap removed = {}
        /\ Values \cap (Mods(Ctx) \cup Exported) = {}
    BY <1>1, <1>2 DEF IInv, OneOwner, Owned, Values
  <1>7. ASSUME NEW d \in Waits, NEW n \in Names, NEW x \in Entries(s) \cup Entries(t)
        PROVE  code[d].bound[n] # x
    <2>1. d \in Loaded /\ d \notin Entries(ended')
      BY DEF Waits
    <2>2. d \in Values /\ d \in Definition
      <3>1. d \in Definition /\ d \in Values \cup Exported \cup Owned
        BY <1>1, <2>1, BoundFacts
      <3>2. Mods(Ctx) \cup Exported \subseteq Entries(ended')
        BY <1>2, <1>3, <1>4, <1>5 DEF Accounted
      <3> QED
        BY <1>6, <2>1, <3>1, <3>2
    <2>3. code[d].bound[n] = None
      BY <2>2 DEF IInv, Bindings, NoModule, NoSymbols
    <2>4. x \in 1 .. made
      BY <1>2, <1>3, <1>4
    <2>5. made \in Nat
      BY <1>1 DEF TypeOK
    <2> QED
      BY <2>3, <2>4, <2>5 DEF None
  <1> DEFINE u == s \o t
  <1>8. /\ u \in Seq(Definition) /\ Len(s) \in Nat /\ Len(t) \in Nat
        /\ DOMAIN s = 1 .. Len(s) /\ DOMAIN t = 1 .. Len(t) /\ DOMAIN u = 1 .. Len(s) + Len(t)
        /\ \A i \in DOMAIN u :
              IF i <= Len(s) THEN i \in 1 .. Len(s) /\ u[i] = s[i]
              ELSE i - Len(s) \in 1 .. Len(t) /\ u[i] = t[i - Len(s)]
    BY <1>1, <1>4, Joined
  <1>9. Entries(s) \cup Entries(t) \subseteq Loaded /\ Entries(s) \cup Entries(t) \subseteq Definition
    BY <1>1, <1>2, <1>3, <1>4, <1>6, EntriesType DEF Loaded
  <1> HIDE DEF u
  <1>10. ASSUME NEW i \in DOMAIN u, NEW j \in DOMAIN u, i < j, NEW n \in Names
         PROVE  code[u[j]].bound[n] # u[i]
    <2>1. CASE j <= Len(s)
      <3>1. i \in DOMAIN s /\ j \in DOMAIN s /\ u[i] = s[i] /\ u[j] = s[j]
        BY <1>8, <1>10, <2>1
      <3>2. s[i] > s[j]
        BY <1>3, <1>10, <3>1 DEF Descending
      <3>3. s[j] \in Loaded /\ s[i] \in Definition
        BY <1>9, <3>1 DEF Entries
      <3> QED
        BY <1>1, <3>1, <3>2, <3>3, BoundFacts
    <2>2. CASE i <= Len(s) /\ ~(j <= Len(s))
      <3>1. u[i] \in Entries(s) /\ u[j] \in Entries(t)
        BY <1>8, <2>2 DEF Entries
      <3>2. u[j] \in Loaded /\ u[j] \notin Mods(Ctx) /\ u[i] \in Mods(Ctx)
        BY <1>2, <1>3, <1>4, <1>9, <3>1
      <3>3. code[u[j]].bound[n] \notin Mods(Ctx)
        BY <1>1, <1>2, <3>2, BoundFacts
      <3> QED
        BY <3>2, <3>3
    <2>3. CASE ~(i <= Len(s))
      <3>1. ~(j <= Len(s)) /\ i - Len(s) < j - Len(s)
        BY <1>8, <1>10, <2>3
      <3>2. /\ u[i] = t[i - Len(s)] /\ i - Len(s) \in DOMAIN t
            /\ u[j] = t[j - Len(s)] /\ j - Len(s) \in DOMAIN t
        BY <1>8, <2>3, <3>1
      <3>3. u[i] > u[j]
        BY <1>2, <3>1, <3>2 DEF Descending
      <3>4. u[j] \in Loaded /\ u[i] \in Definition
        BY <1>9, <3>2 DEF Entries
      <3> QED
        BY <1>1, <3>3, <3>4, BoundFacts
    <2> QED
      BY <1>8, <2>1, <2>2, <2>3
  <1>11. \A i \in DOMAIN u : u[i] \in Entries(s) \cup Entries(t)
    BY <1>8 DEF Entries
  <1>12. NowEnded = u
    BY <1>5 DEF u
  <1> QED
    BY <1>7, <1>10, <1>11, <1>12 DEF UsersFirst

LEMMA UsersStep == IInv /\ [Next]_vars => UsersFirst(NowEnded, Waits)
  <1> SUFFICES ASSUME IInv, [Next]_vars PROVE UsersFirst(NowEnded, Waits)
    OBVIOUS
  <1> USE DEF IInv
  <1>1. CASE \E refs \in SUBSET Names : RunUnit(refs)
    BY <1>1, RunUnitParts, NoneEnds
  <1>2. CASE \E defs \in SUBSET Names, refs \in SUBSET Names :
                LoadLocal(defs, refs) \/ LoadExported(defs, refs)
    BY <1>2, NoneEnds DEF LoadLocal, LoadExported
  <1>3. CASE \E n \in Names : AddSymbol(n) \/ ExportSymbol(n)
    BY <1>3, NoneEnds DEF AddSymbol, ExportSymbol
  <1>4. CASE FlushUnitSymbols \/ FinishUnit \/ push_variables \/ ImportBegin
    BY <1>4, NoneEnds DEF FlushUnitSymbols, FinishUnit, push_variables, ImportBegin
  <1>5. CASE \E held \in BOOLEAN : pop_variables(held)
    BY <1>5, PopUsers
  <1>6. CASE ImportEnd \/ Terminate
    BY <1>6, ImportEndUsers, TerminateUsers
  <1>7. CASE UNCHANGED vars
    BY <1>7, NoneEnds DEF vars
  <1> QED
    BY <1>1, <1>2, <1>3, <1>4, <1>5, <1>6, <1>7, Steps

\* Whoever uses a module ends first: within one step in the order in which the
\* modules end, and over steps because none that waits is bound to one that
\* ends.  A module is bound to older ones only, lists of cleaners are in order
\* of age, and what is exported is bound to no module of a context.
THEOREM UsersAreFirst == Spec => UsersEndFirst
  <1>1. IInv /\ [Next]_vars
          => LET now == SubSeq(ended', Len(ended) + 1, Len(ended'))
                 waiting == Loaded \ Entries(ended')
             IN  \A i \in DOMAIN now, n \in Names :
                   /\ \A j \in DOMAIN now : i < j => code[now[j]].bound[n] # now[i]
                   /\ \A d \in waiting : code[d].bound[n] # now[i]
    BY UsersStep DEF UsersFirst, NowEnded, Waits
  <1> QED
    BY <1>1, Invariant, PTL DEF Spec, UsersEndFirst
=============================================================================
