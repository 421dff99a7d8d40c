------------------------- MODULE CompileStateProofs -------------------------
(***************************************************************************)
(* Theorems about CompileState, for any names, any number of blocks, scopes *)
(* and contexts, and holds of any length: cleaners run once and newest      *)
(* first, and nothing that can be looked up has been freed.                 *)
(***************************************************************************)
EXTENDS CompileState, SequenceTheorems, TLAPS

(***************************************************************************)
(* The invariant: NewestFirst and CleanedOnce need each other, since lists  *)
(* in a strict order have no block in common; NoDangling needs to know why  *)
(* a block that is declared has not been freed.                             *)
(***************************************************************************)

\* The lists of a context are in order, each before those of the scopes around.
CtxOrdered(ctx) ==
    \A k \in Levels(ctx) :
        /\ Descending(Cleaners(ctx, k))
        /\ Above(Blocks(Cleaners(ctx, k)), KeptBy(ctx, k + 1))

\* What a scope declares waits in its own list, in those of the scopes around it
\* or among the blocks g of the global one; what is exported is in g.
CtxKept(ctx, g) ==
    /\ Declared(ctx.export_data) \subseteq g
    /\ \A k \in Levels(ctx) : Declared(DeclsAt(ctx, k)) \subseteq KeptBy(ctx, k) \cup g

Kept == \A i \in DOMAIN stack : CtxKept(stack[i], Blocks(global))

IInv == TypeOK /\ CleanedOnce /\ NewestFirst /\ Kept

(***************************************************************************)
(* Sequences of blocks.                                                     *)
(***************************************************************************)

\* A sequence and one before it.
LEMMA BeforeLemma ==
    ASSUME NEW S, NEW s \in Seq(S), NEW e \in S
    PROVE  /\ <<e>> \o s \in Seq(S)
           /\ Len(<<e>> \o s) = Len(s) + 1
           /\ (<<e>> \o s)[1] = e
           /\ \A i \in 1 .. Len(s) : (<<e>> \o s)[i + 1] = s[i]
           /\ DOMAIN (<<e>> \o s) = 1 .. (Len(s) + 1)
  <1>1. <<e>> \in Seq(S) /\ Len(<<e>>) = 1 /\ <<e>>[1] = e
    OBVIOUS
  <1>2. Len(s) \in Nat
    BY LenProperties
  <1>3. /\ <<e>> \o s \in Seq(S)
        /\ Len(<<e>> \o s) = Len(<<e>>) + Len(s)
        /\ \A i \in 1 .. Len(<<e>>) + Len(s) :
              (<<e>> \o s)[i] = IF i <= Len(<<e>>) THEN <<e>>[i] ELSE s[i - Len(<<e>>)]
    BY <1>1, ConcatProperties
  <1>4. \A i \in 1 .. Len(s) + 1 : (<<e>> \o s)[i] = IF i <= 1 THEN e ELSE s[i - 1]
    BY <1>1, <1>2, <1>3
  <1>5. Len(<<e>> \o s) = Len(s) + 1
    BY <1>1, <1>2, <1>3
  <1>6. \A i \in 1 .. Len(s) : (<<e>> \o s)[i + 1] = s[i]
    BY <1>2, <1>4
  <1>7. DOMAIN (<<e>> \o s) = 1 .. Len(<<e>> \o s)
    BY <1>3, LenProperties
  <1>8. (<<e>> \o s)[1] = e
    BY <1>2, <1>4
  <1> QED
    BY <1>3, <1>5, <1>6, <1>7, <1>8

\* The blocks of a sequence.
LEMMA BlocksType ==
    ASSUME NEW s \in Seq(Block)
    PROVE  Blocks(s) \subseteq Block
  BY ElementOfSeq, LenProperties DEF Blocks

\* The blocks of two lists that become one.
LEMMA BlocksJoined ==
    ASSUME NEW s \in Seq(Block), NEW t \in Seq(Block)
    PROVE  Blocks(s \o t) = Blocks(s) \cup Blocks(t)
  <1> DEFINE u == s \o t
  <1>1. Len(s) \in Nat /\ Len(t) \in Nat
    BY LenProperties
  <1>2. /\ u \in Seq(Block) /\ Len(u) = Len(s) + Len(t)
        /\ \A i \in 1 .. Len(s) + Len(t) : u[i] = IF i <= Len(s) THEN s[i] ELSE t[i - Len(s)]
    BY ConcatProperties
  <1>3. DOMAIN s = 1 .. Len(s) /\ DOMAIN t = 1 .. Len(t) /\ DOMAIN u = 1 .. Len(s) + Len(t)
    BY <1>2, LenProperties
  <1> HIDE DEF u
  <1>4. ASSUME NEW i \in DOMAIN u PROVE u[i] \in Blocks(s) \cup Blocks(t)
    <2>1. CASE i <= Len(s)
      BY <1>1, <1>2, <1>3, <2>1 DEF Blocks
    <2>2. CASE ~(i <= Len(s))
      <3>1. u[i] = t[i - Len(s)] /\ i - Len(s) \in 1 .. Len(t)
        BY <1>1, <1>2, <1>3, <2>2
      <3> QED
        BY <1>3, <3>1 DEF Blocks
    <2> QED
      BY <2>1, <2>2
  <1>5. ASSUME NEW i \in DOMAIN s PROVE s[i] \in Blocks(u)
    <2>1. i \in DOMAIN u /\ u[i] = s[i]
      BY <1>1, <1>2, <1>3
    <2> QED
      BY <2>1 DEF Blocks
  <1>6. ASSUME NEW i \in DOMAIN t PROVE t[i] \in Blocks(u)
    <2>1. i + Len(s) \in DOMAIN u
      BY <1>1, <1>3
    <2>2. u[i + Len(s)] = t[i + Len(s) - Len(s)]
      BY <1>1, <1>2, <1>3, <2>1
    <2>3. i + Len(s) - Len(s) = i
      BY <1>1, <1>3
    <2> QED
      BY <2>1, <2>2, <2>3 DEF Blocks
  <1>7. Blocks(u) \subseteq Blocks(s) \cup Blocks(t)
    BY <1>4 DEF Blocks
  <1>8. Blocks(s) \subseteq Blocks(u) /\ Blocks(t) \subseteq Blocks(u)
    BY <1>5, <1>6 DEF Blocks
  <1> QED
    BY <1>7, <1>8 DEF u

\* Two lists in order, the first above the second, are one list in order.
LEMMA OrderJoined ==
    ASSUME NEW s \in Seq(Block), NEW t \in Seq(Block),
           Descending(s), Descending(t), Above(Blocks(s), Blocks(t))
    PROVE  s \o t \in Seq(Block) /\ Descending(s \o t)
  <1> DEFINE u == s \o t
  <1>1. Len(s) \in Nat /\ Len(t) \in Nat
    BY LenProperties
  <1>2. /\ u \in Seq(Block) /\ Len(u) = Len(s) + Len(t)
        /\ \A i \in 1 .. Len(s) + Len(t) : u[i] = IF i <= Len(s) THEN s[i] ELSE t[i - Len(s)]
    BY ConcatProperties
  <1>3. DOMAIN s = 1 .. Len(s) /\ DOMAIN t = 1 .. Len(t) /\ DOMAIN u = 1 .. Len(s) + Len(t)
    BY <1>2, LenProperties
  <1> HIDE DEF u
  <1>4. ASSUME NEW p \in DOMAIN u, NEW q \in DOMAIN u, p < q PROVE u[p] > u[q]
    <2>1. CASE q <= Len(s)
      <3>1. u[p] = s[p] /\ u[q] = s[q] /\ p \in DOMAIN s /\ q \in DOMAIN s
        BY <1>1, <1>2, <1>3, <1>4, <2>1
      <3> QED
        BY <1>4, <3>1 DEF Descending
    <2>2. CASE p <= Len(s) /\ ~(q <= Len(s))
      <3>1. u[p] = s[p] /\ p \in DOMAIN s /\ u[q] = t[q - Len(s)] /\ q - Len(s) \in DOMAIN t
        BY <1>1, <1>2, <1>3, <2>2
      <3>2. u[p] \in Blocks(s) /\ u[q] \in Blocks(t)
        BY <3>1 DEF Blocks
      <3> QED
        BY <3>2 DEF Above
    <2>3. CASE ~(p <= Len(s))
      <3>1. /\ u[p] = t[p - Len(s)] /\ p - Len(s) \in DOMAIN t
            /\ u[q] = t[q - Len(s)] /\ q - Len(s) \in DOMAIN t
            /\ p - Len(s) < q - Len(s)
        BY <1>1, <1>2, <1>3, <1>4, <2>3
      <3> QED
        BY <3>1 DEF Descending
    <2> QED
      BY <1>1, <1>3, <1>4, <2>1, <2>2, <2>3
  <1> QED
    BY <1>2, <1>4 DEF Descending, u

\* A new block before a list.
LEMMA OneBefore ==
    ASSUME NEW s \in Seq(Block), NEW b \in Block
    PROVE  /\ <<b>> \o s \in Seq(Block)
           /\ Blocks(<<b>> \o s) = {b} \cup Blocks(s)
           /\ Descending(s) /\ (\A x \in Blocks(s) : b > x) => Descending(<<b>> \o s)
  <1>1. <<b>> \in Seq(Block) /\ Blocks(<<b>>) = {b} /\ Descending(<<b>>)
    BY DEF Blocks, Descending
  <1>2. (\A x \in Blocks(s) : b > x) => Above(Blocks(<<b>>), Blocks(s))
    BY <1>1 DEF Above
  <1>3. <<b>> \o s \in Seq(Block)
    BY BeforeLemma
  <1> QED
    BY <1>1, <1>2, <1>3, BlocksJoined, OrderJoined

(***************************************************************************)
(* Contexts.                                                                *)
(***************************************************************************)

\* The parts of a context.
LEMMA CtxParts ==
    ASSUME NEW c \in Context
    PROVE  /\ Len(c.vars_stack) \in Nat
           /\ Levels(c) = 0 .. Len(c.vars_stack)
           /\ c.decls \in Decls /\ c.export_data \in Decls
           /\ \A k \in Levels(c) : Cleaners(c, k) \in Seq(Block) /\ DeclsAt(c, k) \in Decls
  <1>1. /\ c.vars_stack \in Seq(Saved) /\ c.cleaners \in Seq(Block)
        /\ c.decls \in Decls /\ c.export_data \in Decls
    BY DEF Context
  <1>2. Len(c.vars_stack) \in Nat
    BY <1>1, LenProperties
  <1>3. ASSUME NEW k \in Levels(c)
        PROVE  Cleaners(c, k) \in Seq(Block) /\ DeclsAt(c, k) \in Decls
    <2>1. CASE k = 0
      BY <1>1, <2>1 DEF Cleaners, DeclsAt
    <2>2. CASE k # 0
      <3>1. k \in 1 .. Len(c.vars_stack)
        BY <1>2, <2>2 DEF Levels
      <3>2. c.vars_stack[k] \in Saved
        BY <1>1, <3>1, ElementOfSeq
      <3> QED
        BY <2>2, <3>2 DEF Cleaners, DeclsAt, Saved
    <2> QED
      BY <2>1, <2>2
  <1> QED
    BY <1>1, <1>2, <1>3 DEF Levels

\* What is kept, one list at a time.
LEMMA KeptIn ==
    ASSUME NEW c, NEW k, NEW x
    PROVE  x \in KeptBy(c, k) <=>
              \E j \in Levels(c) : j >= k /\ x \in Blocks(Cleaners(c, j))
  BY DEF KeptBy

\* What is kept from a level on is in its list or kept from the next one on.
LEMMA KeptSplit ==
    ASSUME NEW c \in Context, NEW k \in Levels(c)
    PROVE  KeptBy(c, k) = Blocks(Cleaners(c, k)) \cup KeptBy(c, k + 1)
  <1>1. k \in Nat /\ \A j \in Levels(c) : j \in Nat /\ (j >= k <=> j = k \/ j >= k + 1)
    BY CtxParts
  <1>2. ASSUME NEW x
        PROVE  x \in KeptBy(c, k) <=> x \in Blocks(Cleaners(c, k)) \/ x \in KeptBy(c, k + 1)
    BY <1>1, KeptIn
  <1> QED
    BY <1>2

\* What a context keeps are blocks, the fewer the further out.
LEMMA KeptType ==
    ASSUME NEW c \in Context, NEW k \in Nat
    PROVE  KeptBy(c, k) \subseteq KeptBy(c, 0) /\ KeptBy(c, k) \subseteq Block
  <1>1. \A j \in Levels(c) : j >= k => j >= 0
    BY CtxParts
  <1>2. \A x : x \in KeptBy(c, k) => x \in KeptBy(c, 0)
    BY <1>1, KeptIn
  <1>3. \A j \in Levels(c) : Blocks(Cleaners(c, j)) \subseteq Block
    BY CtxParts, BlocksType
  <1> QED
    BY <1>2, <1>3 DEF KeptBy

\* Contexts with the same lists keep the same.
LEMMA KeptSame ==
    ASSUME NEW c \in Context, NEW d \in Context, Levels(d) = Levels(c),
           \A k \in Levels(c) : Cleaners(d, k) = Cleaners(c, k)
    PROVE  /\ \A k \in Nat : KeptBy(d, k) = KeptBy(c, k)
           /\ CtxOrdered(c) => CtxOrdered(d)
  <1>1. \A k \in Nat : KeptBy(d, k) = KeptBy(c, k)
    <2> TAKE k \in Nat
    <2>1. \A x : x \in KeptBy(d, k) <=> x \in KeptBy(c, k)
      BY KeptIn
    <2> QED
      BY <2>1
  <1>2. \A k \in Levels(c) : k + 1 \in Nat
    BY CtxParts
  <1> QED
    BY <1>1, <1>2 DEF CtxOrdered

\* d is c with a scope inside.
Inside(d, c) ==
    /\ Levels(d) = 0 .. Len(c.vars_stack) + 1
    /\ \A k \in Levels(c) : Cleaners(d, k + 1) = Cleaners(c, k) /\ DeclsAt(d, k + 1) = DeclsAt(c, k)

LEMMA InsideLevels ==
    ASSUME NEW c \in Context, NEW d \in Context, Inside(d, c)
    PROVE  /\ 0 \in Levels(d) /\ 0 \in Levels(c)
           /\ \A k \in Levels(c) : k + 1 \in Levels(d)
           /\ \A k \in Levels(d) : k # 0 => k - 1 \in Levels(c) /\ k = k - 1 + 1
           /\ \A k \in Nat : KeptBy(d, k + 1) = KeptBy(c, k)
  <1>1. Len(c.vars_stack) \in Nat /\ Levels(c) = 0 .. Len(c.vars_stack)
        /\ Levels(d) = 0 .. Len(c.vars_stack) + 1
    BY CtxParts DEF Inside
  <1>2. \A k \in Levels(c) : k \in Nat /\ k + 1 \in Levels(d)
    BY <1>1
  <1>3. \A k \in Levels(d) : k # 0 => k - 1 \in Levels(c) /\ k = k - 1 + 1
    BY <1>1
  <1>4. ASSUME NEW k \in Nat PROVE KeptBy(d, k + 1) = KeptBy(c, k)
    <2>1. ASSUME NEW x, x \in KeptBy(c, k) PROVE x \in KeptBy(d, k + 1)
      <3>1. PICK j \in Levels(c) : j >= k /\ x \in Blocks(Cleaners(c, j))
        BY <2>1, KeptIn
      <3>2. j + 1 \in Levels(d) /\ j + 1 >= k + 1 /\ Cleaners(d, j + 1) = Cleaners(c, j)
        BY <1>2, <3>1 DEF Inside
      <3> QED
        BY <3>1, <3>2, KeptIn
    <2>2. ASSUME NEW x, x \in KeptBy(d, k + 1) PROVE x \in KeptBy(c, k)
      <3>1. PICK j \in Levels(d) : j >= k + 1 /\ x \in Blocks(Cleaners(d, j))
        BY <2>2, KeptIn
      <3>2. j \in Nat /\ j # 0
        BY <1>1, <3>1
      <3>3. j - 1 \in Levels(c) /\ j - 1 >= k /\ Cleaners(d, j) = Cleaners(c, j - 1)
        BY <1>3, <3>1, <3>2 DEF Inside
      <3> QED
        BY <3>1, <3>3, KeptIn
    <2> QED
      BY <2>1, <2>2
  <1> QED
    BY <1>1, <1>2, <1>3, <1>4, SMTT(30)

\* Opening a scope without cleaners in a context.
LEMMA OpenLemma ==
    ASSUME NEW c \in Context, NEW d \in Context, Inside(d, c),
           Cleaners(d, 0) = <<>>, DeclsAt(d, 0) = DeclsAt(c, 0),
           d.export_data = c.export_data, NEW g
    PROVE  /\ KeptBy(d, 0) = KeptBy(c, 0)
           /\ CtxOrdered(c) => CtxOrdered(d)
           /\ CtxKept(c, g) => CtxKept(d, g)
  <1>1. /\ 0 \in Levels(d) /\ 0 \in Levels(c)
        /\ \A k \in Levels(d) : k # 0 => k - 1 \in Levels(c) /\ k = k - 1 + 1
        /\ \A k \in Nat : KeptBy(d, k + 1) = KeptBy(c, k)
        /\ \A k \in Levels(c) : k \in Nat
    <2>1. \A k \in Levels(c) : k \in Nat
      BY CtxParts
    <2> QED
      BY <2>1, InsideLevels
  <1>2. Blocks(Cleaners(d, 0)) = {}
    BY DEF Blocks
  <1>3. KeptBy(d, 0) = KeptBy(c, 0)
    <2>1. KeptBy(d, 0) = Blocks(Cleaners(d, 0)) \cup KeptBy(d, 0 + 1)
      BY <1>1, KeptSplit
    <2> QED
      BY <1>1, <1>2, <2>1
  <1>4. ASSUME CtxOrdered(c) PROVE CtxOrdered(d)
    <2> SUFFICES ASSUME NEW k \in Levels(d)
                 PROVE  /\ Descending(Cleaners(d, k))
                        /\ Above(Blocks(Cleaners(d, k)), KeptBy(d, k + 1))
      BY DEF CtxOrdered
    <2>1. CASE k = 0
      BY <1>2, <2>1 DEF Descending, Above
    <2>2. CASE k # 0
      <3>1. k - 1 \in Levels(c) /\ k = k - 1 + 1 /\ k - 1 + 1 \in Nat
        BY <1>1, <2>2
      <3>2. Cleaners(d, k) = Cleaners(c, k - 1) /\ KeptBy(d, k + 1) = KeptBy(c, k - 1 + 1)
        BY <1>1, <3>1 DEF Inside
      <3> QED
        BY <1>4, <3>1, <3>2 DEF CtxOrdered
    <2> QED
      BY <2>1, <2>2
  <1>5. ASSUME CtxKept(c, g) PROVE CtxKept(d, g)
    <2> SUFFICES ASSUME NEW k \in Levels(d)
                 PROVE  Declared(DeclsAt(d, k)) \subseteq KeptBy(d, k) \cup g
      BY <1>5 DEF CtxKept
    <2>1. CASE k = 0
      BY <1>1, <1>3, <1>5, <2>1 DEF CtxKept
    <2>2. CASE k # 0
      <3>1. k - 1 \in Levels(c) /\ k = k - 1 + 1 /\ k - 1 \in Nat
        BY <1>1, <2>2
      <3>2. DeclsAt(d, k) = DeclsAt(c, k - 1) /\ KeptBy(d, k) = KeptBy(c, k - 1)
        BY <1>1, <3>1 DEF Inside
      <3> QED
        BY <1>5, <3>1, <3>2 DEF CtxKept
    <2> QED
      BY <2>1, <2>2
  <1> QED
    BY <1>3, <1>4, <1>5

\* Closing a scope: what it kept is above what is kept on.
LEMMA CloseLemma ==
    ASSUME NEW c \in Context, NEW d \in Context, Inside(c, d),
           d.export_data = c.export_data, NEW g
    PROVE  /\ KeptBy(c, 0) = Blocks(Cleaners(c, 0)) \cup KeptBy(d, 0)
           /\ CtxOrdered(c) => CtxOrdered(d) /\ Above(Blocks(Cleaners(c, 0)), KeptBy(d, 0))
           /\ CtxKept(c, g) => CtxKept(d, g)
  <1>1. /\ 0 \in Levels(c)
        /\ \A k \in Levels(d) : k \in Nat /\ k + 1 \in Levels(c)
        /\ \A k \in Nat : KeptBy(c, k + 1) = KeptBy(d, k)
    <2>1. \A k \in Levels(d) : k \in Nat
      BY CtxParts
    <2> QED
      BY <2>1, InsideLevels
  <1>2. KeptBy(c, 0) = Blocks(Cleaners(c, 0)) \cup KeptBy(d, 0)
    BY <1>1, KeptSplit
  <1>3. ASSUME CtxOrdered(c)
        PROVE  CtxOrdered(d) /\ Above(Blocks(Cleaners(c, 0)), KeptBy(d, 0))
    <2>1. Above(Blocks(Cleaners(c, 0)), KeptBy(d, 0))
      BY <1>1, <1>3 DEF CtxOrdered
    <2>2. ASSUME NEW k \in Levels(d)
          PROVE  /\ Descending(Cleaners(d, k))
                 /\ Above(Blocks(Cleaners(d, k)), KeptBy(d, k + 1))
      <3>1. k \in Nat /\ k + 1 \in Nat /\ k + 1 \in Levels(c)
        BY <1>1
      <3>2. Cleaners(c, k + 1) = Cleaners(d, k) /\ KeptBy(c, k + 1 + 1) = KeptBy(d, k + 1)
        BY <1>1, <3>1 DEF Inside
      <3> QED
        BY <1>3, <3>1, <3>2 DEF CtxOrdered
    <2> QED
      BY <2>1, <2>2 DEF CtxOrdered
  <1>4. ASSUME CtxKept(c, g) PROVE CtxKept(d, g)
    <2> SUFFICES ASSUME NEW k \in Levels(d)
                 PROVE  Declared(DeclsAt(d, k)) \subseteq KeptBy(d, k) \cup g
      BY <1>4 DEF CtxKept
    <2>1. k \in Nat /\ k + 1 \in Levels(c)
      BY <1>1
    <2>2. DeclsAt(c, k + 1) = DeclsAt(d, k) /\ KeptBy(c, k + 1) = KeptBy(d, k)
      BY <1>1, <2>1 DEF Inside
    <2> QED
      BY <1>4, <2>1, <2>2 DEF CtxKept
  <1> QED
    BY <1>2, <1>3, <1>4

\* d is c but for the open scope, whose list has got s in front.
Fronted(d, c, s) ==
    /\ Levels(d) = Levels(c)
    /\ Cleaners(d, 0) = s \o Cleaners(c, 0)
    /\ \A k \in Levels(c) :
          k # 0 => Cleaners(d, k) = Cleaners(c, k) /\ DeclsAt(d, k) = DeclsAt(c, k)

LEMMA FrontKept ==
    ASSUME NEW c \in Context, NEW d \in Context, NEW s \in Seq(Block), Fronted(d, c, s)
    PROVE  /\ KeptBy(d, 0) = Blocks(s) \cup KeptBy(c, 0)
           /\ \A k \in Nat : k # 0 => KeptBy(d, k) = KeptBy(c, k)
           /\ 0 \in Levels(c) /\ Cleaners(c, 0) \in Seq(Block)
           /\ Blocks(Cleaners(d, 0)) = Blocks(s) \cup Blocks(Cleaners(c, 0))
  <1>1. 0 \in Levels(c) /\ 0 \in Levels(d) /\ Cleaners(c, 0) \in Seq(Block)
        /\ \A k \in Levels(c) : k \in Nat
    <2>1. Levels(c) = 0 .. Len(c.vars_stack) /\ Len(c.vars_stack) \in Nat
      BY CtxParts
    <2>2. 0 \in Levels(c) /\ \A k \in Levels(c) : k \in Nat
      BY <2>1
    <2> QED
      BY <2>2, CtxParts DEF Fronted
  <1>2. ASSUME NEW k \in Nat, k # 0 PROVE KeptBy(d, k) = KeptBy(c, k)
    <2>1. \A j \in Levels(c) : j >= k => Cleaners(d, j) = Cleaners(c, j)
      BY <1>1, <1>2 DEF Fronted
    <2>2. \A x : x \in KeptBy(d, k) <=> x \in KeptBy(c, k)
      BY <2>1, KeptIn DEF Fronted
    <2> QED
      BY <2>2
  <1>3. Blocks(Cleaners(d, 0)) = Blocks(s) \cup Blocks(Cleaners(c, 0))
    BY <1>1, BlocksJoined DEF Fronted
  <1>4. KeptBy(d, 0) = Blocks(Cleaners(d, 0)) \cup KeptBy(d, 0 + 1)
    BY <1>1, KeptSplit
  <1>5. KeptBy(c, 0) = Blocks(Cleaners(c, 0)) \cup KeptBy(c, 0 + 1)
    BY <1>1, KeptSplit
  <1>6. KeptBy(d, 0 + 1) = KeptBy(c, 0 + 1)
    BY <1>2
  <1> QED
    BY <1>1, <1>2, <1>3, <1>4, <1>5, <1>6

LEMMA FrontOrdered ==
    ASSUME NEW c \in Context, NEW d \in Context, NEW s \in Seq(Block), Fronted(d, c, s),
           CtxOrdered(c), Descending(s), Above(Blocks(s), KeptBy(c, 0))
    PROVE  CtxOrdered(d)
  <1>1. /\ 0 \in Levels(c) /\ Cleaners(c, 0) \in Seq(Block)
        /\ Blocks(Cleaners(d, 0)) = Blocks(s) \cup Blocks(Cleaners(c, 0))
        /\ \A k \in Nat : k # 0 => KeptBy(d, k) = KeptBy(c, k)
    BY FrontKept
  <1>2. KeptBy(c, 0) = Blocks(Cleaners(c, 0)) \cup KeptBy(c, 0 + 1)
    BY <1>1, KeptSplit
  <1>3. ASSUME NEW k \in Levels(d)
        PROVE  /\ Descending(Cleaners(d, k))
               /\ Above(Blocks(Cleaners(d, k)), KeptBy(d, k + 1))
    <2>1. k \in Nat /\ k \in Levels(c)
      BY CtxParts DEF Fronted
    <2>2. KeptBy(d, k + 1) = KeptBy(c, k + 1)
      BY <1>1, <2>1
    <2>3. Descending(Cleaners(c, k)) /\ Above(Blocks(Cleaners(c, k)), KeptBy(c, k + 1))
      BY <2>1 DEF CtxOrdered
    <2>4. CASE k = 0
      <3>1. Above(Blocks(s), Blocks(Cleaners(c, 0)))
        BY <1>2 DEF Above
      <3>2. Descending(Cleaners(d, 0))
        BY <1>1, <2>3, <2>4, <3>1, OrderJoined DEF Fronted
      <3>3. Above(Blocks(Cleaners(d, 0)), KeptBy(c, 0 + 1))
        BY <1>1, <1>2, <2>3, <2>4 DEF Above
      <3> QED
        BY <2>2, <2>4, <3>2, <3>3
    <2>5. CASE k # 0
      BY <2>1, <2>2, <2>3, <2>5 DEF Fronted
    <2> QED
      BY <2>4, <2>5
  <1> QED
    BY <1>3 DEF CtxOrdered

LEMMA FrontDeclared ==
    ASSUME NEW c \in Context, NEW d \in Context, NEW s \in Seq(Block), Fronted(d, c, s),
           NEW g, NEW h, g \subseteq h, CtxKept(c, g),
           Declared(d.export_data) \subseteq h,
           Declared(d.decls) \subseteq Blocks(s) \cup KeptBy(c, 0) \cup h
    PROVE  CtxKept(d, h)
  <1>1. /\ KeptBy(d, 0) = Blocks(s) \cup KeptBy(c, 0)
        /\ \A k \in Nat : k # 0 => KeptBy(d, k) = KeptBy(c, k)
    BY FrontKept
  <1>2. ASSUME NEW k \in Levels(d)
        PROVE  Declared(DeclsAt(d, k)) \subseteq KeptBy(d, k) \cup h
    <2>1. k \in Nat /\ k \in Levels(c)
      BY CtxParts DEF Fronted
    <2>2. CASE k = 0
      BY <1>1, <2>2 DEF DeclsAt
    <2>3. CASE k # 0
      BY <1>1, <2>1, <2>3 DEF Fronted, CtxKept
    <2> QED
      BY <2>2, <2>3
  <1> QED
    BY <1>2 DEF CtxKept

\* What is declared when a name is, and when other declarations are inserted.
LEMMA DeclaredOne ==
    ASSUME NEW decls \in Decls, NEW n \in Names, NEW b \in Block
    PROVE  /\ [decls EXCEPT ![n] = b] \in Decls
           /\ Declared([decls EXCEPT ![n] = b]) \subseteq {b} \cup Declared(decls)
  BY DEF Decls, Declared

LEMMA DeclaredInserted ==
    ASSUME NEW decls \in Decls, NEW other \in Decls
    PROVE  /\ Insert(decls, other) \in Decls
           /\ Declared(Insert(decls, other)) \subseteq Declared(decls) \cup Declared(other)
  BY DEF Decls, Declared, Insert

(***************************************************************************)
(* The stack of contexts.                                                   *)
(***************************************************************************)

LEMMA StackParts ==
    ASSUME TypeOK, stack # <<>>
    PROVE  /\ Len(stack) \in Nat \ {0}
           /\ DOMAIN stack = 1 .. Len(stack)
           /\ Ctx = stack[1]
           /\ \A i \in DOMAIN stack : stack[i] \in Context
  <1>1. stack \in Seq(Context)
    BY DEF TypeOK
  <1>2. Len(stack) \in Nat \ {0} /\ DOMAIN stack = 1 .. Len(stack)
    BY <1>1, EmptySeq, LenProperties
  <1>3. \A i \in DOMAIN stack : stack[i] \in Context
    BY <1>1, <1>2, ElementOfSeq
  <1> QED
    BY <1>1, <1>2, <1>3 DEF Ctx

\* What the suspended contexts keep.
Rest == UNION {KeptBy(stack[i], 0) : i \in 2 .. Len(stack)}

LEMMA LocalSplit ==
    ASSUME TypeOK, stack # <<>>
    PROVE  Local = KeptBy(Ctx, 0) \cup Rest
  <1>1. /\ Len(stack) \in Nat \ {0} /\ DOMAIN stack = 1 .. Len(stack) /\ Ctx = stack[1]
    BY StackParts
  <1>2. \A i : i \in DOMAIN stack <=> i = 1 \/ i \in 2 .. Len(stack)
    BY <1>1
  <1> QED
    BY <1>1, <1>2 DEF Local, Rest

\* NewestFirst, context by context.
LEMMA InOrder ==
    NewestFirst <=>
        /\ Descending(global)
        /\ \A i \in DOMAIN stack : CtxOrdered(stack[i])
        /\ \A i, j \in DOMAIN stack :
              i < j => Above(KeptBy(stack[i], 0), KeptBy(stack[j], 0))
  BY DEF NewestFirst, CtxOrdered

\* What the innermost context keeps is newer than what the others do.
LEMMA RestBelow ==
    ASSUME TypeOK, stack # <<>>, NewestFirst
    PROVE  /\ Above(KeptBy(Ctx, 0), Rest)
           /\ KeptBy(Ctx, 0) \cap Rest = {}
           /\ KeptBy(Ctx, 0) \subseteq Block /\ Rest \subseteq Block
  <1>1. /\ Len(stack) \in Nat \ {0} /\ DOMAIN stack = 1 .. Len(stack) /\ Ctx = stack[1]
        /\ \A i \in DOMAIN stack : stack[i] \in Context
    BY StackParts
  <1>2. \A i \in 2 .. Len(stack) : i \in DOMAIN stack /\ 1 \in DOMAIN stack /\ 1 < i
    BY <1>1
  <1>3. Above(KeptBy(Ctx, 0), Rest)
    BY <1>1, <1>2, InOrder DEF Above, Rest
  <1>4. \A i \in DOMAIN stack : KeptBy(stack[i], 0) \subseteq Block
    BY <1>1, KeptType
  <1>5. KeptBy(Ctx, 0) \subseteq Block /\ Rest \subseteq Block
    <2>1. 1 \in DOMAIN stack
      BY <1>1
    <2> QED
      BY <1>1, <1>2, <1>4, <2>1 DEF Rest
  <1>6. \A b \in Block : ~(b > b)
    BY BoundsAssumption DEF Block
  <1>7. KeptBy(Ctx, 0) \cap Rest = {}
    BY <1>3, <1>5, <1>6 DEF Above
  <1> QED
    BY <1>3, <1>5, <1>7

\* A step that replaces the innermost context.
LEMMA BecomeParts ==
    ASSUME TypeOK, stack # <<>>, NEW d \in Context, Become(d)
    PROVE  /\ stack' \in Seq(Context)
           /\ Len(stack') = Len(stack) /\ DOMAIN stack' = DOMAIN stack
           /\ stack'[1] = d
           /\ \A i \in DOMAIN stack : i # 1 => stack'[i] = stack[i]
           /\ Rest' = Rest /\ Local' = KeptBy(d, 0) \cup Rest
  <1>1. /\ stack \in Seq(Context) /\ Len(stack) \in Nat \ {0} /\ DOMAIN stack = 1 .. Len(stack)
    BY StackParts DEF TypeOK
  <1>2. /\ Tail(stack) \in Seq(Context) /\ Len(Tail(stack)) = Len(stack) - 1
        /\ \A i \in 1 .. Len(Tail(stack)) : Tail(stack)[i] = stack[i + 1]
    BY <1>1, HeadTailProperties
  <1>3. stack' = <<d>> \o Tail(stack)
    BY DEF Become
  <1>4. /\ stack' \in Seq(Context) /\ stack'[1] = d
        /\ Len(stack') = Len(Tail(stack)) + 1
        /\ \A i \in 1 .. Len(Tail(stack)) : stack'[i + 1] = Tail(stack)[i]
        /\ DOMAIN stack' = 1 .. (Len(Tail(stack)) + 1)
    BY <1>2, <1>3, BeforeLemma
  <1>5. Len(stack') = Len(stack) /\ DOMAIN stack' = DOMAIN stack
    BY <1>1, <1>2, <1>4
  <1>6. ASSUME NEW i \in DOMAIN stack, i # 1 PROVE stack'[i] = stack[i]
    <2>1. i - 1 \in 1 .. Len(Tail(stack)) /\ i - 1 + 1 = i
      BY <1>1, <1>2, <1>6
    <2> QED
      BY <1>2, <1>4, <2>1
  <1>7. \A i : i \in 2 .. Len(stack) => i \in DOMAIN stack /\ i # 1
    BY <1>1
  <1>8. Rest' = Rest
    BY <1>5, <1>6, <1>7 DEF Rest
  <1>9. Local' = KeptBy(d, 0) \cup Rest
    <2>1. \A i : i \in DOMAIN stack' <=> i = 1 \/ i \in 2 .. Len(stack')
      BY <1>1, <1>5
    <2>2. Local' = KeptBy(d, 0) \cup Rest'
      BY <1>4, <2>1 DEF Local, Rest
    <2> QED
      BY <1>8, <2>2
  <1> QED
    BY <1>4, <1>5, <1>6, <1>8, <1>9

\* The step keeps the order when the new context keeps nothing that the old one did
\* not, but for the block that was made last.
LEMMA BecomeOrdered ==
    ASSUME IInv, stack # <<>>, NEW d \in Context, Become(d), CtxOrdered(d),
           KeptBy(d, 0) \subseteq KeptBy(Ctx, 0) \cup {made + 1},
           Descending(global')
    PROVE  NewestFirst'
  <1>1. /\ Len(stack) \in Nat \ {0} /\ DOMAIN stack = 1 .. Len(stack) /\ Ctx = stack[1]
        /\ \A i \in DOMAIN stack : stack[i] \in Context
    BY StackParts DEF IInv
  <1>2. /\ DOMAIN stack' = DOMAIN stack /\ stack'[1] = d
        /\ \A i \in DOMAIN stack : i # 1 => stack'[i] = stack[i]
    BY BecomeParts DEF IInv
  <1>3. \A x \in Local : x \in Nat /\ made + 1 > x
    BY BoundsAssumption DEF IInv, TypeOK, CleanedOnce
  <1>4. /\ \A i \in DOMAIN stack : CtxOrdered(stack[i])
        /\ \A i, j \in DOMAIN stack : i < j => Above(KeptBy(stack[i], 0), KeptBy(stack[j], 0))
    BY InOrder DEF IInv
  <1>5. \A i \in DOMAIN stack' : CtxOrdered(stack'[i])
    BY <1>2, <1>4
  <1>6. ASSUME NEW i \in DOMAIN stack', NEW j \in DOMAIN stack', i < j
        PROVE  Above(KeptBy(stack'[i], 0), KeptBy(stack'[j], 0))
    <2>1. j # 1 /\ stack'[j] = stack[j]
      BY <1>1, <1>2, <1>6
    <2>2. \A x \in KeptBy(stack[j], 0) : made + 1 > x
      BY <1>2, <1>3 DEF Local
    <2>3. CASE i = 1
      BY <1>1, <1>2, <1>4, <1>6, <2>1, <2>2, <2>3 DEF Above
    <2>4. CASE i # 1
      BY <1>2, <1>4, <1>6, <2>1, <2>4
    <2> QED
      BY <2>3, <2>4
  <1> QED
    BY <1>5, <1>6 DEF NewestFirst, CtxOrdered

\* The step keeps what is declared from being freed.
LEMMA BecomeKept ==
    ASSUME IInv, stack # <<>>, NEW d \in Context, Become(d), CtxKept(d, Blocks(global')),
           Blocks(global) \subseteq Blocks(global')
    PROVE  Kept'
  <1>1. /\ DOMAIN stack' = DOMAIN stack /\ stack'[1] = d
        /\ \A i \in DOMAIN stack : i # 1 => stack'[i] = stack[i]
    BY BecomeParts DEF IInv
  <1>2. \A i \in DOMAIN stack : CtxKept(stack[i], Blocks(global))
    BY DEF IInv, Kept
  <1>3. \A i \in DOMAIN stack : CtxKept(stack[i], Blocks(global'))
    BY <1>2 DEF CtxKept
  <1>4. \A i \in DOMAIN stack' : CtxKept(stack'[i], Blocks(global'))
    BY <1>1, <1>3
  <1>5. Blocks(global)' = Blocks(global')
    BY DEF Blocks
  <1> QED
    BY <1>4, <1>5 DEF Kept

\* Where the blocks are.
LEMMA Accounts ==
    ASSUME IInv, stack # <<>>, NEW K, K = KeptBy(Ctx, 0), NEW G, G = Blocks(global)
    PROVE  /\ K \cup Rest \cup G \cup freed = 1 .. made
           /\ K \cap Rest = {} /\ K \cap freed = {} /\ Rest \cap freed = {}
           /\ G \cap K = {} /\ G \cap Rest = {} /\ G \cap freed = {}
           /\ made \in Nat /\ 1 .. (made + 1) = 1 .. made \cup {made + 1}
           /\ made + 1 \notin 1 .. made
           /\ \A x \in 1 .. made : made + 1 > x
  <1>1. Local = K \cup Rest
    BY LocalSplit DEF IInv
  <1>2. K \cap Rest = {}
    BY RestBelow DEF IInv
  <1>3. made \in Nat
    BY BoundsAssumption DEF IInv, TypeOK
  <1>4. 1 .. (made + 1) = 1 .. made \cup {made + 1} /\ made + 1 \notin 1 .. made
        /\ \A x \in 1 .. made : made + 1 > x
    BY <1>3
  <1> QED
    BY <1>1, <1>2, <1>3, <1>4 DEF IInv, CleanedOnce

\* A step that replaces the innermost context and accounts for every block.
LEMMA BecomeInv ==
    ASSUME IInv, stack # <<>>, NEW d \in Context, Become(d),
           CtxOrdered(d), CtxKept(d, Blocks(global')),
           KeptBy(d, 0) \subseteq KeptBy(Ctx, 0) \cup {made + 1},
           global' \in Seq(Block), Descending(global'), Blocks(global) \subseteq Blocks(global'),
           hold_state' \in 0 .. MaxHold, made' \in 0 .. MaxBlocks,
           KeptBy(d, 0) \cup Rest \cup Blocks(global') \cup freed' = 1 .. made',
           (KeptBy(d, 0) \cup Rest) \cap freed' = {},
           Blocks(global') \cap (KeptBy(d, 0) \cup Rest \cup freed') = {}
    PROVE  IInv'
  <1>1. stack' \in Seq(Context) /\ Local' = KeptBy(d, 0) \cup Rest
    BY BecomeParts DEF IInv
  <1>2. TypeOK'
    BY <1>1 DEF TypeOK
  <1>3. Blocks(global)' = Blocks(global')
    BY DEF Blocks
  <1>4. CleanedOnce'
    BY <1>1, <1>3 DEF CleanedOnce
  <1>5. NewestFirst'
    BY BecomeOrdered
  <1>6. Kept'
    BY BecomeKept
  <1> QED
    BY <1>2, <1>4, <1>5, <1>6 DEF IInv

\* Of those, the steps that make and free nothing.
LEMMA SameBlocks ==
    ASSUME IInv, stack # <<>>, NEW d \in Context, Become(d),
           CtxOrdered(d), CtxKept(d, Blocks(global)), KeptBy(d, 0) = KeptBy(Ctx, 0),
           hold_state' \in 0 .. MaxHold, UNCHANGED <<global, made, freed>>
    PROVE  IInv'
  <1>1. /\ KeptBy(Ctx, 0) \cup Rest \cup Blocks(global) \cup freed = 1 .. made
        /\ KeptBy(Ctx, 0) \cap freed = {} /\ Rest \cap freed = {}
        /\ Blocks(global) \cap KeptBy(Ctx, 0) = {} /\ Blocks(global) \cap Rest = {}
        /\ Blocks(global) \cap freed = {}
    BY Accounts
  <1>2. global \in Seq(Block) /\ Descending(global) /\ made \in 0 .. MaxBlocks
    BY DEF IInv, TypeOK, NewestFirst
  <1>3. /\ KeptBy(d, 0) \cup Rest \cup Blocks(global) \cup freed = 1 .. made
        /\ (KeptBy(d, 0) \cup Rest) \cap freed = {}
        /\ Blocks(global) \cap (KeptBy(d, 0) \cup Rest \cup freed) = {}
    BY <1>1
  <1> QED
    BY <1>2, <1>3, BecomeInv

\* The innermost context satisfies the invariant.
LEMMA CtxInv ==
    ASSUME IInv, stack # <<>>
    PROVE  /\ Ctx \in Context /\ CtxOrdered(Ctx) /\ CtxKept(Ctx, Blocks(global))
           /\ Declared(Ctx.decls) \subseteq KeptBy(Ctx, 0) \cup Blocks(global)
           /\ Declared(Ctx.export_data) \subseteq Blocks(global)
  <1>1. 1 \in DOMAIN stack /\ Ctx = stack[1] /\ Ctx \in Context
    BY StackParts DEF IInv
  <1>2. CtxOrdered(Ctx) /\ CtxKept(Ctx, Blocks(global))
    BY <1>1, InOrder DEF IInv, Kept
  <1>3. 0 \in Levels(Ctx)
    <2>1. Levels(Ctx) = 0 .. Len(Ctx.vars_stack) /\ Len(Ctx.vars_stack) \in Nat
      BY <1>1, CtxParts
    <2> QED
      BY <2>1
  <1>4. DeclsAt(Ctx, 0) = Ctx.decls
    BY DEF DeclsAt
  <1> QED
    BY <1>1, <1>2, <1>3, <1>4 DEF CtxKept

(***************************************************************************)
(* The actions.                                                             *)
(***************************************************************************)

\* Contexts that differ in the open scope only.
LEMMA FrontedFact ==
    ASSUME NEW c \in Context, NEW d \in Context, NEW s \in Seq(Block),
           d.vars_stack = c.vars_stack, d.cleaners = s \o c.cleaners
    PROVE  Fronted(d, c, s)
  BY DEF Fronted, Levels, Cleaners, DeclsAt

LEMMA NothingInFront ==
    ASSUME NEW c \in Context
    PROVE  /\ <<>> \o c.cleaners = c.cleaners /\ <<>> \in Seq(Block)
           /\ Blocks(<<>>) = {} /\ Descending(<<>>)
           /\ Above(Blocks(<<>>), KeptBy(c, 0))
  <1>1. c.cleaners \in Seq(Block)
    BY DEF Context
  <1>2. <<>> \o c.cleaners = c.cleaners
    BY <1>1, ConcatEmptySeq
  <1> QED
    BY <1>2 DEF Blocks, Descending, Above

LEMMA DeclareLocalInv ==
    ASSUME IInv, NEW n \in Names, DeclareLocal(n)
    PROVE  IInv'
  <1> DEFINE b == made + 1
             d == [Ctx EXCEPT !.decls[n] = made + 1, !.cleaners = <<made + 1>> \o @]
  <1>1. stack # <<>> /\ Become(d) /\ made' = b /\ UNCHANGED <<global, hold_state, freed>>
    BY DEF DeclareLocal
  <1>2. b \in Block /\ b \in 0 .. MaxBlocks
    BY BoundsAssumption DEF DeclareLocal, IInv, TypeOK, Block
  <1>3. /\ Ctx \in Context /\ CtxOrdered(Ctx) /\ CtxKept(Ctx, Blocks(global))
        /\ Declared(Ctx.decls) \subseteq KeptBy(Ctx, 0) \cup Blocks(global)
        /\ Declared(Ctx.export_data) \subseteq Blocks(global)
    BY <1>1, CtxInv
  <1>4. /\ KeptBy(Ctx, 0) \cup Rest \cup Blocks(global) \cup freed = 1 .. made
        /\ KeptBy(Ctx, 0) \cap freed = {} /\ Rest \cap freed = {}
        /\ Blocks(global) \cap KeptBy(Ctx, 0) = {} /\ Blocks(global) \cap Rest = {}
        /\ Blocks(global) \cap freed = {}
        /\ 1 .. (made + 1) = 1 .. made \cup {made + 1} /\ made + 1 \notin 1 .. made
        /\ \A x \in 1 .. made : made + 1 > x
    BY <1>1, Accounts
  <1>5. Ctx.decls \in Decls /\ Ctx.cleaners \in Seq(Block)
    BY <1>3 DEF Context
  <1>6. /\ [Ctx.decls EXCEPT ![n] = b] \in Decls
        /\ Declared([Ctx.decls EXCEPT ![n] = b]) \subseteq {b} \cup Declared(Ctx.decls)
    BY <1>2, <1>5, DeclaredOne
  <1>7. /\ <<b>> \o Ctx.cleaners \in Seq(Block) /\ <<b>> \in Seq(Block)
        /\ Blocks(<<b>>) = {b} /\ Descending(<<b>>)
    BY <1>2, <1>5, OneBefore DEF Blocks, Descending
  <1>8. /\ d \in Context /\ d.vars_stack = Ctx.vars_stack
        /\ d.cleaners = <<b>> \o Ctx.cleaners /\ d.export_data = Ctx.export_data
        /\ d.decls = [Ctx.decls EXCEPT ![n] = b]
    BY <1>3, <1>6, <1>7 DEF Context
  <1> HIDE DEF d
  <1>9. Fronted(d, Ctx, <<b>>)
    BY <1>3, <1>7, <1>8, FrontedFact
  <1>10. KeptBy(d, 0) = {b} \cup KeptBy(Ctx, 0)
    <2>1. KeptBy(d, 0) = Blocks(<<b>>) \cup KeptBy(Ctx, 0)
      BY <1>3, <1>7, <1>8, <1>9, FrontKept
    <2> QED
      BY <1>7, <2>1
  <1>11. Above(Blocks(<<b>>), KeptBy(Ctx, 0))
    BY <1>4, <1>7 DEF Above
  <1>12. CtxOrdered(d)
    BY <1>3, <1>7, <1>8, <1>9, <1>11, FrontOrdered
  <1>13. CtxKept(d, Blocks(global))
    BY <1>3, <1>6, <1>7, <1>8, <1>9, FrontDeclared
  <1>14. /\ KeptBy(d, 0) \cup Rest \cup Blocks(global) \cup freed = 1 .. made'
         /\ (KeptBy(d, 0) \cup Rest) \cap freed = {}
         /\ Blocks(global) \cap (KeptBy(d, 0) \cup Rest \cup freed) = {}
         /\ KeptBy(d, 0) \subseteq KeptBy(Ctx, 0) \cup {made + 1}
    BY <1>1, <1>4, <1>10
  <1>15. global \in Seq(Block) /\ Descending(global) /\ hold_state \in 0 .. MaxHold
    BY DEF IInv, TypeOK, NewestFirst
  <1> HIDE DEF b
  <1> QED
    BY <1>1, <1>2, <1>8, <1>12, <1>13, <1>14, <1>15, BecomeInv

LEMMA DeclareExportedInv ==
    ASSUME IInv, NEW n \in Names, DeclareExported(n)
    PROVE  IInv'
  <1> DEFINE b == made + 1
             d == [Ctx EXCEPT !.decls[n] = made + 1, !.export_data[n] = made + 1]
  <1>1. stack # <<>> /\ Become(d) /\ made' = b /\ UNCHANGED <<hold_state, freed>>
        /\ global' = <<b>> \o global
    BY DEF DeclareExported
  <1>2. b \in Block /\ b \in 0 .. MaxBlocks
    BY BoundsAssumption DEF DeclareExported, IInv, TypeOK, Block
  <1>3. /\ Ctx \in Context /\ CtxOrdered(Ctx) /\ CtxKept(Ctx, Blocks(global))
        /\ Declared(Ctx.decls) \subseteq KeptBy(Ctx, 0) \cup Blocks(global)
        /\ Declared(Ctx.export_data) \subseteq Blocks(global)
    BY <1>1, CtxInv
  <1>4. /\ KeptBy(Ctx, 0) \cup Rest \cup Blocks(global) \cup freed = 1 .. made
        /\ KeptBy(Ctx, 0) \cap freed = {} /\ Rest \cap freed = {}
        /\ Blocks(global) \cap KeptBy(Ctx, 0) = {} /\ Blocks(global) \cap Rest = {}
        /\ Blocks(global) \cap freed = {}
        /\ 1 .. (made + 1) = 1 .. made \cup {made + 1} /\ made + 1 \notin 1 .. made
        /\ \A x \in 1 .. made : made + 1 > x
    BY <1>1, Accounts
  <1>5. Ctx.decls \in Decls /\ Ctx.export_data \in Decls
    BY <1>3 DEF Context
  <1>6. /\ [Ctx.decls EXCEPT ![n] = b] \in Decls
        /\ Declared([Ctx.decls EXCEPT ![n] = b]) \subseteq {b} \cup Declared(Ctx.decls)
        /\ [Ctx.export_data EXCEPT ![n] = b] \in Decls
        /\ Declared([Ctx.export_data EXCEPT ![n] = b]) \subseteq {b} \cup Declared(Ctx.export_data)
    BY <1>2, <1>5, DeclaredOne
  <1>7. global \in Seq(Block) /\ Descending(global) /\ hold_state \in 0 .. MaxHold
    BY DEF IInv, TypeOK, NewestFirst
  <1>8. \A x \in Blocks(global) : b > x
    BY <1>4
  <1>9. /\ global' \in Seq(Block) /\ Blocks(global') = {b} \cup Blocks(global)
        /\ Descending(global')
    BY <1>1, <1>2, <1>7, <1>8, OneBefore
  <1>10. /\ <<>> \o Ctx.cleaners = Ctx.cleaners /\ <<>> \in Seq(Block) /\ Blocks(<<>>) = {}
         /\ Descending(<<>>) /\ Above(Blocks(<<>>), KeptBy(Ctx, 0))
    BY <1>3, NothingInFront
  <1>11. /\ d \in Context /\ d.vars_stack = Ctx.vars_stack
         /\ d.cleaners = <<>> \o Ctx.cleaners
         /\ d.export_data = [Ctx.export_data EXCEPT ![n] = b]
         /\ d.decls = [Ctx.decls EXCEPT ![n] = b]
    BY <1>3, <1>6, <1>10 DEF Context
  <1> HIDE DEF d
  <1>12. Fronted(d, Ctx, <<>>)
    BY <1>3, <1>10, <1>11, FrontedFact
  <1>13. KeptBy(d, 0) = KeptBy(Ctx, 0)
    <2>1. KeptBy(d, 0) = Blocks(<<>>) \cup KeptBy(Ctx, 0)
      BY <1>3, <1>10, <1>11, <1>12, FrontKept
    <2> QED
      BY <1>10, <2>1
  <1>14. CtxOrdered(d)
    BY <1>3, <1>10, <1>11, <1>12, FrontOrdered
  <1>15. CtxKept(d, Blocks(global'))
    <2>1. /\ Blocks(global) \subseteq Blocks(global')
          /\ Declared(d.export_data) \subseteq Blocks(global')
          /\ Declared(d.decls) \subseteq Blocks(<<>>) \cup KeptBy(Ctx, 0) \cup Blocks(global')
      BY <1>3, <1>6, <1>9, <1>11
    <2> QED
      BY <1>3, <1>10, <1>11, <1>12, <2>1, FrontDeclared
  <1>16. /\ KeptBy(d, 0) \cup Rest \cup Blocks(global') \cup freed = 1 .. made'
         /\ (KeptBy(d, 0) \cup Rest) \cap freed = {}
         /\ Blocks(global') \cap (KeptBy(d, 0) \cup Rest \cup freed) = {}
         /\ KeptBy(d, 0) \subseteq KeptBy(Ctx, 0) \cup {made + 1}
         /\ Blocks(global) \subseteq Blocks(global')
    BY <1>1, <1>4, <1>9, <1>13
  <1> HIDE DEF b
  <1> QED
    BY <1>1, <1>2, <1>7, <1>9, <1>11, <1>14, <1>15, <1>16, BecomeInv

LEMMA SetVariablesInv ==
    ASSUME IInv, NEW some \in BOOLEAN, SetVariables(some)
    PROVE  IInv'
  <1> DEFINE d == [Ctx EXCEPT !.some_vars = some]
  <1>1. stack # <<>> /\ Become(d) /\ UNCHANGED <<global, hold_state, made, freed>>
    BY DEF SetVariables
  <1>2. Ctx \in Context /\ CtxOrdered(Ctx) /\ CtxKept(Ctx, Blocks(global))
    BY <1>1, CtxInv
  <1>3. /\ d \in Context /\ d.vars_stack = Ctx.vars_stack /\ d.cleaners = Ctx.cleaners
        /\ d.export_data = Ctx.export_data /\ d.decls = Ctx.decls
    BY <1>2 DEF Context
  <1> HIDE DEF d
  <1>4. /\ Levels(d) = Levels(Ctx)
        /\ \A k \in Levels(Ctx) : Cleaners(d, k) = Cleaners(Ctx, k) /\ DeclsAt(d, k) = DeclsAt(Ctx, k)
    BY <1>3 DEF Levels, Cleaners, DeclsAt
  <1>5. (\A k \in Nat : KeptBy(d, k) = KeptBy(Ctx, k)) /\ CtxOrdered(d)
    BY <1>2, <1>3, <1>4, KeptSame
  <1>6. \A k \in Levels(Ctx) : k \in Nat
    BY <1>2, CtxParts
  <1>7. CtxKept(d, Blocks(global))
    BY <1>2, <1>3, <1>4, <1>5, <1>6 DEF CtxKept
  <1>8. hold_state \in 0 .. MaxHold
    BY DEF IInv, TypeOK
  <1> QED
    BY <1>1, <1>3, <1>5, <1>7, <1>8, SameBlocks

\* push_variables: the scope that was open is the first of vars_stack.
LEMMA PushInv ==
    ASSUME IInv, NEW some \in BOOLEAN, push_variables(some)
    PROVE  IInv'
  <1> DEFINE e == [decls |-> Ctx.decls, cleaners |-> Ctx.cleaners, some_vars |-> Ctx.some_vars]
             d == [Ctx EXCEPT !.cleaners = <<>>, !.some_vars = some, !.vars_stack = <<e>> \o @]
  <1>1. stack # <<>> /\ Become(d) /\ UNCHANGED <<global, hold_state, made, freed>>
    BY DEF push_variables
  <1>2. Ctx \in Context /\ CtxOrdered(Ctx) /\ CtxKept(Ctx, Blocks(global))
    BY <1>1, CtxInv
  <1>3. e \in Saved /\ Ctx.vars_stack \in Seq(Saved)
        /\ e.decls = Ctx.decls /\ e.cleaners = Ctx.cleaners
    BY <1>2 DEF Context, Saved
  <1> HIDE DEF e
  <1>4. /\ <<e>> \o Ctx.vars_stack \in Seq(Saved)
        /\ Len(<<e>> \o Ctx.vars_stack) = Len(Ctx.vars_stack) + 1
        /\ (<<e>> \o Ctx.vars_stack)[1] = e
        /\ \A i \in 1 .. Len(Ctx.vars_stack) :
              (<<e>> \o Ctx.vars_stack)[i + 1] = Ctx.vars_stack[i]
    BY <1>3, BeforeLemma
  <1>5. /\ d \in Context /\ d.vars_stack = <<e>> \o Ctx.vars_stack /\ d.cleaners = <<>>
        /\ d.export_data = Ctx.export_data /\ d.decls = Ctx.decls
    <2> DEFINE v == <<e>> \o Ctx.vars_stack
    <2>1. v \in Seq(Saved)
      BY <1>4
    <2>2. d = [Ctx EXCEPT !.cleaners = <<>>, !.some_vars = some, !.vars_stack = v]
      OBVIOUS
    <2>3. <<>> \in Seq(Block)
      BY EmptySeq
    <2> HIDE DEF v, d
    <2>4. d \in Context
      BY <1>2, <2>1, <2>2, <2>3 DEF Context
    <2>5. /\ d.vars_stack = v /\ d.cleaners = <<>>
          /\ d.export_data = Ctx.export_data /\ d.decls = Ctx.decls
      BY <1>2, <2>2 DEF Context
    <2> QED
      BY <2>4, <2>5 DEF v
  <1> HIDE DEF d
  <1>6. Inside(d, Ctx)
    <2>1. Levels(Ctx) = 0 .. Len(Ctx.vars_stack) /\ Len(Ctx.vars_stack) \in Nat
      BY <1>2, CtxParts
    <2>2. Levels(d) = 0 .. Len(Ctx.vars_stack) + 1
      BY <1>4, <1>5 DEF Levels
    <2>3. ASSUME NEW k \in Levels(Ctx)
          PROVE  Cleaners(d, k + 1) = Cleaners(Ctx, k) /\ DeclsAt(d, k + 1) = DeclsAt(Ctx, k)
      <3>1. k + 1 # 0
        BY <2>1
      <3>2. CASE k = 0
        <4>1. d.vars_stack[k + 1] = e
          BY <1>4, <1>5, <3>2
        <4> QED
          BY <1>3, <3>1, <3>2, <4>1 DEF Cleaners, DeclsAt
      <3>3. CASE k # 0
        <4>1. k \in 1 .. Len(Ctx.vars_stack)
          BY <2>1, <3>3
        <4>2. d.vars_stack[k + 1] = Ctx.vars_stack[k]
          BY <1>4, <1>5, <4>1
        <4> QED
          BY <3>1, <3>3, <4>2 DEF Cleaners, DeclsAt
      <3> QED
        BY <3>2, <3>3
    <2> QED
      BY <2>2, <2>3 DEF Inside
  <1>7. Cleaners(d, 0) = <<>> /\ DeclsAt(d, 0) = DeclsAt(Ctx, 0)
    BY <1>5 DEF Cleaners, DeclsAt
  <1>8. KeptBy(d, 0) = KeptBy(Ctx, 0) /\ CtxOrdered(d) /\ CtxKept(d, Blocks(global))
    BY <1>2, <1>5, <1>6, <1>7, OpenLemma
  <1>9. hold_state \in 0 .. MaxHold
    BY DEF IInv, TypeOK
  <1> QED
    BY <1>1, <1>5, <1>8, <1>9, SameBlocks

\* What is left of a context when its open scope is closed.
Closed(c, some) ==
    [c EXCEPT !.decls = Head(c.vars_stack).decls, !.cleaners = Head(c.vars_stack).cleaners,
              !.some_vars = some, !.vars_stack = Tail(c.vars_stack)]

LEMMA ClosedParts ==
    ASSUME NEW c \in Context, c.vars_stack # <<>>, NEW some \in BOOLEAN
    PROVE  /\ Closed(c, some) \in Context
           /\ Closed(c, some).vars_stack = Tail(c.vars_stack)
           /\ Closed(c, some).cleaners = Head(c.vars_stack).cleaners
           /\ Closed(c, some).export_data = c.export_data
           /\ Inside(c, Closed(c, some))
  <1> DEFINE h == Head(c.vars_stack)
             v == Tail(c.vars_stack)
             d == Closed(c, some)
  <1>1. c.vars_stack \in Seq(Saved)
    BY DEF Context
  <1>2. /\ Len(c.vars_stack) \in Nat \ {0}
        /\ h \in Saved /\ h = c.vars_stack[1]
        /\ v \in Seq(Saved) /\ Len(v) = Len(c.vars_stack) - 1
        /\ \A i \in 1 .. Len(v) : v[i] = c.vars_stack[i + 1]
    <2>1. Len(c.vars_stack) \in Nat \ {0}
      BY <1>1, EmptySeq, LenProperties
    <2>2. c.vars_stack[1] \in Saved
      BY <1>1, <2>1, ElementOfSeq
    <2>3. h = c.vars_stack[1]
      OBVIOUS
    <2>4. /\ v \in Seq(Saved) /\ Len(v) = Len(c.vars_stack) - 1
          /\ \A i \in 1 .. Len(v) : v[i] = c.vars_stack[i + 1]
      BY <1>1, HeadTailProperties
    <2> QED
      BY <2>1, <2>2, <2>3, <2>4
  <1>3. h.decls \in Decls /\ h.cleaners \in Seq(Block)
    BY <1>2 DEF Saved
  <1>4. d = [c EXCEPT !.decls = h.decls, !.cleaners = h.cleaners, !.some_vars = some,
                      !.vars_stack = v]
    BY DEF Closed
  <1> HIDE DEF h, v, d
  <1>5. d \in Context
    BY <1>2, <1>3, <1>4 DEF Context
  <1>6. /\ d.vars_stack = v /\ d.cleaners = h.cleaners /\ d.decls = h.decls
        /\ d.export_data = c.export_data
    BY <1>4 DEF Context
  <1>7. Len(d.vars_stack) + 1 = Len(c.vars_stack)
    BY <1>2, <1>6
  <1>8. ASSUME NEW k \in Levels(d)
        PROVE  Cleaners(c, k + 1) = Cleaners(d, k) /\ DeclsAt(c, k + 1) = DeclsAt(d, k)
    <2>1. k \in 0 .. Len(v) /\ Len(v) \in Nat
      BY <1>2, <1>6 DEF Levels
    <2>2. k + 1 # 0
      BY <2>1
    <2>3. CASE k = 0
      <3>1. c.vars_stack[k + 1] = h
        BY <1>2, <2>3
      <3> QED
        BY <1>6, <2>2, <2>3, <3>1 DEF Cleaners, DeclsAt
    <2>4. CASE k # 0
      <3>1. k \in 1 .. Len(v)
        BY <2>1, <2>4
      <3>2. d.vars_stack[k] = c.vars_stack[k + 1]
        BY <1>2, <1>6, <3>1
      <3> QED
        BY <2>2, <2>4, <3>2 DEF Cleaners, DeclsAt
    <2> QED
      BY <2>3, <2>4
  <1>9. Inside(c, d)
    BY <1>7, <1>8 DEF Inside, Levels
  <1> QED
    BY <1>5, <1>6, <1>9 DEF d, v, h

\* Closing the innermost scope, whatever some is.
LEMMA CtxClosed ==
    ASSUME IInv, stack # <<>>, Ctx.vars_stack # <<>>, NEW some \in BOOLEAN,
           NEW e, e = Closed(Ctx, some)
    PROVE  /\ e \in Context /\ CtxOrdered(e) /\ CtxKept(e, Blocks(global))
           /\ e.vars_stack = Tail(Ctx.vars_stack) /\ e.cleaners = Top.cleaners
           /\ e.export_data = Ctx.export_data
           /\ Ctx.cleaners \in Seq(Block) /\ Descending(Ctx.cleaners)
           /\ KeptBy(Ctx, 0) = Blocks(Ctx.cleaners) \cup KeptBy(e, 0)
           /\ Above(Blocks(Ctx.cleaners), KeptBy(e, 0))
           /\ Blocks(Ctx.cleaners) \cap KeptBy(e, 0) = {}
  <1>1. Ctx \in Context /\ CtxOrdered(Ctx) /\ CtxKept(Ctx, Blocks(global))
    BY CtxInv
  <1>2. /\ e \in Context /\ e.vars_stack = Tail(Ctx.vars_stack)
        /\ e.cleaners = Top.cleaners /\ e.export_data = Ctx.export_data /\ Inside(Ctx, e)
    BY <1>1, ClosedParts DEF Top
  <1>3. Cleaners(Ctx, 0) = Ctx.cleaners
    BY DEF Cleaners
  <1>4. /\ KeptBy(Ctx, 0) = Blocks(Ctx.cleaners) \cup KeptBy(e, 0)
        /\ CtxOrdered(e) /\ Above(Blocks(Ctx.cleaners), KeptBy(e, 0))
        /\ CtxKept(e, Blocks(global))
    BY <1>1, <1>2, <1>3, CloseLemma
  <1>5. Ctx.cleaners \in Seq(Block) /\ 0 \in Levels(Ctx)
    BY <1>1, <1>2, InsideLevels DEF Context
  <1>6. Descending(Ctx.cleaners)
    BY <1>1, <1>3, <1>5 DEF CtxOrdered
  <1>7. KeptBy(e, 0) \subseteq Block
    BY <1>2, KeptType
  <1>8. \A x \in Block : ~(x > x)
    BY BoundsAssumption DEF Block
  <1>9. Blocks(Ctx.cleaners) \cap KeptBy(e, 0) = {}
    BY <1>4, <1>7, <1>8 DEF Above
  <1> QED
    BY <1>1, <1>2, <1>4, <1>5, <1>6, <1>9

\* pop_variables that closes the scope: its cleaners run.
LEMMA CloseInv ==
    ASSUME IInv, stack # <<>>, Ctx.vars_stack # <<>>, NEW some \in BOOLEAN,
           Close(some), UNCHANGED <<global, made>>
    PROVE  IInv'
  <1> DEFINE d == Closed(Ctx, some)
  <1>1. /\ Become(d) /\ freed' = freed \cup Blocks(Ctx.cleaners) /\ UNCHANGED hold_state
    BY DEF Close, Closed, Top
  <1>2. /\ d \in Context /\ CtxOrdered(d) /\ CtxKept(d, Blocks(global))
        /\ KeptBy(Ctx, 0) = Blocks(Ctx.cleaners) \cup KeptBy(d, 0)
        /\ Blocks(Ctx.cleaners) \cap KeptBy(d, 0) = {}
    BY CtxClosed
  <1> HIDE DEF d
  <1>3. /\ KeptBy(Ctx, 0) \cup Rest \cup Blocks(global) \cup freed = 1 .. made
        /\ KeptBy(Ctx, 0) \cap Rest = {}
        /\ KeptBy(Ctx, 0) \cap freed = {} /\ Rest \cap freed = {}
        /\ Blocks(global) \cap KeptBy(Ctx, 0) = {} /\ Blocks(global) \cap Rest = {}
        /\ Blocks(global) \cap freed = {}
    BY Accounts
  <1>4. /\ KeptBy(d, 0) \cup Rest \cup Blocks(global) \cup freed' = 1 .. made
        /\ (KeptBy(d, 0) \cup Rest) \cap freed' = {}
        /\ Blocks(global) \cap (KeptBy(d, 0) \cup Rest \cup freed') = {}
        /\ KeptBy(d, 0) \subseteq KeptBy(Ctx, 0) \cup {made + 1}
    BY <1>1, <1>2, <1>3
  <1>5. /\ global \in Seq(Block) /\ Descending(global) /\ hold_state \in 0 .. MaxHold
        /\ made \in 0 .. MaxBlocks
    BY DEF IInv, TypeOK, NewestFirst
  <1> QED
    BY <1>1, <1>2, <1>4, <1>5, BecomeInv

\* pop_variables while the state is held: the lists are joined.
LEMMA HoldInv ==
    ASSUME IInv, stack # <<>>, Ctx.vars_stack # <<>>, NEW some \in BOOLEAN,
           Hold(some), UNCHANGED <<global, made>>
    PROVE  IInv'
  <1> DEFINE e == Closed(Ctx, some)
             d == [Ctx EXCEPT !.cleaners = @ \o Top.cleaners, !.some_vars = some,
                              !.vars_stack = Tail(@)]
             s == Ctx.cleaners
  <1>1. /\ Become(d) /\ hold_state > 0 /\ hold_state' = hold_state - 1 /\ UNCHANGED freed
    BY DEF Hold
  <1>2. /\ e \in Context /\ CtxOrdered(e) /\ CtxKept(e, Blocks(global))
        /\ e.vars_stack = Tail(Ctx.vars_stack) /\ e.cleaners = Top.cleaners
        /\ e.export_data = Ctx.export_data
        /\ s \in Seq(Block) /\ Descending(s)
        /\ KeptBy(Ctx, 0) = Blocks(s) \cup KeptBy(e, 0)
        /\ Above(Blocks(s), KeptBy(e, 0))
    BY CtxClosed
  <1>3. /\ Ctx \in Context
        /\ Declared(Ctx.decls) \subseteq KeptBy(Ctx, 0) \cup Blocks(global)
        /\ Declared(Ctx.export_data) \subseteq Blocks(global)
    BY CtxInv
  <1>4. /\ d \in Context /\ d.vars_stack = e.vars_stack /\ d.cleaners = s \o e.cleaners
        /\ d.export_data = Ctx.export_data /\ d.decls = Ctx.decls
    <2> DEFINE w == s \o e.cleaners
               v == Tail(Ctx.vars_stack)
    <2>1. w \in Seq(Block)
      <3>1. e.cleaners \in Seq(Block)
        BY <1>2 DEF Context
      <3> QED
        BY <1>2, <3>1, ConcatProperties
    <2>2. v \in Seq(Saved)
      BY <1>2 DEF Context
    <2>3. d = [Ctx EXCEPT !.cleaners = w, !.some_vars = some, !.vars_stack = v]
      BY <1>2
    <2> HIDE DEF w, v, d, e
    <2>4. d \in Context
      BY <1>3, <2>1, <2>2, <2>3 DEF Context
    <2>5. /\ d.vars_stack = v /\ d.cleaners = w
          /\ d.export_data = Ctx.export_data /\ d.decls = Ctx.decls
      BY <1>3, <2>3 DEF Context
    <2> QED
      BY <1>2, <2>4, <2>5 DEF w, v
  <1> HIDE DEF d, e, s
  <1>5. Fronted(d, e, s)
    BY <1>2, <1>4, FrontedFact
  <1>6. KeptBy(d, 0) = KeptBy(Ctx, 0)
    <2>1. KeptBy(d, 0) = Blocks(s) \cup KeptBy(e, 0)
      BY <1>2, <1>4, <1>5, FrontKept
    <2> QED
      BY <1>2, <2>1
  <1>7. CtxOrdered(d)
    BY <1>2, <1>4, <1>5, FrontOrdered
  <1>8. CtxKept(d, Blocks(global))
    <2>1. /\ Declared(d.export_data) \subseteq Blocks(global)
          /\ Declared(d.decls) \subseteq Blocks(s) \cup KeptBy(e, 0) \cup Blocks(global)
      BY <1>2, <1>3, <1>4
    <2> QED
      BY <1>2, <1>4, <1>5, <2>1, FrontDeclared
  <1>9. hold_state' \in 0 .. MaxHold
    BY <1>1, BoundsAssumption DEF IInv, TypeOK
  <1> QED
    BY <1>1, <1>4, <1>6, <1>7, <1>8, <1>9, SameBlocks

LEMMA PopInv ==
    ASSUME IInv, NEW some \in BOOLEAN, pop_variables(some)
    PROVE  IInv'
  BY CloseInv, HoldInv DEF pop_variables

\* v_restore_variables: what Top holds is whether there were variables.
LEMMA RestoreInv ==
    ASSUME IInv, v_restore_variables
    PROVE  IInv'
  <1>1. stack # <<>> /\ Ctx.vars_stack # <<>> /\ pop_variables(Top.some_vars)
    BY DEF v_restore_variables
  <1>2. Ctx.vars_stack \in Seq(Saved)
    BY <1>1, CtxInv DEF Context
  <1>3. Top \in Saved
    <2>1. Len(Ctx.vars_stack) \in Nat \ {0}
      BY <1>1, <1>2, EmptySeq, LenProperties
    <2>2. Ctx.vars_stack[1] \in Saved
      BY <1>2, <2>1, ElementOfSeq
    <2> QED
      BY <2>2 DEF Top
  <1>4. Top.some_vars \in BOOLEAN
    BY <1>3 DEF Saved
  <1> QED
    BY <1>1, <1>4, PopInv

LEMMA SaveInv ==
    ASSUME IInv, v_save_variables
    PROVE  IInv'
  <1>1. Ctx.some_vars \in BOOLEAN
    BY CtxInv DEF Context, v_save_variables
  <1> QED
    BY <1>1, PushInv DEF v_save_variables

LEMMA FunctionInv ==
    ASSUME IInv, prepare_function \/ finish_function
    PROVE  IInv'
  BY PushInv, PopInv DEF prepare_function, finish_function

\* v_hold_compilation_state, and steps that change nothing.
LEMMA HeldInv ==
    ASSUME IInv, hold_state' \in 0 .. MaxHold, UNCHANGED <<stack, global, made, freed>>
    PROVE  IInv'
  <1>1. TypeOK'
    BY DEF IInv, TypeOK
  <1>2. Blocks(global)' = Blocks(global)
    BY DEF Blocks
  <1>3. Local' = Local
    BY DEF Local
  <1>4. CleanedOnce'
    BY <1>2, <1>3 DEF IInv, CleanedOnce
  <1>5. NewestFirst'
    BY DEF IInv, NewestFirst
  <1>6. Kept'
    BY <1>2 DEF IInv, Kept
  <1> QED
    BY <1>1, <1>4, <1>5, <1>6 DEF IInv

\* A context without scopes keeps what is in its own list.
LEMMA OneLevel ==
    ASSUME NEW c \in Context, c.vars_stack = <<>>
    PROVE  Levels(c) = {0} /\ KeptBy(c, 0) = Blocks(c.cleaners) /\ KeptBy(c, 0 + 1) = {}
  <1>1. Levels(c) = {0}
    BY DEF Levels
  <1> QED
    BY <1>1 DEF KeptBy, Cleaners

\* A context that was just made.
LEMMA NewContextParts ==
    ASSUME NEW g
    PROVE  /\ NewContext \in Context /\ KeptBy(NewContext, 0) = {}
           /\ CtxOrdered(NewContext) /\ CtxKept(NewContext, g)
  <1>1. NoDecls \in Decls /\ Declared(NoDecls) = {}
    BY DEF NoDecls, Decls, Declared
  <1>2. <<>> \in Seq(Block) /\ <<>> \in Seq(Saved)
    BY EmptySeq
  <1>3. /\ NewContext.vars_stack = <<>> /\ NewContext.cleaners = <<>>
        /\ NewContext.decls = NoDecls /\ NewContext.export_data = NoDecls
    BY DEF NewContext
  <1>4. NewContext \in Context
    BY <1>1, <1>2 DEF NewContext, Context
  <1>5. Blocks(<<>>) = {} /\ Descending(<<>>)
    BY DEF Blocks, Descending
  <1>6. Levels(NewContext) = {0} /\ KeptBy(NewContext, 0) = {}
    BY <1>3, <1>4, <1>5, OneLevel
  <1>7. Cleaners(NewContext, 0) = <<>> /\ DeclsAt(NewContext, 0) = NoDecls
    BY <1>3 DEF Cleaners, DeclsAt
  <1>8. CtxOrdered(NewContext)
    BY <1>5, <1>6, <1>7 DEF CtxOrdered, Above
  <1>9. CtxKept(NewContext, g)
    BY <1>1, <1>3, <1>6, <1>7 DEF CtxKept
  <1> QED
    BY <1>4, <1>6, <1>8, <1>9

\* v_import_helper: the new context keeps nothing yet.
LEMMA ImportBeginInv ==
    ASSUME IInv, ImportBegin
    PROVE  IInv'
  <1>1. /\ NewContext \in Context /\ KeptBy(NewContext, 0) = {}
        /\ CtxOrdered(NewContext) /\ CtxKept(NewContext, Blocks(global))
    BY NewContextParts
  <1>2. stack \in Seq(Context) /\ stack' = <<NewContext>> \o stack
        /\ UNCHANGED <<global, hold_state, made, freed>>
    BY DEF IInv, TypeOK, ImportBegin
  <1>3. /\ stack' \in Seq(Context) /\ stack'[1] = NewContext
        /\ \A i \in 1 .. Len(stack) : stack'[i + 1] = stack[i]
        /\ DOMAIN stack' = 1 .. (Len(stack) + 1)
    BY <1>1, <1>2, BeforeLemma
  <1>4. Len(stack) \in Nat /\ DOMAIN stack = 1 .. Len(stack)
    BY <1>2, LenProperties
  <1>5. ASSUME NEW i \in DOMAIN stack', i # 1
        PROVE  i - 1 \in DOMAIN stack /\ stack'[i] = stack[i - 1]
    <2>1. i - 1 \in 1 .. Len(stack) /\ i - 1 + 1 = i
      BY <1>3, <1>4, <1>5
    <2> QED
      BY <1>3, <1>4, <2>1
  <1>6. \A i \in DOMAIN stack : i + 1 \in DOMAIN stack' /\ stack'[i + 1] = stack[i]
    BY <1>3, <1>4
  <1>7. Local' = Local
    <2>1. ASSUME NEW x \in Local PROVE x \in Local'
      BY <1>6 DEF Local
    <2>2. ASSUME NEW x \in Local' PROVE x \in Local
      <3>1. PICK i \in DOMAIN stack' : x \in KeptBy(stack'[i], 0)
        BY DEF Local
      <3>2. i # 1
        BY <1>1, <1>3, <3>1
      <3> QED
        BY <1>5, <3>1, <3>2 DEF Local
    <2> QED
      BY <2>1, <2>2
  <1>8. Blocks(global)' = Blocks(global)
    BY <1>2 DEF Blocks
  <1>9. CleanedOnce'
    BY <1>2, <1>7, <1>8 DEF IInv, CleanedOnce
  <1>10. TypeOK'
    BY <1>2, <1>3 DEF IInv, TypeOK
  <1>11. /\ \A i \in DOMAIN stack : CtxOrdered(stack[i])
         /\ \A i, j \in DOMAIN stack : i < j => Above(KeptBy(stack[i], 0), KeptBy(stack[j], 0))
         /\ Descending(global)
    BY InOrder DEF IInv
  <1>12. \A i \in DOMAIN stack' : CtxOrdered(stack'[i])
    BY <1>1, <1>3, <1>5, <1>11
  <1>13. ASSUME NEW i \in DOMAIN stack', NEW j \in DOMAIN stack', i < j
         PROVE  Above(KeptBy(stack'[i], 0), KeptBy(stack'[j], 0))
    <2>1. CASE i = 1
      BY <1>1, <1>3, <2>1 DEF Above
    <2>2. CASE i # 1
      <3>1. j # 1 /\ i - 1 < j - 1
        BY <1>3, <1>4, <1>13, <2>2
      <3> QED
        BY <1>5, <1>11, <2>2, <3>1
    <2> QED
      BY <2>1, <2>2
  <1>14. NewestFirst'
    BY <1>2, <1>11, <1>12, <1>13 DEF NewestFirst, CtxOrdered
  <1>15. Kept'
    <2>1. \A i \in DOMAIN stack' : CtxKept(stack'[i], Blocks(global))
      BY <1>1, <1>3, <1>5 DEF IInv, Kept
    <2> QED
      BY <1>8, <2>1 DEF Kept
  <1> QED
    BY <1>9, <1>10, <1>14, <1>15 DEF IInv

\* The importing context with what was exported.
Given(importer, data, passed_on) ==
    [importer EXCEPT !.decls = Insert(@, data),
                     !.export_data = IF passed_on THEN Insert(@, data) ELSE @]

LEMMA GivenParts ==
    ASSUME NEW c \in Context, NEW data \in Decls, NEW passed_on \in BOOLEAN, NEW g,
           Declared(data) \subseteq g, CtxOrdered(c), CtxKept(c, g)
    PROVE  /\ Given(c, data, passed_on) \in Context
           /\ KeptBy(Given(c, data, passed_on), 0) = KeptBy(c, 0)
           /\ CtxOrdered(Given(c, data, passed_on)) /\ CtxKept(Given(c, data, passed_on), g)
  <1> DEFINE d == Given(c, data, passed_on)
             x == IF passed_on THEN Insert(c.export_data, data) ELSE c.export_data
             y == Insert(c.decls, data)
  <1>1. c.decls \in Decls /\ c.export_data \in Decls
    BY DEF Context
  <1>2. /\ Insert(c.export_data, data) \in Decls
        /\ Declared(Insert(c.export_data, data)) \subseteq Declared(c.export_data) \cup Declared(data)
    BY <1>1, DeclaredInserted
  <1>3. y \in Decls /\ Declared(y) \subseteq Declared(c.decls) \cup Declared(data)
    BY <1>1, DeclaredInserted
  <1>4. x \in Decls /\ Declared(x) \subseteq Declared(c.export_data) \cup Declared(data)
    BY <1>1, <1>2
  <1>5. d = [c EXCEPT !.decls = y, !.export_data = x]
    BY DEF Given
  <1>6. /\ <<>> \o c.cleaners = c.cleaners /\ <<>> \in Seq(Block) /\ Blocks(<<>>) = {}
        /\ Descending(<<>>) /\ Above(Blocks(<<>>), KeptBy(c, 0))
    BY NothingInFront
  <1> HIDE DEF d, x, y
  <1>7. d \in Context
    BY <1>3, <1>4, <1>5 DEF Context
  <1>8. /\ d.vars_stack = c.vars_stack /\ d.cleaners = <<>> \o c.cleaners
        /\ d.decls = y /\ d.export_data = x
    BY <1>5, <1>6 DEF Context
  <1>9. Fronted(d, c, <<>>)
    BY <1>6, <1>7, <1>8, FrontedFact
  <1>10. KeptBy(d, 0) = Blocks(<<>>) \cup KeptBy(c, 0)
    BY <1>6, <1>7, <1>9, FrontKept
  <1>11. CtxOrdered(d)
    BY <1>6, <1>7, <1>9, FrontOrdered
  <1>12. 0 \in Levels(c)
    <2>1. Levels(c) = 0 .. Len(c.vars_stack) /\ Len(c.vars_stack) \in Nat
      BY CtxParts
    <2> QED
      BY <2>1
  <1>13. Declared(c.decls) \subseteq KeptBy(c, 0) \cup g /\ Declared(c.export_data) \subseteq g
    <2>1. DeclsAt(c, 0) = c.decls
      BY DEF DeclsAt
    <2> QED
      BY <1>12, <2>1 DEF CtxKept
  <1>14. /\ Declared(d.export_data) \subseteq g
         /\ Declared(d.decls) \subseteq Blocks(<<>>) \cup KeptBy(c, 0) \cup g
    BY <1>3, <1>4, <1>8, <1>13
  <1>15. CtxKept(d, g)
    BY <1>6, <1>7, <1>9, <1>14, FrontDeclared
  <1>16. KeptBy(d, 0) = KeptBy(c, 0)
    BY <1>6, <1>10
  <1> QED
    BY <1>7, <1>11, <1>15, <1>16 DEF d

\* The end of an import: the cleaners of its context run, the others stay.
LEMMA ImportEndInv ==
    ASSUME IInv, NEW passed_on \in BOOLEAN, ImportEnd(passed_on)
    PROVE  IInv'
  <1> DEFINE d == Given(stack[2], Ctx.export_data, passed_on)
             t == Tail(Tail(stack))
  <1>1. /\ Len(stack) > 1 /\ Ctx.vars_stack = <<>>
        /\ freed' = freed \cup Blocks(Ctx.cleaners)
        /\ stack' = <<d>> \o t
        /\ UNCHANGED <<global, hold_state, made>>
    BY DEF ImportEnd, Given
  <1>2. stack \in Seq(Context) /\ stack # <<>>
    BY <1>1 DEF IInv, TypeOK
  <1>3. /\ Len(stack) \in Nat \ {0} /\ DOMAIN stack = 1 .. Len(stack) /\ Ctx = stack[1]
        /\ \A i \in DOMAIN stack : stack[i] \in Context
    BY <1>2, StackParts DEF IInv
  <1>4. 1 \in DOMAIN stack /\ 2 \in DOMAIN stack
    BY <1>1, <1>3
  <1>5. /\ \A i \in DOMAIN stack : CtxOrdered(stack[i])
        /\ \A i, j \in DOMAIN stack : i < j => Above(KeptBy(stack[i], 0), KeptBy(stack[j], 0))
        /\ Descending(global)
    BY InOrder DEF IInv
  <1>6. \A i \in DOMAIN stack : CtxKept(stack[i], Blocks(global))
    BY DEF IInv, Kept
  <1>7. Ctx.export_data \in Decls /\ Declared(Ctx.export_data) \subseteq Blocks(global)
    BY <1>2, CtxInv, CtxParts
  <1>8. /\ d \in Context /\ KeptBy(d, 0) = KeptBy(stack[2], 0)
        /\ CtxOrdered(d) /\ CtxKept(d, Blocks(global))
    BY <1>3, <1>4, <1>5, <1>6, <1>7, GivenParts
  <1> HIDE DEF d
  <1>9. /\ t \in Seq(Context) /\ Len(t) = Len(stack) - 2
        /\ \A i \in 1 .. Len(t) : t[i] = stack[i + 2]
    <2> DEFINE r == Tail(stack)
               u == Tail(r)
    <2>1. /\ r \in Seq(Context) /\ Len(r) = Len(stack) - 1
          /\ \A i \in 1 .. Len(r) : r[i] = stack[i + 1]
      BY <1>2, HeadTailProperties
    <2> HIDE DEF r
    <2>2. r # <<>>
      <3>1. Len(r) = Len(stack) - 1 /\ Len(r) # 0
        BY <1>1, <1>3, <2>1
      <3>2. Len(<<>>) = 0
        OBVIOUS
      <3> QED
        BY <3>1, <3>2
    <2>3. /\ u \in Seq(Context) /\ Len(u) = Len(r) - 1
          /\ \A i \in 1 .. Len(u) : u[i] = r[i + 1]
      BY <2>1, <2>2, HeadTailProperties
    <2> HIDE DEF u
    <2>4. ASSUME NEW i \in 1 .. Len(u) PROVE u[i] = stack[i + 2]
      <3>1. i + 1 \in 1 .. Len(r) /\ i + 1 + 1 = i + 2
        BY <1>3, <2>1, <2>3
      <3> QED
        BY <2>1, <2>3, <3>1
    <2>5. Len(u) = Len(stack) - 2
      BY <1>3, <2>1, <2>3
    <2>6. t = u
      BY DEF r, u
    <2> QED
      BY <2>3, <2>4, <2>5, <2>6
  <1> HIDE DEF t
  <1>10. /\ stack' \in Seq(Context) /\ stack'[1] = d
         /\ \A i \in 1 .. Len(t) : stack'[i + 1] = t[i]
         /\ DOMAIN stack' = 1 .. (Len(t) + 1)
    BY <1>1, <1>8, <1>9, BeforeLemma
  <1>11. DOMAIN stack' = 1 .. Len(stack) - 1
    BY <1>3, <1>9, <1>10
  <1>12. ASSUME NEW i \in DOMAIN stack', i # 1
         PROVE  i + 1 \in DOMAIN stack /\ stack'[i] = stack[i + 1]
    <2>1. i - 1 \in 1 .. Len(t) /\ i - 1 + 1 = i /\ i - 1 + 2 = i + 1
      BY <1>3, <1>9, <1>11, <1>12
    <2>2. i + 1 \in DOMAIN stack
      BY <1>3, <1>11
    <2> QED
      BY <1>9, <1>10, <2>1, <2>2
  <1>13. ASSUME NEW i \in DOMAIN stack'
         PROVE  /\ i + 1 \in DOMAIN stack
                /\ KeptBy(stack'[i], 0) = KeptBy(stack[i + 1], 0)
                /\ CtxOrdered(stack'[i]) /\ CtxKept(stack'[i], Blocks(global))
    <2>1. CASE i = 1
      BY <1>4, <1>8, <1>10, <2>1
    <2>2. CASE i # 1
      BY <1>5, <1>6, <1>12, <2>2
    <2> QED
      BY <2>1, <2>2
  <1>14. Local' = Rest
    <2>1. ASSUME NEW x \in Local' PROVE x \in Rest
      <3>1. PICK i \in DOMAIN stack' : x \in KeptBy(stack'[i], 0)
        BY DEF Local
      <3>2. i + 1 \in 2 .. Len(stack)
        BY <1>3, <1>11
      <3> QED
        BY <1>13, <3>1, <3>2 DEF Rest
    <2>2. ASSUME NEW x \in Rest PROVE x \in Local'
      <3>1. PICK i \in 2 .. Len(stack) : x \in KeptBy(stack[i], 0)
        BY DEF Rest
      <3>2. i - 1 \in DOMAIN stack' /\ i - 1 + 1 = i
        BY <1>3, <1>11
      <3>3. x \in KeptBy(stack'[i - 1], 0)
        BY <1>13, <3>1, <3>2
      <3> QED
        BY <3>2, <3>3 DEF Local
    <2> QED
      BY <2>1, <2>2
  <1>15. KeptBy(Ctx, 0) = Blocks(Ctx.cleaners)
    BY <1>1, <1>3, <1>4, OneLevel
  <1>16. Blocks(global)' = Blocks(global)
    BY <1>1 DEF Blocks
  <1>17. /\ KeptBy(Ctx, 0) \cup Rest \cup Blocks(global) \cup freed = 1 .. made
         /\ KeptBy(Ctx, 0) \cap Rest = {}
         /\ KeptBy(Ctx, 0) \cap freed = {} /\ Rest \cap freed = {}
         /\ Blocks(global) \cap KeptBy(Ctx, 0) = {} /\ Blocks(global) \cap Rest = {}
         /\ Blocks(global) \cap freed = {}
    BY <1>2, Accounts
  <1>18. CleanedOnce'
    BY <1>1, <1>14, <1>15, <1>16, <1>17 DEF CleanedOnce
  <1>19. TypeOK'
    BY <1>1, <1>10, <1>15, <1>17 DEF IInv, TypeOK
  <1>20. NewestFirst'
    <2>1. ASSUME NEW i \in DOMAIN stack', NEW j \in DOMAIN stack', i < j
          PROVE  Above(KeptBy(stack'[i], 0), KeptBy(stack'[j], 0))
      <3>1. i + 1 < j + 1
        BY <1>3, <1>11, <2>1
      <3> QED
        BY <1>5, <1>13, <3>1
    <2> QED
      BY <1>1, <1>5, <1>13, <2>1 DEF NewestFirst, CtxOrdered
  <1>21. Kept'
    BY <1>13, <1>16 DEF Kept
  <1> QED
    BY <1>18, <1>19, <1>20, <1>21 DEF IInv

\* The end of the process.
LEMMA TerminateInv ==
    ASSUME IInv, Terminate
    PROVE  IInv'
  <1>1. /\ Len(stack) = 1 /\ Ctx.vars_stack = <<>>
        /\ freed' = freed \cup Blocks(Ctx.cleaners) \cup Blocks(global)
        /\ stack' = <<>> /\ global' = <<>> /\ UNCHANGED <<hold_state, made>>
    BY DEF Terminate
  <1>2. stack # <<>>
    <2>1. Len(<<>>) # 1
      OBVIOUS
    <2> QED
      BY <1>1, <2>1
  <1>3. KeptBy(Ctx, 0) = Blocks(Ctx.cleaners)
    BY <1>1, <1>2, CtxInv, OneLevel
  <1>4. /\ KeptBy(Ctx, 0) \cup Rest \cup Blocks(global) \cup freed = 1 .. made
    BY <1>2, Accounts
  <1>5. Rest = {}
    BY <1>1 DEF Rest
  <1>6. DOMAIN stack' = {}
    BY <1>1
  <1>7. Local' = {} /\ Blocks(global)' = {} /\ Descending(global)'
    BY <1>1, <1>6 DEF Local, Blocks, Descending
  <1>8. freed' = 1 .. made
    BY <1>1, <1>3, <1>4, <1>5
  <1>9. CleanedOnce'
    BY <1>1, <1>7, <1>8 DEF CleanedOnce
  <1>10. TypeOK'
    <2>1. stack' \in Seq(Context) /\ global' \in Seq(Block)
      BY <1>1, EmptySeq
    <2> QED
      BY <1>1, <1>8, <2>1 DEF IInv, TypeOK
  <1>11. NewestFirst' /\ Kept'
    BY <1>6, <1>7 DEF NewestFirst, Kept
  <1> QED
    BY <1>9, <1>10, <1>11 DEF IInv

(***************************************************************************)
(* The theorems.                                                            *)
(***************************************************************************)

LEMMA InitInv ==
    ASSUME Init
    PROVE  IInv
  <1>1. /\ NewContext \in Context /\ KeptBy(NewContext, 0) = {}
        /\ CtxOrdered(NewContext) /\ CtxKept(NewContext, Blocks(global))
    BY NewContextParts
  <1>2. /\ stack = <<NewContext>> /\ global = <<>> /\ hold_state = 0 /\ made = 0 /\ freed = {}
    BY DEF Init
  <1>3. stack \in Seq(Context) /\ DOMAIN stack = {1} /\ stack[1] = NewContext
    BY <1>1, <1>2
  <1>4. Local = {} /\ Blocks(global) = {} /\ Descending(global)
    BY <1>1, <1>2, <1>3 DEF Local, Blocks, Descending
  <1>5. global \in Seq(Block)
    BY <1>2, EmptySeq
  <1>6. TypeOK
    BY <1>2, <1>3, <1>5, BoundsAssumption DEF TypeOK
  <1>7. CleanedOnce
    BY <1>2, <1>4 DEF CleanedOnce
  <1>8. NewestFirst
    BY <1>1, <1>3, <1>4, InOrder
  <1>9. Kept
    BY <1>1, <1>3 DEF Kept
  <1> QED
    BY <1>6, <1>7, <1>8, <1>9 DEF IInv

LEMMA NextInv ==
    ASSUME IInv, [Next]_vars
    PROVE  IInv'
  <1>1. ASSUME NEW n \in Names, DeclareLocal(n) \/ DeclareExported(n) PROVE IInv'
    BY <1>1, DeclareLocalInv, DeclareExportedInv
  <1>2. ASSUME NEW some \in BOOLEAN, SetVariables(some) PROVE IInv'
    BY <1>2, SetVariablesInv
  <1>3. CASE v_save_variables \/ v_restore_variables
    BY <1>3, SaveInv, RestoreInv
  <1>4. CASE prepare_function \/ finish_function
    BY <1>4, FunctionInv
  <1>5. ASSUME NEW n \in 0 .. MaxHold, v_hold_compilation_state(n) PROVE IInv'
    BY <1>5, HeldInv DEF v_hold_compilation_state
  <1>6. CASE ImportBegin
    BY <1>6, ImportBeginInv
  <1>7. ASSUME NEW passed_on \in BOOLEAN, ImportEnd(passed_on) PROVE IInv'
    BY <1>7, ImportEndInv
  <1>8. CASE Terminate
    BY <1>8, TerminateInv
  <1>9. CASE UNCHANGED vars
    <2>1. hold_state' \in 0 .. MaxHold /\ UNCHANGED <<stack, global, made, freed>>
      BY <1>9 DEF vars, IInv, TypeOK
    <2> QED
      BY <2>1, HeldInv
  <1> QED
    BY <1>1, <1>2, <1>3, <1>4, <1>5, <1>6, <1>7, <1>8, <1>9 DEF Next

LEMMA Invariant == Spec => []IInv
  <1>1. Init => IInv
    BY InitInv
  <1>2. IInv /\ [Next]_vars => IInv'
    BY NextInv
  <1> QED
    BY <1>1, <1>2, PTL DEF Spec

\* The variables of the compilation state keep their types.
THEOREM TypeCorrect == Spec => []TypeOK
  <1>1. IInv => TypeOK
    BY DEF IInv
  <1> QED
    BY <1>1, Invariant, PTL

\* The cleaner of a block runs once: whatever scopes were held, joined or closed
\* and whatever contexts ended, each block waits in one list or has been freed.
THEOREM CleanersRunOnce == Spec => []CleanedOnce
  <1>1. IInv => CleanedOnce
    BY DEF IInv
  <1> QED
    BY <1>1, Invariant, PTL

\* The cleaners that wait are in the reverse of the order in which their blocks
\* were made: in each list, over the scopes of a context, over the contexts.
THEOREM InReverse == Spec => []NewestFirst
  <1>1. IInv => NewestFirst
    BY DEF IInv
  <1> QED
    BY <1>1, Invariant, PTL

\* What is declared has not been freed: not in a scope that is open, in one that
\* pop_variables brings back, or in what the importers of a context are given.
THEOREM NothingDangles == Spec => []NoDangling
  <1>1. ASSUME IInv PROVE NoDangling
    <2>1. ASSUME NEW i \in DOMAIN stack
          PROVE  /\ Declared(stack[i].export_data) \cap freed = {}
                 /\ \A k \in Levels(stack[i]) : Declared(DeclsAt(stack[i], k)) \cap freed = {}
      <3>1. stack[i] \in Context /\ CtxKept(stack[i], Blocks(global))
        <4>1. stack # <<>>
          BY <2>1
        <4> QED
          BY <1>1, <4>1, StackParts DEF IInv, Kept
      <3>2. KeptBy(stack[i], 0) \subseteq Local
        BY DEF Local
      <3>3. Local \cap freed = {} /\ Blocks(global) \cap freed = {}
        BY <1>1 DEF IInv, CleanedOnce
      <3>4. \A k \in Levels(stack[i]) : KeptBy(stack[i], k) \subseteq KeptBy(stack[i], 0)
        <4>1. \A k \in Levels(stack[i]) : k \in Nat
          BY <3>1, CtxParts
        <4> QED
          BY <3>1, <4>1, KeptType
      <3> QED
        BY <3>1, <3>2, <3>3, <3>4 DEF CtxKept
    <2> QED
      BY <2>1 DEF NoDangling
  <1>2. IInv => NoDangling
    BY <1>1
  <1> QED
    BY <1>2, Invariant, PTL

=============================================================================
