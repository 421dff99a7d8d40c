-------------------------- MODULE ConversionsProofs --------------------------
(***************************************************************************)
(* Theorems about Conversions, for all types and values.                    *)
(***************************************************************************)
EXTENDS Conversions, WellFoundedInduction, SequenceTheorems, TLAPS

(***************************************************************************)
(* Induction and recursion over the natural numbers.                        *)
(***************************************************************************)

\* A set of numbers has a least one.
LEMMA LeastOne ==
    ASSUME NEW X \in SUBSET Nat, X # {}
    PROVE  \E i \in X : \A j \in X : i <= j
  <1> DEFINE R == {ss \in Nat \X Nat : ss[1] < ss[2]}
  <1>1. \A i, j \in Nat : <<i, j>> \in R <=> i < j
    OBVIOUS
  <1>2. IsWellFoundedOn(R, Nat)
    BY NatLessThanWellFounded DEF OpToRel, IsWellFoundedOn
  <1> HIDE DEF R
  <1>3. PICK i \in X : \A j \in X : ~(<<j, i>> \in R)
    BY <1>2, WFMin
  <1>4. \A j \in X : ~(j < i)
    BY <1>1, <1>3
  <1> QED
    BY <1>3, <1>4

\* A set with 0, and with each number the next, has all numbers.
LEMMA Induction ==
    ASSUME NEW X \in SUBSET Nat, 0 \in X, \A n \in X : n + 1 \in X
    PROVE  X = Nat
  <1>1. SUFFICES ASSUME Nat \ X # {} PROVE FALSE
    OBVIOUS
  <1>2. PICK i \in Nat \ X : \A j \in Nat \ X : i <= j
    BY <1>1, LeastOne
  <1>3. i - 1 \in Nat /\ i - 1 \notin Nat \ X
    BY <1>2
  <1>4. i - 1 + 1 = i
    BY <1>2
  <1> QED
    BY <1>2, <1>3, <1>4

\* f is what step makes of 0 and of what it made of the number before.
Steps(f, n, f0, step) ==
    /\ DOMAIN f = 0 .. n
    /\ f[0] = f0
    /\ \A i \in 1 .. n : f[i] = step[f[i - 1]]

AllSteps(f, f0, step) == f[0] = f0 /\ \A n \in Nat \ {0} : f[n] = step[f[n - 1]]

\* A function can be given by its value at 0 and a step.
LEMMA Recursion ==
    ASSUME NEW S, NEW f0 \in S, NEW step \in [S -> S]
    PROVE  \E f \in [Nat -> S] : AllSteps(f, f0, step)
  <1> DEFINE X == {n \in Nat : \E f : Steps(f, n, f0, step) /\ f[n] \in S}
  <1>1. 0 \in X
    <2>1. Steps([i \in 0 .. 0 |-> f0], 0, f0, step)
      BY DEF Steps
    <2>2. [i \in 0 .. 0 |-> f0][0] \in S
      OBVIOUS
    <2> QED
      BY <2>1, <2>2
  <1>2. ASSUME NEW n \in X PROVE n + 1 \in X
    <2>1. PICK f : Steps(f, n, f0, step) /\ f[n] \in S
      OBVIOUS
    <2> DEFINE g == [i \in 0 .. n + 1 |-> IF i = n + 1 THEN step[f[n]] ELSE f[i]]
    <2>2. g[n + 1] \in S /\ g[n + 1] = step[g[n]] /\ g[0] = f0 /\ DOMAIN g = 0 .. n + 1
      BY <2>1 DEF Steps
    <2>3. ASSUME NEW i \in 1 .. n PROVE g[i] = step[g[i - 1]]
      BY <2>1 DEF Steps
    <2>4. n \in Nat /\ \A i \in 1 .. n + 1 : i \in 1 .. n \/ i = n + 1
      OBVIOUS
    <2> HIDE DEF g, X
    <2>5. ASSUME NEW i \in 1 .. n + 1 PROVE g[i] = step[g[i - 1]]
      <3>1. n + 1 - 1 = n
        BY <2>4
      <3> QED
        BY <2>2, <2>3, <2>4, <3>1
    <2>6. Steps(g, n + 1, f0, step)
      BY <2>2, <2>5 DEF Steps
    <2> QED
      BY <2>2, <2>4, <2>6 DEF X
  <1>3. X = Nat
    <2> HIDE DEF X
    <2>1. X \in SUBSET Nat
      BY DEF X
    <2> QED
      BY <1>1, <1>2, <2>1, Induction
  <1>4. ASSUME NEW m \in Nat, NEW n \in Nat, m <= n, NEW f, NEW g,
               Steps(f, m, f0, step), Steps(g, n, f0, step)
        PROVE  f[m] = g[m]
    <2> DEFINE Y == {i \in Nat : i <= m => f[i] = g[i]}
    <2>1. 0 \in Y
      BY <1>4 DEF Steps
    <2>2. ASSUME NEW i \in Y PROVE i + 1 \in Y
      BY <1>4 DEF Steps
    <2>3. Y = Nat
      <3> HIDE DEF Y
      <3>1. Y \in SUBSET Nat
        BY DEF Y
      <3> QED
        BY <2>1, <2>2, <3>1, Induction
    <2> QED
      BY <2>3
  <1> DEFINE upto(n) == CHOOSE f : Steps(f, n, f0, step) /\ f[n] \in S
  <1>5. \A n \in Nat : Steps(upto(n), n, f0, step) /\ upto(n)[n] \in S
    BY <1>3
  <1> HIDE DEF upto
  <1> DEFINE h == [n \in Nat |-> upto(n)[n]]
  <1>6. h \in [Nat -> S]
    BY <1>5
  <1>7. ASSUME NEW n \in Nat PROVE IF n = 0 THEN h[n] = f0 ELSE h[n] = step[h[n - 1]]
    <2>1. CASE n = 0
      BY <1>5, <2>1 DEF Steps
    <2>2. CASE n # 0
      <3>1. n - 1 \in Nat /\ n - 1 <= n /\ n \in 1 .. n
        BY <2>2
      <3>2. upto(n)[n] = step[upto(n)[n - 1]]
        BY <1>5, <3>1 DEF Steps
      <3>3. upto(n)[n - 1] = upto(n - 1)[n - 1]
        BY <1>4, <1>5, <3>1
      <3> QED
        BY <2>2, <3>1, <3>2, <3>3
    <2> QED
      BY <2>1, <2>2
  <1> QED
    BY <1>6, <1>7 DEF AllSteps

(***************************************************************************)
(* Powers of two, and numbers modulo a power of two.                        *)
(***************************************************************************)

LEMMA Pow2Def ==
    /\ Pow2(0) = 1
    /\ \A w \in Nat : Pow2(w) \in Nat \ {0} /\ Pow2(w + 1) = 2 * Pow2(w)
  <1>1. PICK one \in Nat, step \in [Nat -> Nat] : one = 1 /\ \A k \in Nat : step[k] = 2 * k
    <2>1. 1 \in Nat /\ [k \in Nat |-> 2 * k] \in [Nat -> Nat]
      OBVIOUS
    <2> QED
      BY <2>1
  <1>2. PICK f \in [Nat -> Nat] : f = [n \in Nat |-> IF n = 0 THEN 1 ELSE 2 * f[n - 1]]
    <2>1. PICK f \in [Nat -> Nat] : AllSteps(f, one, step)
      BY Recursion
    <2>2. ASSUME NEW n \in Nat PROVE f[n] = IF n = 0 THEN 1 ELSE 2 * f[n - 1]
      <3>1. n # 0 => n - 1 \in Nat
        OBVIOUS
      <3>2. n # 0 => step[f[n - 1]] = 2 * f[n - 1]
        BY <1>1, <3>1
      <3> QED
        BY <1>1, <2>1, <3>2 DEF AllSteps
    <2> QED
      BY <2>2
  <1>3. Pow2Upto = [n \in Nat |-> IF n = 0 THEN 1 ELSE 2 * Pow2Upto[n - 1]]
    BY <1>2 DEF Pow2Upto
  <1>4. Pow2Upto[0] = 1 /\ \A n \in Nat : Pow2Upto[n + 1] = 2 * Pow2Upto[n]
    <2>1. \A n \in Nat : Pow2Upto[n] = IF n = 0 THEN 1 ELSE 2 * Pow2Upto[n - 1]
      BY <1>3
    <2>2. \A n \in Nat : n + 1 \in Nat /\ n + 1 # 0 /\ n + 1 - 1 = n
      OBVIOUS
    <2> QED
      BY <2>1, <2>2
  <1> DEFINE X == {n \in Nat : Pow2Upto[n] \in Nat \ {0}}
  <1>5. X = Nat
    <2>1. 0 \in X /\ \A n \in X : n + 1 \in X
      BY <1>4
    <2> HIDE DEF X
    <2>2. X \in SUBSET Nat
      BY DEF X
    <2> QED
      BY <2>1, <2>2, Induction
  <1>6. \A w \in Nat : Pow2Upto[w] \in Nat \ {0}
    BY <1>5
  <1> QED
    BY <1>4, <1>6, Zenon DEF Pow2

Divided(x, M) == \E q \in Int, r \in 0 .. M - 1 : x = M * q + r

\* The quotient of a number by another, and what is left.
LEMMA DividedNext ==
    ASSUME NEW M \in Nat \ {0}, NEW x \in Int, Divided(x, M)
    PROVE  Divided(x + 1, M) /\ Divided(x - 1, M)
  <1>1. PICK q \in Int, r \in 0 .. M - 1 : x = M * q + r
    BY DEF Divided
  <1>2. PICK p \in Int : p = M * q
    OBVIOUS
  <1>3. x = p + r
    BY <1>1, <1>2
  <1>4. q + 1 \in Int /\ q - 1 \in Int /\ M * (q + 1) = p + M /\ M * (q - 1) = p - M
    BY <1>2
  <1>5. Divided(x + 1, M)
    <2>1. CASE r + 1 < M
      <3>1. q \in Int /\ r + 1 \in 0 .. M - 1 /\ x + 1 = p + (r + 1)
        BY <1>3, <1>4, <2>1
      <3>2. \E a \in Int, b \in 0 .. M - 1 : x + 1 = M * a + b
        <4> USE <3>1
        <4> WITNESS q \in Int, r + 1 \in 0 .. M - 1
        <4> QED
          BY <1>2, <1>4, <3>1
      <3> QED
        BY <3>2 DEF Divided
    <2>2. CASE ~(r + 1 < M)
      <3>1. q + 1 \in Int /\ 0 \in 0 .. M - 1 /\ x + 1 = (p + M) + 0
        BY <1>3, <1>4, <2>2
      <3>2. \E a \in Int, b \in 0 .. M - 1 : x + 1 = M * a + b
        <4> USE <3>1
        <4> WITNESS q + 1 \in Int, 0 \in 0 .. M - 1
        <4> QED
          BY <1>2, <1>4, <3>1
      <3> QED
        BY <3>2 DEF Divided
    <2> QED
      BY <2>1, <2>2
  <1>6. Divided(x - 1, M)
    <2>1. CASE r > 0
      <3>1. q \in Int /\ r - 1 \in 0 .. M - 1 /\ x - 1 = p + (r - 1)
        BY <1>3, <1>4, <2>1
      <3>2. \E a \in Int, b \in 0 .. M - 1 : x - 1 = M * a + b
        <4> USE <3>1
        <4> WITNESS q \in Int, r - 1 \in 0 .. M - 1
        <4> QED
          BY <1>2, <1>4, <3>1
      <3> QED
        BY <3>2 DEF Divided
    <2>2. CASE ~(r > 0)
      <3>1. q - 1 \in Int /\ M - 1 \in 0 .. M - 1 /\ x - 1 = (p - M) + (M - 1)
        BY <1>3, <1>4, <2>2
      <3>2. \E a \in Int, b \in 0 .. M - 1 : x - 1 = M * a + b
        <4> USE <3>1
        <4> WITNESS q - 1 \in Int, M - 1 \in 0 .. M - 1
        <4> QED
          BY <1>2, <1>4, <3>1
      <3> QED
        BY <3>2 DEF Divided
    <2> QED
      BY <2>1, <2>2
  <1> QED
    BY <1>5, <1>6

LEMMA Division ==
    ASSUME NEW M \in Nat \ {0}, NEW x \in Int
    PROVE  Divided(x, M)
  <1> DEFINE X == {n \in Nat : Divided(n, M) /\ Divided(0 - n, M)}
  <1>1. 0 \in X
    <2>1. 0 \in Int /\ 0 \in 0 .. M - 1 /\ 0 = M * 0 + 0 /\ 0 - 0 = 0
      OBVIOUS
    <2> QED
      BY <2>1 DEF Divided
  <1>2. ASSUME NEW n \in X PROVE n + 1 \in X
    <2>1. n \in Nat /\ n \in Int /\ 0 - n \in Int /\ 0 - (n + 1) = 0 - n - 1
      OBVIOUS
    <2>2. Divided(n + 1, M) /\ Divided(0 - n - 1, M)
      BY <2>1, DividedNext
    <2> QED
      BY <2>1, <2>2
  <1>3. X = Nat
    <2>1. X \in SUBSET Nat
      OBVIOUS
    <2> HIDE DEF X
    <2> QED
      BY <1>1, <1>2, <2>1, Induction
  <1>4. x \in Nat \/ 0 - x \in Nat
    OBVIOUS
  <1>5. CASE x \in Nat
    BY <1>3, <1>5
  <1>6. CASE 0 - x \in Nat
    <2>1. Divided(0 - (0 - x), M) /\ 0 - (0 - x) = x
      BY <1>3, <1>6
    <2> QED
      BY <2>1
  <1> QED
    BY <1>4, <1>5, <1>6

\* What is left of x, or what is M less, differs from x by a multiple of M.
LEMMA Modulo ==
    ASSUME NEW M \in Nat \ {0}
    PROVE  /\ 0 % M = 0 /\ M % M = 0 /\ (0 - M) % M = 0
           /\ \A x \in Int : /\ x % M \in 0 .. M - 1
                            /\ ((x % M) - x) % M = 0
                            /\ ((x % M) - M - x) % M = 0
  <1>1. \A k \in Int : (M * k) % M = 0
    OBVIOUS
  <1>2. M * 0 = 0 /\ M * 1 = M /\ M * (0 - 1) = 0 - M
    OBVIOUS
  <1>3. 0 % M = 0 /\ M % M = 0 /\ (0 - M) % M = 0
    BY <1>1, <1>2
  <1>4. ASSUME NEW x \in Int
        PROVE  /\ x % M \in 0 .. M - 1 /\ ((x % M) - x) % M = 0 /\ ((x % M) - M - x) % M = 0
    <2>1. PICK q \in Int, r \in 0 .. M - 1 : x = M * q + r
      BY Division DEF Divided
    <2>2. x % M = r
      BY <2>1
    <2>3. r - x = M * (0 - q) /\ r - M - x = M * (0 - q - 1)
      BY <2>1
    <2>4. (M * (0 - q)) % M = 0 /\ (M * (0 - q - 1)) % M = 0
      BY <1>1
    <2> QED
      BY <2>2, <2>3, <2>4
  <1> QED
    BY <1>3, <1>4

(***************************************************************************)
(* Objects and typed values.                                                *)
(***************************************************************************)

\* The objects m are still there, and others may have been made.
Extends(m, n) == Len(m) <= Len(n) /\ \A i \in 1 .. Len(m) : n[i] = m[i]

LEMMA ObjectsDomain ==
    ASSUME NEW m, AreObjects(m)
    PROVE  Len(m) \in Nat /\ DOMAIN m = 1 .. Len(m) /\ Extends(m, m)
  BY DEF AreObjects, Extends

LEMMA ExtendsTransitive ==
    ASSUME NEW m, NEW n, NEW o, AreObjects(m), AreObjects(n), AreObjects(o),
           Extends(m, n), Extends(n, o)
    PROVE  Extends(m, o)
  BY ObjectsDomain DEF Extends

\* What has the type of a reference or a pointer.
RefersTo(v, e, m) == v.kind = "address" /\ v.to \in DOMAIN m /\ m[v.to].type = e
PointsTo(v, e, m) ==
    /\ v.kind = "address"
    /\ v.to \in DOMAIN m \cup {0}
    /\ v.to = 0 \/ e \in {m[v.to].type, Void} \/ m[v.to].type = Array(e)

LEMMA AddressTyped ==
    ASSUME NEW v, NEW t, NEW m
    PROVE  /\ t.kind = "reference" => (HasType(v, t, m) <=> RefersTo(v, t.element, m))
           /\ t.kind = "pointer" => (HasType(v, t, m) <=> PointsTo(v, t.element, m))
  <1>1. CASE t.kind = "reference"
    BY <1>1 DEF HasType, HasKind, is_integer, is_floating_point, RefersTo
  <1>2. CASE t.kind = "pointer"
    BY <1>2 DEF HasType, HasKind, is_integer, is_floating_point, PointsTo
  <1> QED
    BY <1>1, <1>2

\* What an address stands for does not change when objects are made.
LEMMA KindStays ==
    ASSUME NEW m, NEW n, Len(m) \in Nat, Len(n) \in Nat,
           DOMAIN m = 1 .. Len(m), DOMAIN n = 1 .. Len(n), Extends(m, n),
           NEW v, NEW t, HasKind(v, t, m)
    PROVE  HasKind(v, t, n)
  <1>1. \A i \in DOMAIN m : i \in DOMAIN n /\ n[i] = m[i]
    BY DEF Extends
  <1>2. CASE t.kind = "reference"
    BY <1>1, <1>2 DEF HasKind, is_integer, is_floating_point
  <1>3. CASE t.kind = "pointer"
    BY <1>1, <1>3 DEF HasKind, is_integer, is_floating_point
  <1>4. CASE t.kind \notin {"reference", "pointer"}
    BY <1>4 DEF HasKind, is_integer, is_floating_point
  <1> QED
    BY <1>2, <1>3, <1>4

LEMMA TypeStays ==
    ASSUME NEW m, NEW n, Len(m) \in Nat, Len(n) \in Nat,
           DOMAIN m = 1 .. Len(m), DOMAIN n = 1 .. Len(n), Extends(m, n),
           NEW v, NEW t, HasType(v, t, m)
    PROVE  HasType(v, t, n)
  <1>1. \A u, e : HasKind(u, e, m) => HasKind(u, e, n)
    BY KindStays
  <1> QED
    BY <1>1 DEF HasType

\* Values that are the same but for being constants have the same types.
Alike(v, u) ==
    /\ u.kind = v.kind
    /\ v.kind = "number" => u.n = v.n
    /\ v.kind = "address" => u.to = v.to
    /\ v.kind = "elements" => u.of = v.of

LEMMA KindOfAlike ==
    ASSUME NEW v, NEW u, Alike(v, u), NEW t, NEW m, HasKind(v, t, m)
    PROVE  HasKind(u, t, m)
  <1>1. CASE is_integer(t) \/ is_floating_point(t)
    BY <1>1 DEF Alike, HasKind, is_integer, is_floating_point
  <1>2. CASE t.kind = "array"
    BY <1>2 DEF Alike, HasKind, is_integer, is_floating_point
  <1>3. CASE t.kind = "reference"
    <2>1. v.kind = "address" /\ v.to \in DOMAIN m /\ m[v.to].type = t.element
      BY <1>3 DEF HasKind, is_integer, is_floating_point
    <2>2. u.kind = "address" /\ u.to = v.to
      BY <2>1 DEF Alike
    <2> QED
      BY <1>3, <2>1, <2>2 DEF HasKind, is_integer, is_floating_point
  <1>4. CASE t.kind = "pointer"
    <2>1. v.kind = "address"
      BY <1>4 DEF HasKind, is_integer, is_floating_point
    <2>2. u.kind = "address" /\ u.to = v.to
      BY <2>1 DEF Alike
    <2> QED
      BY <1>4, <2>1, <2>2 DEF HasKind, is_integer, is_floating_point
  <1> QED
    BY <1>1, <1>2, <1>3, <1>4 DEF HasKind, is_integer, is_floating_point

LEMMA TypeOfAlike ==
    ASSUME NEW v, NEW u, Alike(v, u), NEW t, NEW m, HasType(v, t, m)
    PROVE  HasType(u, t, m)
  <1>1. HasKind(v, t, m) /\ HasKind(u, t, m)
    BY KindOfAlike DEF HasType
  <1>2. CASE t.kind = "array"
    <2>1. v.kind = "elements"
      BY <1>1, <1>2 DEF HasKind, is_integer, is_floating_point
    <2>2. u.of = v.of
      BY <2>1 DEF Alike
    <2> QED
      BY <1>1, <2>2 DEF HasType
  <1>3. CASE t.kind # "array"
    BY <1>1, <1>3 DEF HasType
  <1> QED
    BY <1>2, <1>3

\* What is loaded is what the object holds.
LEMMA Copied ==
    ASSUME NEW v, IsValue(v)
    PROVE  /\ IsValue([v EXCEPT !.const = FALSE])
           /\ Alike(v, [v EXCEPT !.const = FALSE])
  <1>1. CASE v.kind = "number" /\ v = Number(v.n, v.const)
    <2>1. [v EXCEPT !.const = FALSE] = Number(v.n, FALSE)
      <3>1. PICK a, b : a = v.n /\ v = [kind |-> "number", n |-> a, const |-> b]
        BY <1>1 DEF Number
      <3>2. PICK c : c = FALSE
        BY Zenon
      <3>3. [v EXCEPT !.const = c] = [kind |-> "number", n |-> a, const |-> c]
        BY <3>1
      <3> QED
        BY <3>1, <3>2, <3>3, Zenon DEF Number
    <2>2. PICK u : u = Number(v.n, FALSE)
      OBVIOUS
    <2>3. u.kind = "number" /\ u.n = v.n /\ u.const = FALSE
      BY <2>2 DEF Number
    <2>4. IsValue(u)
      BY <2>2, <2>3 DEF IsValue
    <2>5. Alike(v, u)
      BY <1>1, <2>3 DEF Alike
    <2> QED
      BY <2>1, <2>2, <2>4, <2>5
  <1>2. CASE v.kind = "address" /\ v = Address(v.to, v.const)
    <2>1. [v EXCEPT !.const = FALSE] = Address(v.to, FALSE)
      <3>1. PICK a, b : a = v.to /\ v = [kind |-> "address", to |-> a, const |-> b]
        BY <1>2 DEF Address
      <3>2. PICK c : c = FALSE
        BY Zenon
      <3>3. [v EXCEPT !.const = c] = [kind |-> "address", to |-> a, const |-> c]
        BY <3>1
      <3> QED
        BY <3>1, <3>2, <3>3, Zenon DEF Address
    <2>2. PICK u : u = Address(v.to, FALSE)
      OBVIOUS
    <2>3. u.kind = "address" /\ u.to = v.to /\ u.const = FALSE
      BY <2>2 DEF Address
    <2>4. IsValue(u)
      BY <2>2, <2>3 DEF IsValue
    <2>5. Alike(v, u)
      BY <1>2, <2>3 DEF Alike
    <2> QED
      BY <2>1, <2>2, <2>4, <2>5
  <1>3. CASE v.kind = "elements" /\ v = Elements(v.of, v.const)
    <2>1. [v EXCEPT !.const = FALSE] = Elements(v.of, FALSE)
      <3>1. PICK a, b : a = v.of /\ v = [kind |-> "elements", of |-> a, const |-> b]
        BY <1>3 DEF Elements
      <3>2. PICK c : c = FALSE
        BY Zenon
      <3>3. [v EXCEPT !.const = c] = [kind |-> "elements", of |-> a, const |-> c]
        BY <3>1
      <3> QED
        BY <3>1, <3>2, <3>3, Zenon DEF Elements
    <2>2. PICK u : u = Elements(v.of, FALSE)
      OBVIOUS
    <2>3. u.kind = "elements" /\ u.of = v.of /\ u.const = FALSE
      BY <2>2 DEF Elements
    <2>4. IsValue(u)
      BY <2>2, <2>3 DEF IsValue
    <2>5. Alike(v, u)
      BY <1>3, <2>3 DEF Alike
    <2> QED
      BY <2>1, <2>2, <2>4, <2>5
  <1> QED
    BY <1>1, <1>2, <1>3 DEF IsValue

\* One object more.
LEMMA OneMore ==
    ASSUME NEW m, Len(m) \in Nat, m = [i \in 1 .. Len(m) |-> m[i]], NEW e
    PROVE  /\ Len(Append(m, e)) = Len(m) + 1
           /\ Append(m, e) = [i \in 1 .. Len(m) + 1 |-> Append(m, e)[i]]
           /\ Append(m, e)[Len(m) + 1] = e
           /\ \A i \in 1 .. Len(m) : Append(m, e)[i] = m[i]
  <1> DEFINE S == {m[i] : i \in 1 .. Len(m)} \cup {e}
  <1>1. m \in Seq(S)
    <2>1. m \in [1 .. Len(m) -> S]
      OBVIOUS
    <2> HIDE DEF S
    <2> QED
      BY <2>1, SeqDef
  <1>2. e \in S
    OBVIOUS
  <1> HIDE DEF S
  <1>3. /\ Append(m, e) \in Seq(S) /\ Len(Append(m, e)) = Len(m) + 1
        /\ \A i \in 1 .. Len(m) : Append(m, e)[i] = m[i]
        /\ Append(m, e)[Len(m) + 1] = e
    BY <1>1, <1>2, AppendProperties
  <1>4. Append(m, e) \in [1 .. Len(Append(m, e)) -> S]
    BY <1>3, LenProperties
  <1>5. Append(m, e) = [i \in 1 .. Len(m) + 1 |-> Append(m, e)[i]]
    BY <1>3, <1>4
  <1> QED
    BY <1>3, <1>5

\* A value that is placed is found there.
LEMMA Placed ==
    ASSUME NEW m, AreObjects(m), NEW v, NEW t, IsTypeItself(t), IsValue(v), HasType(v, t, m),
           NEW p, p = Place(t, v, m)
    PROVE  /\ AreObjects(p.mem) /\ Extends(m, p.mem)
           /\ p.val = Address(Len(m) + 1, v.const) /\ IsValue(p.val)
           /\ Len(m) + 1 \in DOMAIN p.mem
           /\ p.mem[Len(m) + 1].type = t /\ p.mem[Len(m) + 1].val = v
           /\ \A as : HasType(p.val, Reference(t, as), p.mem)
  <1>1. PICK e : e = [type |-> t, val |-> v, from |-> IF v.const THEN "constant" ELSE "temporary"]
    OBVIOUS
  <1>2. PICK n : n = Append(m, e)
    OBVIOUS
  <1>3. p.mem = n /\ p.val = Address(Len(m) + 1, v.const)
    BY <1>1, <1>2 DEF Place
  <1>4. Len(m) \in Nat /\ DOMAIN m = 1 .. Len(m) /\ m = [i \in 1 .. Len(m) |-> m[i]]
    BY DEF AreObjects
  <1>5. /\ Len(n) = Len(m) + 1 /\ n = [i \in 1 .. Len(m) + 1 |-> n[i]]
        /\ n[Len(m) + 1] = e /\ \A i \in 1 .. Len(m) : n[i] = m[i]
    BY <1>2, <1>4, OneMore
  <1>6. DOMAIN n = 1 .. Len(n) /\ Len(n) \in Nat /\ Extends(m, n)
    <2>1. DOMAIN n = 1 .. Len(m) + 1
      BY <1>5
    <2>2. Len(m) <= Len(n) /\ Len(n) \in Nat
      BY <1>4, <1>5
    <2> QED
      BY <1>5, <2>1, <2>2 DEF Extends
  <1>7. \A u, s : HasType(u, s, m) => HasType(u, s, n)
    BY <1>4, <1>6, TypeStays
  <1>8. ASSUME NEW i \in 1 .. Len(n)
        PROVE  /\ n[i] = [type |-> n[i].type, val |-> n[i].val, from |-> n[i].from]
               /\ IsTypeItself(n[i].type) /\ IsValue(n[i].val) /\ HasType(n[i].val, n[i].type, n)
    <2>1. CASE i \in 1 .. Len(m)
      BY <1>5, <1>7, <2>1 DEF AreObjects
    <2>2. CASE i = Len(m) + 1
      BY <1>1, <1>5, <1>7, <2>2
    <2> QED
      BY <1>4, <1>5, <2>1, <2>2
  <1>9. AreObjects(n)
    BY <1>5, <1>6, <1>8 DEF AreObjects
  <1>10. IsValue(p.val)
    BY <1>3 DEF IsValue, Address
  <1>11. n[Len(m) + 1].type = t /\ n[Len(m) + 1].val = v /\ Len(m) + 1 \in DOMAIN n
    BY <1>1, <1>4, <1>5, <1>6
  <1>12. ASSUME NEW as PROVE HasType(p.val, Reference(t, as), n)
    <2>1. PICK r : r = Reference(t, as)
      BY Zenon
    <2>2. r.kind = "reference" /\ r.element = t
      BY <2>1 DEF Reference
    <2>3. p.val.kind = "address" /\ p.val.to = Len(m) + 1
      BY <1>3 DEF Address
    <2>4. HasKind(p.val, r, n)
      BY <1>11, <2>2, <2>3 DEF HasKind, is_integer, is_floating_point
    <2>5. HasType(p.val, r, n)
      BY <2>2, <2>4 DEF HasType
    <2> QED
      BY <2>1, <2>5
  <1> QED
    BY <1>3, <1>6, <1>9, <1>10, <1>11, <1>12

(***************************************************************************)
(* References followed.                                                     *)
(***************************************************************************)

Result(t, v) == [type |-> t, val |-> v]

\* What is no reference is what it comes to; behind one reference is the object.
LEMMA FollowedShort ==
    ASSUME NEW t, NEW v, NEW m
    PROVE  /\ t.kind # "reference" => Followed(t, v, m) = Result(t, v)
           /\ t.kind = "reference" /\ t.element.kind # "reference" =>
                Followed(t, v, m) = Result(t.element, m[v.to].val)
  <1>1. \A r : r.type.kind # "reference" => Follow(r, m) = r
    BY DEF Follow
  <1>2. \A e, u : Result(e, u).type = e /\ Result(e, u).val = u
    BY DEF Result
  <1>3. Followed(t, v, m) = Follow(Follow(Follow(Result(t, v), m), m), m)
    BY DEF Followed, Result
  <1>4. ASSUME t.kind # "reference" PROVE Followed(t, v, m) = Result(t, v)
    BY <1>1, <1>2, <1>3, <1>4
  <1>5. ASSUME t.kind = "reference", t.element.kind # "reference"
        PROVE  Followed(t, v, m) = Result(t.element, m[v.to].val)
    <2>1. Follow(Result(t, v), m) = Result(t.element, m[v.to].val)
      BY <1>2, <1>5 DEF Follow, Result
    <2> QED
      BY <1>1, <1>2, <1>3, <1>5, <2>1
  <1> QED
    BY <1>4, <1>5

\* What is behind a reference does not depend on whether the reference is followed
\* or the object is loaded first.
LEMMA FollowedLoad ==
    ASSUME NEW t, NEW v, NEW m, NEW u, t.kind = "reference",
           Alike(m[v.to].val, u), HasKind(m[v.to].val, t.element, m),
           Followed(t, v, m).type.kind # "reference"
    PROVE  /\ Followed(t.element, u, m).type = Followed(t, v, m).type
           /\ Alike(Followed(t, v, m).val, Followed(t.element, u, m).val)
  <1>1. \A r : r.type.kind # "reference" => Follow(r, m) = r
    BY DEF Follow
  <1>2. \A e, w : Result(e, w).type = e /\ Result(e, w).val = w
    BY DEF Result
  <1>3. PICK a, b, c, d, e, f, w :
            /\ w = m[v.to].val
            /\ a = Result(t.element, w) /\ b = Follow(a, m) /\ c = Follow(b, m)
            /\ d = Result(t.element, u) /\ e = Follow(d, m) /\ f = Follow(e, m)
    OBVIOUS
  <1>4. Followed(t, v, m) = c
    <2>1. Follow(Result(t, v), m) = a
      BY <1>2, <1>3 DEF Follow, Result
    <2> QED
      BY <1>3, <2>1 DEF Followed, Result
  <1>5. Followed(t.element, u, m) = Follow(f, m)
    BY <1>3 DEF Followed, Result
  <1>6. CASE t.element.kind # "reference"
    <2>1. c = a /\ Follow(f, m) = d
      BY <1>1, <1>2, <1>3, <1>6
    <2> QED
      BY <1>2, <1>3, <1>4, <1>5, <2>1
  <1>7. CASE t.element.kind = "reference"
    <2>1. w.kind = "address"
      BY <1>3, <1>7 DEF HasKind, is_integer, is_floating_point
    <2>2. u.to = w.to
      BY <1>3, <2>1 DEF Alike
    <2>3. b = e
      BY <1>2, <1>3, <1>7, <2>2 DEF Follow, Result
    <2>4. c = f /\ Follow(f, m) = c
      BY <1>1, <1>3, <1>4, <2>3
    <2> QED
      BY <1>4, <1>5, <2>4 DEF Alike
  <1> QED
    BY <1>6, <1>7

(***************************************************************************)
(* Scalars: numbers and pointers.                                           *)
(***************************************************************************)

\* A conversion that has been made, and what it keeps.
Converted(t0, v0, m, t1, r) ==
    /\ AreObjects(r.mem) /\ Extends(m, r.mem)
    /\ IsValue(r.val) /\ HasType(r.val, t1, r.mem)
    /\ SameNumber(Followed(t0, v0, r.mem), Followed(t1, r.val, r.mem))
    /\ PointsToSame(t0, v0, Followed(t0, v0, r.mem), Followed(t1, r.val, r.mem), r.mem)

IsScalar(t) == IsNumber(t) \/ t.kind = "pointer"

\* Integers of the same kind, or of greater width, mean the same modulo 2^w.
LEMMA IntegerBits ==
    ASSUME NEW t, is_integer(t), t.width \in Nat \ {0}, NEW n \in 0 .. Pow2(t.width) - 1
    PROVE  Meaning(t, n) \in {n, n - Pow2(t.width)}
  BY DEF Meaning

LEMMA WidthPositive ==
    ASSUME NEW w \in Nat
    PROVE  Pow2(w) \in Nat \ {0}
  BY Pow2Def

LEMMA IntegerCast ==
    ASSUME NEW t, is_integer(t), t.width \in Nat \ {0}, NEW x \in Int
    PROVE  /\ x % Pow2(t.width) \in 0 .. Pow2(t.width) - 1
           /\ (Meaning(t, x % Pow2(t.width)) - x) % Pow2(t.width) = 0
  <1>1. PICK M \in Nat \ {0} : M = Pow2(t.width)
    BY WidthPositive
  <1>2. x % M \in 0 .. M - 1 /\ ((x % M) - x) % M = 0 /\ ((x % M) - M - x) % M = 0
    BY Modulo
  <1>3. Meaning(t, x % M) = x % M \/ Meaning(t, x % M) = (x % M) - M
    BY <1>1, <1>2, IntegerBits
  <1> QED
    BY <1>1, <1>2, <1>3

LEMMA IntegerFlip ==
    ASSUME NEW t, NEW u, is_integer(t), is_integer(u), t.width \in Nat \ {0}, u.width = t.width,
           NEW n \in 0 .. Pow2(t.width) - 1
    PROVE  (Meaning(u, n) - Meaning(t, n)) % Pow2(t.width) = 0
  <1>1. PICK M \in Nat \ {0} : M = Pow2(t.width)
    BY WidthPositive
  <1>2. 0 % M = 0 /\ M % M = 0 /\ (0 - M) % M = 0
    BY <1>1, Modulo, Zenon
  <1>3. Meaning(t, n) \in {n, n - M} /\ Meaning(u, n) \in {n, n - M}
    BY <1>1, IntegerBits
  <1>4. n \in Int /\ M \in Int
    BY <1>1
  <1>5. Meaning(u, n) - Meaning(t, n) \in {0, M, 0 - M}
    BY <1>3, <1>4
  <1> QED
    BY <1>1, <1>2, <1>5

\* What a typed number is.
LEMMA TypedNumber ==
    ASSUME NEW t, IsNumber(t), NEW v, NEW m, HasType(v, t, m)
    PROVE  /\ v.kind = "number"
           /\ is_integer(t) => v.n \in 0 .. Pow2(t.width) - 1
           /\ is_floating_point(t) => v.n \in Int
  BY DEF HasType, HasKind, IsNumber, is_integer, is_floating_point

LEMMA NumberTyped ==
    ASSUME NEW t, IsNumber(t), NEW n, NEW c, NEW m,
           is_integer(t) => n \in 0 .. Pow2(t.width) - 1,
           is_floating_point(t) => n \in Int
    PROVE  IsValue(Number(n, c)) /\ HasType(Number(n, c), t, m) /\ Number(n, c).n = n
  <1>1. PICK v : v = Number(n, c)
    OBVIOUS
  <1>2. v.kind = "number" /\ v.n = n /\ v.const = c
    BY <1>1 DEF Number
  <1>3. IsValue(v)
    BY <1>1, <1>2 DEF IsValue
  <1>4. t.kind # "array" /\ HasKind(v, t, m)
    BY <1>2 DEF HasKind, IsNumber, is_integer, is_floating_point
  <1>5. HasType(v, t, m)
    BY <1>4 DEF HasType
  <1> QED
    BY <1>1, <1>2, <1>3, <1>5

\* The conversion of a scalar to a scalar, where it is decided at once.
ScalarKept(t0, v, m, t1, r) ==
    /\ r.mem = m /\ IsValue(r.val) /\ HasType(r.val, t1, m)
    /\ SameNumber(Result(t0, v), Result(t1, r.val))
    /\ t1.kind = "pointer" =>
        /\ t0.kind = "pointer" => r.val.to = v.to
        /\ IsNumber(t0) => r.val.to = 0

LEMMA NumberStep ==
    ASSUME NEW t0, NEW t1, IsTypeItself(t0), IsTypeItself(t1), ScalarCast(t0, t1),
           NEW m, NEW v, IsValue(v), HasType(v, t0, m),
           NEW r, r = ConvertScalar(t0, v, m, t1), r.answer = "yes"
    PROVE  ScalarKept(t0, v, m, t1, r)
  <1>1. IsNumber(t0) /\ IsNumber(t1) /\ t0.kind # "pointer" /\ t1.kind # "pointer"
    BY DEF ScalarCast, IsNumber, is_integer, is_floating_point
  <1>2. t0.width \in Nat \ {0} /\ t1.width \in Nat \ {0}
    BY <1>1 DEF IsTypeItself, IsNumber, is_integer, is_floating_point
  <1>3. /\ v.kind = "number"
        /\ is_integer(t0) => v.n \in 0 .. Pow2(t0.width) - 1
        /\ is_floating_point(t0) => v.n \in Int
    BY <1>1, TypedNumber
  <1>4. Meaning(t0, v.n) \in Int
    <2>1. CASE is_integer(t0)
      BY <1>2, <1>3, <2>1, IntegerBits, WidthPositive
    <2>2. CASE is_floating_point(t0)
      BY <1>3, <2>2 DEF Meaning, is_floating_point
    <2> QED
      BY <1>1, <2>1, <2>2 DEF IsNumber
  <1>5. \A e, u : Result(e, u).type = e /\ Result(e, u).val = u
    BY DEF Result
  <1>6. SUFFICES /\ r.mem = m /\ IsValue(r.val) /\ HasType(r.val, t1, m)
                 /\ IF is_integer(t1)
                    THEN (Meaning(t1, r.val.n) - Meaning(t0, v.n)) % Pow2(t1.width) = 0
                    ELSE Meaning(t1, r.val.n) = Meaning(t0, v.n)
    BY <1>1, <1>5 DEF ScalarKept, SameNumber
  <1>7. \A u : Yes(u, m).mem = m /\ Yes(u, m).val = u
    BY DEF Yes
  <1>8. Not("no", m).answer # "yes"
    BY DEF Not
  <1>9. CASE r = Yes(v, m) /\ t0.width = t1.width /\ is_integer(t0) /\ is_integer(t1)
    <2>1. r.mem = m /\ r.val = v
      BY <1>7, <1>9
    <2>2. HasType(v, t1, m)
      BY <1>3, <1>9 DEF HasType, HasKind, is_integer, is_floating_point
    <2>3. (Meaning(t1, v.n) - Meaning(t0, v.n)) % Pow2(t1.width) = 0
      BY <1>2, <1>3, <1>9, IntegerFlip
    <2> QED
      BY <1>9, <2>1, <2>2, <2>3
  <1>10. CASE r = Yes(v, m) /\ is_floating_point(t0) /\ is_floating_point(t1)
    <2>1. r.mem = m /\ r.val = v
      BY <1>7, <1>10
    <2>2. HasType(v, t1, m)
      BY <1>3, <1>10 DEF HasType, HasKind, is_integer, is_floating_point
    <2>3. ~is_integer(t1) /\ Meaning(t1, v.n) = Meaning(t0, v.n)
      BY <1>10 DEF Meaning, is_integer, is_floating_point
    <2> QED
      BY <2>1, <2>2, <2>3
  <1>11. CASE r = Yes(Cast(t0, v, t1), m) /\ is_integer(t1)
    <2> DEFINE x == Meaning(t0, v.n)
               n == x % Pow2(t1.width)
    <2>1. Cast(t0, v, t1) = Number(n, v.const)
      BY <1>11 DEF Cast
    <2>2. n \in 0 .. Pow2(t1.width) - 1 /\ (Meaning(t1, n) - x) % Pow2(t1.width) = 0
      BY <1>2, <1>4, <1>11, IntegerCast
    <2>3. ~is_floating_point(t1)
      BY <1>11 DEF is_integer, is_floating_point
    <2> HIDE DEF n, x
    <2>4. IsValue(Number(n, v.const)) /\ HasType(Number(n, v.const), t1, m) /\ Number(n, v.const).n = n
      BY <1>1, <2>2, <2>3, NumberTyped
    <2>5. r.mem = m /\ r.val = Number(n, v.const)
      BY <1>7, <1>11, <2>1
    <2> QED
      BY <1>11, <2>2, <2>4, <2>5 DEF x
  <1>12. CASE r = Yes(Cast(t0, v, t1), m) /\ ~is_integer(t1)
    <2> DEFINE n == Meaning(t0, v.n)
    <2>1. Cast(t0, v, t1) = Number(n, v.const)
      BY <1>12 DEF Cast
    <2>2. n \in Int
      BY <1>4
    <2>3. Meaning(t1, n) = n
      BY <1>12 DEF Meaning, is_integer
    <2> HIDE DEF n
    <2>4. IsValue(Number(n, v.const)) /\ HasType(Number(n, v.const), t1, m) /\ Number(n, v.const).n = n
      BY <1>1, <1>12, <2>2, NumberTyped
    <2>5. r.mem = m /\ r.val = Number(n, v.const)
      BY <1>7, <1>12, <2>1
    <2> QED
      BY <1>12, <2>3, <2>4, <2>5 DEF n
  <1>13. \/ r = Yes(Cast(t0, v, t1), m)
         \/ /\ r = Yes(v, m) /\ t0.width = t1.width /\ ~(t0.kind # "float" /\ t1.kind = "float")
    BY <1>8 DEF ConvertScalar
  <1> QED
    BY <1>9, <1>10, <1>11, <1>12, <1>13 DEF ScalarCast, is_integer, is_floating_point

LEMMA ScalarStep ==
    ASSUME NEW t0, NEW t1, IsScalar(t0), IsScalar(t1), IsTypeItself(t0), IsTypeItself(t1),
           NEW m, NEW v, IsValue(v), HasType(v, t0, m),
           NEW r, r = Directly(t0, v, m, t1), r.answer = "yes"
    PROVE  ScalarKept(t0, v, m, t1, r)
  <1>1. \A u : Yes(u, m).mem = m /\ Yes(u, m).val = u
    BY DEF Yes
  <1>2. Not("no", m).answer # "yes" /\ Not("undecided", m).answer # "yes"
    BY DEF Not
  <1>3. t0.kind # "reference" /\ t1.kind # "reference"
    BY DEF IsScalar, IsNumber, is_integer, is_floating_point
  <1>4. \A e, u : Result(e, u).type = e /\ Result(e, u).val = u
    BY DEF Result
  <1>5. CASE t0 = t1
    <2>1. r.mem = m /\ r.val = v
      BY <1>1, <1>5 DEF Directly
    <2>2. SameNumber(Result(t0, v), Result(t0, v))
      <3>1. CASE is_integer(t0)
        <4>1. t0.width \in Nat \ {0} /\ v.n \in 0 .. Pow2(t0.width) - 1
          BY <3>1, TypedNumber DEF IsNumber, IsTypeItself, is_integer, is_floating_point
        <4>2. (Meaning(t0, v.n) - Meaning(t0, v.n)) % Pow2(t0.width) = 0
          BY <3>1, <4>1, IntegerFlip
        <4> QED
          BY <1>4, <3>1, <4>2 DEF SameNumber
      <3>2. CASE ~is_integer(t0)
        BY <1>4, <3>2 DEF SameNumber
      <3> QED
        BY <3>1, <3>2
    <2> QED
      BY <1>5, <2>1, <2>2 DEF ScalarKept, IsNumber, is_integer, is_floating_point
  <1>6. CASE t0 # t1 /\ ScalarCast(t0, t1)
    <2>1. r = ConvertScalar(t0, v, m, t1)
      BY <1>6 DEF Directly
    <2> QED
      BY <1>6, <2>1, NumberStep
  <1>7. CASE t0 # t1 /\ ~ScalarCast(t0, t1) /\ NullToPointer(t0, v, t1)
    <2>1. r.mem = m /\ r.val = Null
      BY <1>1, <1>7 DEF Directly
    <2>2. Null.kind = "address" /\ Null.to = 0 /\ IsValue(Null)
      BY DEF Null, Address, IsValue
    <2>3. t1.kind = "pointer" /\ t0.kind # "pointer" /\ ~IsNumber(t1)
      BY <1>7 DEF NullToPointer, IsNumber, is_integer, is_floating_point
    <2>4. HasType(Null, t1, m)
      BY <2>2, <2>3 DEF HasType, HasKind, is_integer, is_floating_point
    <2>5. SameNumber(Result(t0, v), Result(t1, Null))
      BY <1>4, <2>3 DEF SameNumber
    <2> QED
      BY <2>1, <2>2, <2>3, <2>4, <2>5 DEF ScalarKept
  <1>8. CASE /\ t0 # t1 /\ ~ScalarCast(t0, t1) /\ ~NullToPointer(t0, v, t1)
             /\ t0.kind = "pointer" /\ t1.kind = "pointer"
    <2>1. r = IF IsVoidPointer(t1) THEN Yes(v, m) ELSE Not("no", m)
      BY <1>8 DEF Directly
    <2>2. r.mem = m /\ r.val = v /\ t1.element = Void
      BY <1>1, <1>2, <2>1 DEF IsVoidPointer
    <2>3. ~IsNumber(t0) /\ ~IsNumber(t1)
      BY <1>8 DEF IsNumber, is_integer, is_floating_point
    <2>4. v.kind = "address" /\ v.to \in DOMAIN m \cup {0}
      BY <1>8 DEF HasType, HasKind, is_integer, is_floating_point
    <2>5. HasType(v, t1, m)
      BY <1>8, <2>2, <2>4 DEF HasType, HasKind, is_integer, is_floating_point
    <2>6. SameNumber(Result(t0, v), Result(t1, v))
      BY <1>4, <2>3 DEF SameNumber
    <2> QED
      BY <2>2, <2>3, <2>5, <2>6 DEF ScalarKept
  <1>9. CASE /\ t0 # t1 /\ ~ScalarCast(t0, t1) /\ ~NullToPointer(t0, v, t1)
             /\ ~(t0.kind = "pointer" /\ t1.kind = "pointer")
    <2>1. r = Not("undecided", m)
      BY <1>3, <1>9 DEF Directly, IsArrayReference
    <2> QED
      BY <1>2, <2>1
  <1> QED
    BY <1>5, <1>6, <1>7, <1>8, <1>9

(***************************************************************************)
(* The conversions that are decided at once.                                *)
(***************************************************************************)

\* What references are followed to has its type.
LEMMA FollowedTyped ==
    ASSUME NEW m, AreObjects(m), NEW t, NEW v, IsTypeItself(t), IsValue(v), HasType(v, t, m),
           NEW f, f = Followed(t, v, m)
    PROVE  IsTypeItself(f.type) /\ IsValue(f.val) /\ HasType(f.val, f.type, m)
  <1> DEFINE Fine(r) == IsTypeItself(r.type) /\ IsValue(r.val) /\ HasType(r.val, r.type, m)
  <1>1. ASSUME NEW r, Fine(r) PROVE Fine(Follow(r, m))
    <2>1. CASE r.type.kind = "reference"
      <3>1. r.val.to \in 1 .. Len(m) /\ m[r.val.to].type = r.type.element
        BY <1>1, <2>1, ObjectsDomain, AddressTyped DEF RefersTo
      <3>2. PICK g : g = Follow(r, m)
        OBVIOUS
      <3>3. g.type = r.type.element /\ g.val = m[r.val.to].val
        BY <2>1, <3>2 DEF Follow
      <3>4. Fine(g)
        BY <3>1, <3>3 DEF AreObjects
      <3> QED
        BY <3>2, <3>4
    <2>2. CASE r.type.kind # "reference"
      BY <1>1, <2>2 DEF Follow
    <2> QED
      BY <2>1, <2>2
  <1>2. PICK a : a = [type |-> t, val |-> v]
    OBVIOUS
  <1>3. Fine(a)
    BY <1>2
  <1> HIDE DEF Fine
  <1>4. Fine(Follow(Follow(Follow(a, m), m), m))
    BY <1>1, <1>3
  <1>5. Fine(f)
    BY <1>2, <1>4 DEF Followed
  <1> QED
    BY <1>5 DEF Fine

\* A number is the same number as itself.
LEMMA SameSelf ==
    ASSUME NEW a, NEW b, NEW m, IsTypeItself(a.type), HasType(a.val, a.type, m),
           b.type = a.type, Alike(a.val, b.val)
    PROVE  SameNumber(a, b)
  <1>1. CASE is_integer(a.type)
    <2>1. /\ a.type.width \in Nat \ {0} /\ a.val.kind = "number"
          /\ a.val.n \in 0 .. Pow2(a.type.width) - 1
      BY <1>1, TypedNumber DEF IsTypeItself, IsNumber, is_integer, is_floating_point
    <2>2. (Meaning(a.type, a.val.n) - Meaning(a.type, a.val.n)) % Pow2(a.type.width) = 0
      BY <1>1, <2>1, IntegerFlip
    <2>3. b.val.n = a.val.n
      BY <2>1 DEF Alike
    <2> QED
      BY <1>1, <2>2, <2>3 DEF SameNumber
  <1>2. CASE ~is_integer(a.type) /\ IsNumber(a.type)
    <2>1. a.val.kind = "number"
      BY <1>2, TypedNumber
    <2>2. b.val.n = a.val.n
      BY <2>1 DEF Alike
    <2> QED
      BY <1>2, <2>2 DEF SameNumber
  <1>3. CASE ~IsNumber(a.type)
    BY <1>3 DEF SameNumber
  <1> QED
    BY <1>1, <1>2, <1>3

LEMMA AlikeSelf ==
    ASSUME NEW v
    PROVE  Alike(v, v)
  BY DEF Alike

\* A value as it is.
LEMMA KeptAsItIs ==
    ASSUME NEW m, AreObjects(m), NEW t, NEW v, IsTypeItself(t), IsValue(v), HasType(v, t, m),
           NEW r, r.val = v, r.mem = m
    PROVE  Converted(t, v, m, t, r)
  <1>1. PICK f : f = Followed(t, v, m)
    OBVIOUS
  <1>2. IsTypeItself(f.type) /\ HasType(f.val, f.type, m)
    BY <1>1, FollowedTyped
  <1>3. SameNumber(f, f)
    BY <1>2, SameSelf, AlikeSelf
  <1>4. t.kind = "reference" /\ t.element.kind = "array" => f.type = t.element
    BY <1>1, FollowedShort DEF Result
  <1>5. t.kind = "array" => f.type = t
    BY <1>1, FollowedShort DEF Result
  <1>6. f.type.kind = "pointer" => ~IsArrayReference(t) /\ t.kind # "array"
    BY <1>4, <1>5 DEF IsArrayReference
  <1>7. f.type.kind = "pointer" => ~IsNumber(f.type)
    BY DEF IsNumber, is_integer, is_floating_point
  <1>8. PointsToSame(t, v, f, f, m)
    BY <1>6, <1>7 DEF PointsToSame
  <1> QED
    BY <1>1, <1>3, <1>8, ObjectsDomain DEF Converted

LEMMA ScalarConverted ==
    ASSUME NEW m, AreObjects(m), NEW t0, NEW t1, IsScalar(t0), IsScalar(t1), NEW v, NEW r,
           ScalarKept(t0, v, m, t1, r)
    PROVE  Converted(t0, v, m, t1, r)
  <1>1. r.mem = m /\ Extends(m, m)
    BY ObjectsDomain DEF ScalarKept
  <1>2. t0.kind \notin {"reference", "array"} /\ t1.kind \notin {"reference", "array"}
    BY DEF IsScalar, IsNumber, is_integer, is_floating_point
  <1>3. Followed(t0, v, m) = Result(t0, v) /\ Followed(t1, r.val, m) = Result(t1, r.val)
    BY <1>2, FollowedShort
  <1>4. \A e, u : Result(e, u).type = e /\ Result(e, u).val = u
    BY DEF Result
  <1>5. PointsToSame(t0, v, Result(t0, v), Result(t1, r.val), m)
    BY <1>2, <1>4 DEF PointsToSame, ScalarKept, IsArrayReference
  <1> QED
    BY <1>1, <1>3, <1>5 DEF Converted, ScalarKept

\* A reference to an array becomes a pointer to its elements.
LEMMA ArrayPointed ==
    ASSUME NEW m, AreObjects(m), NEW t0, NEW v, IsTypeItself(t0.element), IsArrayReference(t0),
           IsValue(v), HasType(v, t0, m),
           NEW t1, t1.kind = "pointer", t1.element \in {t0.element.element, Void},
           NEW r, r.val = v, r.mem = m
    PROVE  Converted(t0, v, m, t1, r)
  <1>1. t0.kind = "reference" /\ t0.element.kind = "array"
    BY DEF IsArrayReference
  <1>2. t0.element = Array(t0.element.element)
    BY <1>1 DEF IsTypeItself, IsNumber, is_integer, is_floating_point
  <1>3. v.kind = "address" /\ v.to \in DOMAIN m /\ m[v.to].type = t0.element
    BY <1>1 DEF HasType, HasKind, is_integer, is_floating_point
  <1>4. HasType(v, t1, m)
    BY <1>2, <1>3, AddressTyped DEF PointsTo
  <1>5. /\ Followed(t0, v, m) = Result(t0.element, m[v.to].val)
        /\ Followed(t1, v, m) = Result(t1, v)
    BY <1>1, FollowedShort
  <1>6. \A e, u : Result(e, u).type = e /\ Result(e, u).val = u
    BY DEF Result
  <1>7. ~IsNumber(t0.element)
    BY <1>1 DEF IsNumber, is_integer, is_floating_point
  <1>8. SameNumber(Result(t0.element, m[v.to].val), Result(t1, v))
    BY <1>6, <1>7 DEF SameNumber
  <1>9. PointsToSame(t0, v, Result(t0.element, m[v.to].val), Result(t1, v), m)
    BY <1>1, <1>6, <1>7 DEF PointsToSame
  <1> QED
    BY <1>4, <1>5, <1>8, <1>9, ObjectsDomain DEF Converted

\* An object is loaded.
LEMMA Loaded ==
    ASSUME NEW m, AreObjects(m), NEW t, NEW v, IsTypeItself(t), t.kind = "reference",
           IsValue(v), HasType(v, t, m), NEW u, u = Load(v, m)
    PROVE  /\ v.to \in 1 .. Len(m) /\ m[v.to].type = t.element
           /\ IsTypeItself(t.element)
           /\ IsValue(u) /\ HasType(u, t.element, m) /\ Alike(m[v.to].val, u)
           /\ HasType(m[v.to].val, t.element, m)
  <1>1. v.to \in 1 .. Len(m) /\ m[v.to].type = t.element
    BY ObjectsDomain DEF HasType, HasKind, is_integer, is_floating_point
  <1>2. PICK w : w = m[v.to].val
    OBVIOUS
  <1>3. IsTypeItself(t.element) /\ IsValue(w) /\ HasType(w, t.element, m)
    BY <1>1, <1>2 DEF AreObjects
  <1>4. u = [w EXCEPT !.const = FALSE]
    BY <1>2 DEF Load
  <1>5. IsValue(u) /\ Alike(w, u)
    BY <1>3, <1>4, Copied
  <1>6. HasType(u, t.element, m)
    BY <1>3, <1>5, TypeOfAlike
  <1> QED
    BY <1>1, <1>2, <1>3, <1>5, <1>6

LEMMA LoadConverted ==
    ASSUME NEW m, AreObjects(m), NEW t, NEW v, IsTypeItself(t), t.kind = "reference",
           IsValue(v), HasType(v, t, m), NEW r, r.val = Load(v, m), r.mem = m
    PROVE  Converted(t, v, m, t.element, r)
  <1>1. PICK u : u = Load(v, m)
    OBVIOUS
  <1>2. /\ v.to \in 1 .. Len(m) /\ m[v.to].type = t.element /\ IsTypeItself(t.element)
        /\ IsValue(u) /\ HasType(u, t.element, m) /\ Alike(m[v.to].val, u)
        /\ HasType(m[v.to].val, t.element, m)
    BY <1>1, Loaded
  <1>3. PICK a, b : a = Followed(t, v, m) /\ b = Followed(t.element, u, m)
    OBVIOUS
  <1>4. IsTypeItself(a.type) /\ HasType(a.val, a.type, m)
    BY <1>3, FollowedTyped
  <1>5. t.element.kind = "array" => a.type = t.element
    BY <1>3, FollowedShort DEF Result
  <1>6. SUFFICES SameNumber(a, b) /\ PointsToSame(t, v, a, b, m)
    BY <1>1, <1>2, <1>3, ObjectsDomain DEF Converted
  <1>7. CASE a.type.kind = "reference"
    <2>1. ~IsNumber(a.type) /\ ~IsArrayReference(t)
      BY <1>5, <1>7 DEF IsNumber, is_integer, is_floating_point, IsArrayReference
    <2> QED
      BY <1>7, <2>1 DEF SameNumber, PointsToSame
  <1>8. CASE a.type.kind # "reference"
    <2>1. b.type = a.type /\ Alike(a.val, b.val)
      BY <1>2, <1>3, <1>8, FollowedLoad DEF HasType
    <2>2. SameNumber(a, b)
      BY <1>4, <2>1, SameSelf
    <2>3. ASSUME b.type.kind = "pointer"
          PROVE  ~IsArrayReference(t) /\ b.val.to = a.val.to /\ ~IsNumber(a.type)
      <3>1. a.val.kind = "address"
        BY <1>4, <2>1, <2>3 DEF HasType, HasKind, is_integer, is_floating_point
      <3> QED
        BY <1>5, <2>1, <2>3, <3>1
        DEF Alike, IsArrayReference, IsNumber, is_integer, is_floating_point
    <2>4. PointsToSame(t, v, a, b, m)
      BY <2>3 DEF PointsToSame
    <2> QED
      BY <2>2, <2>4
  <1> QED
    BY <1>7, <1>8

\* A value is put in an object.
LEMMA PlaceConverted ==
    ASSUME NEW m, AreObjects(m), NEW t, NEW v, IsTypeItself(t), t.kind # "reference",
           IsValue(v), HasType(v, t, m), NEW t1, t1.kind = "reference", IsTypeItself(t1), t1.element = t,
           NEW p, p = Place(t, v, m), NEW r, r.val = p.val, r.mem = p.mem
    PROVE  Converted(t, v, m, t1, r)
  <1>1. /\ AreObjects(p.mem) /\ Extends(m, p.mem)
        /\ p.val = Address(Len(m) + 1, v.const) /\ IsValue(p.val)
        /\ Len(m) + 1 \in DOMAIN p.mem
        /\ p.mem[Len(m) + 1].type = t /\ p.mem[Len(m) + 1].val = v
        /\ \A as : HasType(p.val, Reference(t, as), p.mem)
    BY Placed
  <1>2. t1 = Reference(t, t1.as)
    BY DEF IsTypeItself, IsNumber, is_integer, is_floating_point
  <1>3. p.val.to = Len(m) + 1
    BY <1>1 DEF Address
  <1>4. HasType(p.val, t1, p.mem)
    BY <1>1, <1>2
  <1>5. Followed(t, v, p.mem) = Result(t, v) /\ Followed(t1, p.val, p.mem) = Result(t, v)
    BY <1>1, <1>3, FollowedShort
  <1>6. PICK f : f = Result(t, v)
    OBVIOUS
  <1>7. f.type = t /\ f.val = v
    BY <1>6 DEF Result
  <1>8. HasType(v, t, p.mem)
    BY <1>1, ObjectsDomain, TypeStays
  <1>9. SameNumber(f, f)
    BY <1>7, <1>8, SameSelf, AlikeSelf
  <1>10. PointsToSame(t, v, f, f, p.mem)
    BY <1>7 DEF PointsToSame, IsArrayReference, IsNumber, is_integer, is_floating_point
  <1> QED
    BY <1>1, <1>4, <1>5, <1>6, <1>9, <1>10 DEF Converted

LEMMA DirectStep ==
    ASSUME NEW t0, NEW t1, IsType(t0), IsTypeItself(t1),
           NEW m, AreObjects(m), NEW v, IsValue(v), HasType(v, t0, m),
           NEW d, d = Directly(t0, v, m, t1)
    PROVE  /\ d.answer \in {"yes", "no", "undecided"}
           /\ d.answer = "yes" => Converted(t0, v, m, t1, d)
           /\ d.answer = "no" => d.mem = m
  <1>1. \A u, n : Yes(u, n).answer = "yes" /\ Yes(u, n).val = u /\ Yes(u, n).mem = n
    BY DEF Yes
  <1>2. \A why : Not(why, m).answer = why /\ Not(why, m).mem = m
    BY DEF Not
  <1>3. IsTypeItself(t0)
    BY DEF IsType
  <1>4. CASE IsScalar(t0) /\ IsScalar(t1)
    <2>1. d.answer = "yes" => Converted(t0, v, m, t1, d)
      BY <1>3, <1>4, ScalarStep, ScalarConverted
    <2>2. d.answer \in {"yes", "no", "undecided"} /\ (d.answer = "no" => d.mem = m)
      <3>1. \/ \E u : d = Yes(u, m)
            \/ d = Not("no", m) \/ d = Not("undecided", m) \/ d = ConvertScalar(t0, v, m, t1)
        BY <1>4 DEF Directly, IsScalar, IsNumber, is_integer, is_floating_point, IsArrayReference
      <3>2. CASE d = ConvertScalar(t0, v, m, t1)
        BY <1>1, <1>2, <3>2 DEF ConvertScalar
      <3> QED
        BY <1>1, <1>2, <3>1, <3>2
    <2> QED
      BY <2>1, <2>2
  <1>5. CASE t0 = t1
    <2>1. d = Yes(v, m)
      BY <1>5 DEF Directly
    <2> QED
      BY <1>1, <1>3, <1>5, <2>1, KeptAsItIs
  <1>6. CASE IsArrayReference(t0) /\ t1.kind = "pointer" /\ t1.element = t0.element.element
    <2>1. t0.kind = "reference" /\ t0.element.kind = "array" /\ t0 # t1
      BY <1>6 DEF IsArrayReference
    <2>2. d = Yes(v, m)
      BY <1>6, <2>1 DEF Directly, ScalarCast, NullToPointer, is_integer, is_floating_point
    <2>3. IsTypeItself(t0.element)
      BY <2>1, <1>3 DEF IsType, HasElement, IsTypeItself, IsNumber, is_integer, is_floating_point
    <2> QED
      BY <1>1, <1>6, <2>2, <2>3, ArrayPointed
  <1>7. CASE t0.kind = "reference" /\ t0.element = t1 /\ ~(t0 = t1)
             /\ ~(IsArrayReference(t0) /\ t1.kind = "pointer" /\ t1.element = t0.element.element)
    <2>1. d = Yes(Load(v, m), m)
      BY <1>7 DEF Directly, ScalarCast, NullToPointer, is_integer, is_floating_point
    <2> QED
      BY <1>1, <1>3, <1>7, <2>1, LoadConverted
  <1>8. CASE t0.kind # "reference" /\ t1.kind = "reference" /\ t1.element = t0
    <2>1. PICK p : p = Place(t0, v, m)
      OBVIOUS
    <2>2. t0 # t1 /\ ~IsArrayReference(t0)
      BY <1>8 DEF IsArrayReference
    <2>3. d = Yes(p.val, p.mem)
      BY <1>8, <2>1, <2>2 DEF Directly, ScalarCast, NullToPointer, is_integer, is_floating_point
    <2> QED
      BY <1>1, <1>3, <1>8, <2>1, <2>3, PlaceConverted
  <1>9. CASE /\ ~(IsScalar(t0) /\ IsScalar(t1)) /\ t0 # t1
             /\ ~(IsArrayReference(t0) /\ t1.kind = "pointer" /\ t1.element = t0.element.element)
             /\ ~(t0.kind = "reference" /\ t0.element = t1)
             /\ ~(t0.kind # "reference" /\ t1.kind = "reference" /\ t1.element = t0)
    <2>1. d = Not("undecided", m)
      BY <1>9 DEF Directly, ScalarCast, NullToPointer, IsScalar, IsNumber
    <2> QED
      BY <1>2, <2>1
  <1> QED
    BY <1>4, <1>5, <1>6, <1>7, <1>8, <1>9

(***************************************************************************)
(* The levels of Convert.                                                   *)
(***************************************************************************)

\* What a conversion comes to: the direct one, or none, or by way of another type.
ByWay(c, direct, first, second, via, m) ==
    /\ direct.answer # "undecided" => c = direct
    /\ direct.answer = "undecided" /\ via = Void => c = Not("no", m)
    /\ direct.answer = "undecided" /\ via # Void =>
        /\ first.answer # "yes" => c = convert_to_type(first)
        /\ first.answer = "yes" => c = convert_to_type(second)

LEMMA Answers ==
    ASSUME NEW r, NEW v, NEW m, NEW why
    PROVE  /\ Yes(v, m).answer = "yes" /\ Yes(v, m).val = v /\ Yes(v, m).mem = m
           /\ Not(why, m).answer = why /\ Not(why, m).mem = m
           /\ r.answer # "no" => convert_to_type(r) = r
           /\ r.answer = "no" => convert_to_type(r).answer = "throws" /\ convert_to_type(r).mem = r.mem
           /\ convert_to_type(r).answer = "yes" <=> r.answer = "yes"
  BY DEF Yes, Not, convert_to_type

\* One level by way of the one below.
LEMMA Level1 ==
    ASSUME NEW t0, NEW v0, NEW m, NEW t1, NEW via, via = Via(t0, v0, t1)
    PROVE  ByWay(Convert1(t0, v0, m, t1), Directly(t0, v0, m, t1), Not("forever", m),
                 Not("forever", m), via, m)
  <1>1. PICK d : d = Directly(t0, v0, m, t1)
    OBVIOUS
  <1>2. PICK g : g = Not("forever", m)
    OBVIOUS
  <1>3. g.answer = "forever" /\ convert_to_type(g) = g
    BY <1>2, Answers
  <1>4. Convert1(t0, v0, m, t1) =
            CASE d.answer # "undecided" -> d
              [] d.answer = "undecided" /\ via = Void -> Not("no", m)
              [] OTHER -> g
    BY <1>1, <1>2, <1>3 DEF Convert1, ConvertWith, Onwards, ConvertNever
  <1> QED
    BY <1>1, <1>2, <1>3, <1>4 DEF ByWay

LEMMA Level2 ==
    ASSUME NEW t0, NEW v0, NEW m, NEW t1, NEW via, via = Via(t0, v0, t1),
           NEW f, f = Convert1(t0, v0, m, via)
    PROVE  ByWay(Convert2(t0, v0, m, t1), Directly(t0, v0, m, t1), f,
                 Convert1(via, f.val, f.mem, t1), via, m)
  <1>1. PICK d : d = Directly(t0, v0, m, t1)
    OBVIOUS
  <1>2. PICK c : c = convert_to_type(f)
    OBVIOUS
  <1>3. (c.answer = "yes" <=> f.answer = "yes") /\ (f.answer = "yes" => c = f)
    BY <1>2, Answers
  <1>4. Convert2(t0, v0, m, t1) =
            CASE d.answer # "undecided" -> d
              [] d.answer = "undecided" /\ via = Void -> Not("no", m)
              [] OTHER -> IF c.answer # "yes" THEN c
                          ELSE convert_to_type(Convert1(via, c.val, c.mem, t1))
    BY <1>1, <1>2 DEF Convert2, ConvertWith, Onwards
  <1> QED
    BY <1>1, <1>2, <1>3, <1>4 DEF ByWay

LEMMA Level3 ==
    ASSUME NEW t0, NEW v0, NEW m, NEW t1, NEW via, via = Via(t0, v0, t1),
           NEW f, f = Convert2(t0, v0, m, via)
    PROVE  ByWay(Convert3(t0, v0, m, t1), Directly(t0, v0, m, t1), f,
                 Convert2(via, f.val, f.mem, t1), via, m)
  <1>1. PICK d : d = Directly(t0, v0, m, t1)
    OBVIOUS
  <1>2. PICK c : c = convert_to_type(f)
    OBVIOUS
  <1>3. (c.answer = "yes" <=> f.answer = "yes") /\ (f.answer = "yes" => c = f)
    BY <1>2, Answers
  <1>4. Convert3(t0, v0, m, t1) =
            CASE d.answer # "undecided" -> d
              [] d.answer = "undecided" /\ via = Void -> Not("no", m)
              [] OTHER -> IF c.answer # "yes" THEN c
                          ELSE convert_to_type(Convert2(via, c.val, c.mem, t1))
    BY <1>1, <1>2 DEF Convert3, ConvertWith, Onwards
  <1> QED
    BY <1>1, <1>2, <1>3, <1>4 DEF ByWay

LEMMA Level4 ==
    ASSUME NEW t0, NEW v0, NEW m, NEW t1, NEW via, via = Via(t0, v0, t1),
           NEW f, f = Convert3(t0, v0, m, via)
    PROVE  ByWay(Convert(t0, v0, m, t1), Directly(t0, v0, m, t1), f,
                 Convert3(via, f.val, f.mem, t1), via, m)
  <1>1. PICK d : d = Directly(t0, v0, m, t1)
    OBVIOUS
  <1>2. PICK c : c = convert_to_type(f)
    OBVIOUS
  <1>3. (c.answer = "yes" <=> f.answer = "yes") /\ (f.answer = "yes" => c = f)
    BY <1>2, Answers
  <1>4. Convert(t0, v0, m, t1) =
            CASE d.answer # "undecided" -> d
              [] d.answer = "undecided" /\ via = Void -> Not("no", m)
              [] OTHER -> IF c.answer # "yes" THEN c
                          ELSE convert_to_type(Convert3(via, c.val, c.mem, t1))
    BY <1>1, <1>2 DEF Convert, ConvertWith, Onwards
  <1> QED
    BY <1>1, <1>2, <1>3, <1>4 DEF ByWay

\* Where the code decides at once all levels do.
LEMMA AtOnce ==
    ASSUME NEW t0, NEW v0, NEW m, NEW t1, Directly(t0, v0, m, t1).answer # "undecided"
    PROVE  /\ Convert1(t0, v0, m, t1) = Directly(t0, v0, m, t1)
           /\ Convert2(t0, v0, m, t1) = Directly(t0, v0, m, t1)
           /\ Convert3(t0, v0, m, t1) = Directly(t0, v0, m, t1)
           /\ Convert(t0, v0, m, t1) = Directly(t0, v0, m, t1)
  BY Level1, Level2, Level3, Level4 DEF ByWay

\* Where there is no way they say no.
LEMMA NoWay ==
    ASSUME NEW t0, NEW v0, NEW m, NEW t1, Directly(t0, v0, m, t1).answer = "undecided",
           Via(t0, v0, t1) = Void
    PROVE  /\ Convert1(t0, v0, m, t1) = Not("no", m)
           /\ Convert2(t0, v0, m, t1) = Not("no", m)
           /\ Convert3(t0, v0, m, t1) = Not("no", m)
           /\ Convert(t0, v0, m, t1) = Not("no", m)
  BY Level1, Level2, Level3, Level4 DEF ByWay

\* A way of two steps that are decided at once.
LEMMA TwoSteps ==
    ASSUME NEW t0, NEW v0, NEW m, NEW t1, Directly(t0, v0, m, t1).answer = "undecided",
           NEW via, via = Via(t0, v0, t1), via # Void,
           NEW f, f = Directly(t0, v0, m, via), f.answer = "yes",
           NEW r, r = Directly(via, f.val, f.mem, t1), r.answer \notin {"undecided", "no"}
    PROVE  /\ Convert2(t0, v0, m, t1) = r
           /\ Convert3(t0, v0, m, t1) = r
           /\ Convert(t0, v0, m, t1) = r
  <1>1. /\ Convert1(t0, v0, m, via) = f /\ Convert2(t0, v0, m, via) = f
        /\ Convert3(t0, v0, m, via) = f
    BY AtOnce
  <1>2. /\ Convert1(via, f.val, f.mem, t1) = r /\ Convert2(via, f.val, f.mem, t1) = r
        /\ Convert3(via, f.val, f.mem, t1) = r
    BY AtOnce
  <1>3. convert_to_type(r) = r
    BY Answers
  <1>4. ByWay(Convert2(t0, v0, m, t1), Directly(t0, v0, m, t1), f, r, via, m)
    BY <1>1, <1>2, Level2
  <1>5. ByWay(Convert3(t0, v0, m, t1), Directly(t0, v0, m, t1), f, r, via, m)
    BY <1>1, <1>2, Level3
  <1>6. ByWay(Convert(t0, v0, m, t1), Directly(t0, v0, m, t1), f, r, via, m)
    BY <1>1, <1>2, Level4
  <1> QED
    BY <1>3, <1>4, <1>5, <1>6 DEF ByWay

\* The same where the first step goes by a way of its own.
LEMMA ThreeSteps ==
    ASSUME NEW t0, NEW v0, NEW m, NEW t1, Directly(t0, v0, m, t1).answer = "undecided",
           NEW via, via = Via(t0, v0, t1), via # Void,
           NEW f, f = Convert2(t0, v0, m, via), f = Convert3(t0, v0, m, via), f.answer = "yes",
           NEW r, r = Directly(via, f.val, f.mem, t1), r.answer \notin {"undecided", "no"}
    PROVE  Convert3(t0, v0, m, t1) = r /\ Convert(t0, v0, m, t1) = r
  <1>1. Convert2(via, f.val, f.mem, t1) = r /\ Convert3(via, f.val, f.mem, t1) = r
    BY AtOnce
  <1>2. convert_to_type(r) = r
    BY Answers
  <1>3. ByWay(Convert3(t0, v0, m, t1), Directly(t0, v0, m, t1), f, r, via, m)
    BY <1>1, Level3
  <1>4. ByWay(Convert(t0, v0, m, t1), Directly(t0, v0, m, t1), f, r, via, m)
    BY <1>1, Level4
  <1> QED
    BY <1>2, <1>3, <1>4 DEF ByWay

(***************************************************************************)
(* The combined conversions.                                                *)
(***************************************************************************)

\* Scalars that are convertible are converted.
LEMMA ConvertibleScalars ==
    ASSUME NEW t, NEW v, NEW u, convertible_scalars(t, v, u)
    PROVE  IsScalar(t) /\ IsScalar(u)
  BY DEF convertible_scalars, IsScalar, IsNumber, IsVoidPointer

LEMMA ConvertibleYes ==
    ASSUME NEW t, NEW u, IsTypeItself(t), IsTypeItself(u), t # u, NEW v, NEW m, NEW w, w \in {v, AnyValue},
           convertible_scalars(t, w, u)
    PROVE  Directly(t, v, m, u).answer = "yes"
  <1>1. \A x : Yes(x, m).answer = "yes"
    BY DEF Yes
  <1>2. ~LLVMIsNull(AnyValue)
    <2>1. AnyValue.kind = "any" /\ Number(0, TRUE).kind = "number"
      BY DEF AnyValue, Number
    <2> QED
      BY <2>1 DEF LLVMIsNull
  <1>3. CASE ScalarCast(t, u)
    <2>1. t.width \in Nat /\ u.width \in Nat
      BY <1>3 DEF ScalarCast, IsTypeItself, IsNumber, is_integer, is_floating_point
    <2>2. Directly(t, v, m, u) = ConvertScalar(t, v, m, u)
      BY <1>3 DEF Directly
    <2>3. (t.kind # "float" /\ u.kind = "float") \/ t.width <= u.width
      BY <1>3 DEF convertible_scalars, ScalarCast, is_integer, is_floating_point
    <2> QED
      BY <1>1, <2>1, <2>2, <2>3 DEF ConvertScalar
  <1>4. CASE ~ScalarCast(t, u)
    <2>1. \/ NullToPointer(t, v, u)
          \/ t.kind = "pointer" /\ IsVoidPointer(u)
      BY <1>2, <1>4 DEF convertible_scalars, ScalarCast, NullToPointer
    <2> QED
      BY <1>1, <1>4, <2>1 DEF Directly, IsVoidPointer
  <1> QED
    BY <1>3, <1>4

\* Placing what a conversion gives is the conversion to a reference.
LEMMA ThenPlaced ==
    ASSUME NEW m, AreObjects(m), NEW t0, NEW v, HasType(v, t0, m),
           t0.kind = "reference" => t0.element.kind # "reference",
           NEW t1, IsType(t1), t1.kind = "reference", t1.element.kind # "reference",
           NEW f, Converted(t0, v, m, t1.element, f),
           NEW p, p = Place(t1.element, f.val, f.mem), NEW r, r.val = p.val, r.mem = p.mem
    PROVE  Converted(t0, v, m, t1, r)
  <1>1. PICK n : n = f.mem
    OBVIOUS
  <1>2. /\ AreObjects(n) /\ Extends(m, n) /\ IsValue(f.val) /\ HasType(f.val, t1.element, n)
        /\ SameNumber(Followed(t0, v, n), Followed(t1.element, f.val, n))
        /\ PointsToSame(t0, v, Followed(t0, v, n), Followed(t1.element, f.val, n), n)
    BY <1>1 DEF Converted
  <1>3. IsTypeItself(t1.element) /\ t1 = Reference(t1.element, t1.as)
    BY DEF IsType, IsTypeItself, HasElement, IsNumber, is_integer, is_floating_point
  <1>4. /\ AreObjects(p.mem) /\ Extends(n, p.mem)
        /\ p.val = Address(Len(n) + 1, f.val.const) /\ IsValue(p.val)
        /\ Len(n) + 1 \in DOMAIN p.mem
        /\ p.mem[Len(n) + 1].type = t1.element /\ p.mem[Len(n) + 1].val = f.val
        /\ \A as : HasType(p.val, Reference(t1.element, as), p.mem)
    BY <1>1, <1>2, <1>3, Placed
  <1>5. HasType(p.val, t1, p.mem)
    BY <1>3, <1>4
  <1>6. p.val.to = Len(n) + 1
    BY <1>4 DEF Address
  <1>7. Followed(t1, p.val, p.mem) = Followed(t1.element, f.val, n)
    BY <1>4, <1>6, FollowedShort
  <1>8. \A i \in DOMAIN n : i \in DOMAIN p.mem /\ p.mem[i] = n[i]
    BY <1>2, <1>4, ObjectsDomain DEF Extends
  <1>9. Followed(t0, v, p.mem) = Followed(t0, v, n)
    <2>1. CASE t0.kind = "reference"
      <3>1. v.to \in DOMAIN m
        BY <2>1, AddressTyped DEF RefersTo
      <3>2. v.to \in DOMAIN n
        BY <1>2, <3>1, ObjectsDomain DEF Extends
      <3> QED
        BY <1>8, <2>1, <3>2, FollowedShort
    <2>2. CASE t0.kind # "reference"
      BY <2>2, FollowedShort
    <2> QED
      BY <2>1, <2>2
  <1>10. PICK a, b : a = Followed(t0, v, n) /\ b = Followed(t1.element, f.val, n)
    OBVIOUS
  <1>11. PointsToSame(t0, v, a, b, p.mem)
    BY <1>2, <1>8, <1>10 DEF PointsToSame
  <1>12. Extends(m, p.mem)
    BY <1>2, <1>4, ExtendsTransitive
  <1> QED
    BY <1>2, <1>4, <1>5, <1>7, <1>9, <1>10, <1>11, <1>12 DEF Converted

\* What is placed is found at once.
LEMMA PlacedAtOnce ==
    ASSUME NEW t1, IsTypeItself(t1), t1.kind = "reference", t1.element.kind # "reference", NEW v, NEW m,
           NEW p, p = Place(t1.element, v, m)
    PROVE  Directly(t1.element, v, m, t1) = Yes(p.val, p.mem)
  <1>1. t1.element # t1
    BY DEF IsTypeItself, IsNumber, is_integer, is_floating_point
  <1> QED
    BY <1>1 DEF Directly, ScalarCast, NullToPointer, IsArrayReference, is_integer, is_floating_point

\* Where the scalars lead.
LEMMA ViaScalars ==
    ASSUME NEW t0, NEW v, NEW t1, NEW via, via = ViaScalar(t0, v, t1)
    PROVE  /\ t0.kind = "reference" /\ t1.kind = "reference" =>
                IF convertible_scalars(t0.element, AnyValue, t1.element) THEN via = t1.element ELSE via = Void
           /\ t0.kind = "reference" /\ t1.kind # "reference" =>
                IF convertible_scalars(t0.element, AnyValue, t1) THEN via = t0.element ELSE via = Void
           /\ t0.kind # "reference" /\ t1.kind = "reference" =>
                IF convertible_scalars(t0, v, t1.element) THEN via = t1.element ELSE via = Void
           /\ t0.kind # "reference" /\ t1.kind # "reference" => via = Void
  <1>1. CASE t0.kind = "reference" /\ t1.kind = "reference"
    BY <1>1 DEF ViaScalar
  <1>2. CASE t0.kind = "reference" /\ t1.kind # "reference"
    BY <1>2 DEF ViaScalar
  <1>3. CASE t0.kind # "reference" /\ t1.kind = "reference"
    BY <1>3 DEF ViaScalar
  <1>4. CASE t0.kind # "reference" /\ t1.kind # "reference"
    BY <1>4 DEF ViaScalar
  <1> QED
    BY <1>1, <1>2, <1>3, <1>4

LEMMA NotVoid ==
    ASSUME NEW t, IsTypeItself(t)
    PROVE  t # Void
  BY DEF IsTypeItself, Void, IsNumber, is_integer, is_floating_point

\* &A to B, by way of A.
LEMMA LoadThenScalar ==
    ASSUME NEW t0, IsType(t0), t0.kind = "reference", NEW t1, IsTypeItself(t1), t0.element # t1,
           convertible_scalars(t0.element, AnyValue, t1),
           NEW m, AreObjects(m), NEW v, IsValue(v), HasType(v, t0, m)
    PROVE  \E r : /\ r.answer = "yes" /\ Converted(t0, v, m, t1, r)
                  /\ Convert2(t0, v, m, t1) = r /\ Convert3(t0, v, m, t1) = r /\ Convert(t0, v, m, t1) = r
  <1>1. PICK a : a = t0.element
    OBVIOUS
  <1>2. IsScalar(a) /\ IsScalar(t1)
    BY <1>1, ConvertibleScalars
  <1>3. IsTypeItself(t0) /\ IsTypeItself(a) /\ a # t0
    BY <1>1 DEF IsType, HasElement, IsTypeItself, IsNumber, is_integer, is_floating_point
  <1>4. a.kind \notin {"reference", "array"} /\ t1.kind \notin {"reference", "array"}
    BY <1>2 DEF IsScalar, IsNumber, is_integer, is_floating_point
  <1>5. PICK u : u = Load(v, m)
    OBVIOUS
  <1>6. /\ v.to \in 1 .. Len(m) /\ IsValue(u) /\ HasType(u, a, m)
        /\ Alike(m[v.to].val, u) /\ HasType(m[v.to].val, a, m)
    BY <1>1, <1>3, <1>5, Loaded
  <1>7. PICK r : r = Directly(a, u, m, t1)
    OBVIOUS
  <1>8. r.answer = "yes"
    BY <1>1, <1>3, <1>7, ConvertibleYes
  <1>9. ScalarKept(a, u, m, t1, r)
    BY <1>2, <1>3, <1>6, <1>7, <1>8, ScalarStep
  <1>10. Converted(t0, v, m, t1, r)
    <2>1. PICK w : w = m[v.to].val
      OBVIOUS
    <2>2. r.mem = m /\ Extends(m, m) /\ AreObjects(m) /\ IsValue(r.val) /\ HasType(r.val, t1, m)
      BY <1>9, ObjectsDomain DEF ScalarKept
    <2>3. Followed(t0, v, m) = Result(a, w) /\ Followed(t1, r.val, m) = Result(t1, r.val)
      BY <1>1, <1>4, <2>1, FollowedShort
    <2>4. \A e, x : Result(e, x).type = e /\ Result(e, x).val = x
      BY DEF Result
    <2>5. IsNumber(a) => u.n = w.n
      BY <1>6, <2>1, TypedNumber DEF Alike
    <2>6. SameNumber(Result(a, w), Result(t1, r.val))
      BY <1>9, <2>4, <2>5 DEF ScalarKept, SameNumber
    <2>7. ~IsArrayReference(t0) /\ t0.kind # "array"
      BY <1>1, <1>4 DEF IsArrayReference
    <2>8. a.kind = "pointer" => u.to = w.to
      BY <1>6, <2>1, AddressTyped DEF Alike, PointsTo
    <2>9. PointsToSame(t0, v, Result(a, w), Result(t1, r.val), m)
      BY <1>9, <2>4, <2>7, <2>8 DEF ScalarKept, PointsToSame
    <2> QED
      BY <2>2, <2>3, <2>6, <2>9 DEF Converted
  <1>11. Directly(t0, v, m, t1) = Not("undecided", m)
    BY <1>1, <1>4 DEF Directly, ScalarCast, NullToPointer, IsArrayReference, is_integer, is_floating_point
  <1>12. Not("undecided", m).answer = "undecided" /\ Yes(u, m).answer = "yes" /\ Yes(u, m).val = u /\ Yes(u, m).mem = m
    BY Answers
  <1>13. a # Void
    BY <1>3, NotVoid
  <1>14. Via(t0, v, t1) = a
    BY <1>1, <1>4, <1>13, ViaScalars DEF Via
  <1>15. Directly(t0, v, m, a) = Yes(u, m)
    BY <1>1, <1>3, <1>4, <1>5 DEF Directly, ScalarCast, NullToPointer, IsArrayReference, is_integer, is_floating_point
  <1>16. Convert2(t0, v, m, t1) = r /\ Convert3(t0, v, m, t1) = r /\ Convert(t0, v, m, t1) = r
    BY <1>7, <1>8, <1>11, <1>12, <1>13, <1>14, <1>15, TwoSteps
  <1> QED
    BY <1>8, <1>10, <1>16

\* A to &B, by way of B.
LEMMA ScalarThenPlace ==
    ASSUME NEW t0, IsTypeItself(t0), NEW t1, IsType(t1), t1.kind = "reference", t0 # t1.element,
           NEW m, AreObjects(m), NEW v, IsValue(v), HasType(v, t0, m),
           convertible_scalars(t0, v, t1.element)
    PROVE  \E r : /\ r.answer = "yes" /\ Converted(t0, v, m, t1, r)
                  /\ Convert2(t0, v, m, t1) = r /\ Convert3(t0, v, m, t1) = r /\ Convert(t0, v, m, t1) = r
  <1>1. PICK b : b = t1.element
    OBVIOUS
  <1>2. IsScalar(t0) /\ IsScalar(b)
    BY <1>1, ConvertibleScalars
  <1>3. IsTypeItself(t1) /\ IsTypeItself(b)
    BY <1>1 DEF IsType, HasElement, IsTypeItself, IsNumber, is_integer, is_floating_point
  <1>4. t0.kind \notin {"reference", "array"} /\ b.kind \notin {"reference", "array"}
    BY <1>2 DEF IsScalar, IsNumber, is_integer, is_floating_point
  <1>5. PICK f : f = Directly(t0, v, m, b)
    OBVIOUS
  <1>6. f.answer = "yes"
    BY <1>1, <1>3, <1>5, ConvertibleYes
  <1>7. Converted(t0, v, m, b, f)
    BY <1>2, <1>3, <1>5, <1>6, ScalarStep, ScalarConverted
  <1>8. PICK p : p = Place(b, f.val, f.mem)
    OBVIOUS
  <1>9. PICK r : r = Yes(p.val, p.mem)
    OBVIOUS
  <1>10. r.answer = "yes" /\ r.val = p.val /\ r.mem = p.mem
    BY <1>9, Answers
  <1>11. Converted(t0, v, m, t1, r)
    BY <1>1, <1>4, <1>7, <1>8, <1>10, ThenPlaced
  <1>12. Directly(b, f.val, f.mem, t1) = r
    BY <1>1, <1>3, <1>4, <1>8, <1>9, PlacedAtOnce
  <1>13. Directly(t0, v, m, t1) = Not("undecided", m)
    BY <1>1, <1>4 DEF Directly, ScalarCast, NullToPointer, IsArrayReference, is_integer, is_floating_point
  <1>14. Not("undecided", m).answer = "undecided"
    BY Answers
  <1>15. b # Void
    BY <1>3, NotVoid
  <1>16. Via(t0, v, t1) = b
    BY <1>1, <1>4, <1>15, ViaScalars DEF Via
  <1>17. Convert2(t0, v, m, t1) = r /\ Convert3(t0, v, m, t1) = r /\ Convert(t0, v, m, t1) = r
    BY <1>5, <1>6, <1>10, <1>12, <1>13, <1>14, <1>15, <1>16, TwoSteps
  <1> QED
    BY <1>10, <1>11, <1>17

\* &A to &B, by way of B, to which the way leads over A.
LEMMA LoadScalarPlace ==
    ASSUME NEW t0, IsType(t0), t0.kind = "reference", NEW t1, IsType(t1), t1.kind = "reference", t0 # t1,
           convertible_scalars(t0.element, AnyValue, t1.element),
           NEW m, AreObjects(m), NEW v, IsValue(v), HasType(v, t0, m)
    PROVE  \E r : r.answer = "yes" /\ Converted(t0, v, m, t1, r) /\ Convert(t0, v, m, t1) = r
  <1>1. PICK b : b = t1.element
    OBVIOUS
  <1>2. IsScalar(t0.element) /\ IsScalar(b)
    BY <1>1, ConvertibleScalars
  <1>3. IsTypeItself(t0) /\ IsTypeItself(t1) /\ IsTypeItself(b)
    BY <1>1 DEF IsType, HasElement, IsTypeItself, IsNumber, is_integer, is_floating_point
  <1>4. t0.element.kind \notin {"reference", "array"} /\ b.kind \notin {"reference", "array"}
    BY <1>2 DEF IsScalar, IsNumber, is_integer, is_floating_point
  <1>5. PICK f : /\ f.answer = "yes" /\ Converted(t0, v, m, b, f)
                 /\ Convert2(t0, v, m, b) = f /\ Convert3(t0, v, m, b) = f
    <2>1. CASE t0.element = b
      <3>1. PICK f : f = Directly(t0, v, m, b)
        OBVIOUS
      <3>2. Directly(t0, v, m, b) = Yes(Load(v, m), m)
        BY <1>4, <2>1 DEF Directly, ScalarCast, NullToPointer, IsArrayReference, is_integer, is_floating_point
      <3>3. f.answer = "yes" /\ f.val = Load(v, m) /\ f.mem = m
        BY <3>1, <3>2, Answers
      <3>4. Converted(t0, v, m, b, f)
        BY <1>3, <2>1, <3>3, LoadConverted
      <3>5. Convert2(t0, v, m, b) = f /\ Convert3(t0, v, m, b) = f
        BY <3>1, <3>3, AtOnce
      <3> QED
        BY <3>3, <3>4, <3>5
    <2>2. CASE t0.element # b
      BY <1>1, <1>3, <2>2, LoadThenScalar
    <2> QED
      BY <2>1, <2>2
  <1>6. PICK p : p = Place(b, f.val, f.mem)
    OBVIOUS
  <1>7. PICK r : r = Yes(p.val, p.mem)
    OBVIOUS
  <1>8. r.answer = "yes" /\ r.val = p.val /\ r.mem = p.mem
    BY <1>7, Answers
  <1>9. Converted(t0, v, m, t1, r)
    BY <1>1, <1>4, <1>5, <1>6, <1>8, ThenPlaced
  <1>10. Directly(b, f.val, f.mem, t1) = r
    BY <1>1, <1>3, <1>4, <1>6, <1>7, PlacedAtOnce
  <1>11. Directly(t0, v, m, t1) = Not("undecided", m)
    BY <1>1, <1>4 DEF Directly, ScalarCast, NullToPointer, IsArrayReference, is_integer, is_floating_point
  <1>12. Not("undecided", m).answer = "undecided"
    BY Answers
  <1>13. b # Void
    BY <1>3, NotVoid
  <1>14. Via(t0, v, t1) = b
    BY <1>1, <1>4, <1>13, ViaScalars DEF Via
  <1>15. Convert(t0, v, m, t1) = r
    BY <1>5, <1>8, <1>10, <1>11, <1>12, <1>13, <1>14, ThreeSteps
  <1> QED
    BY <1>8, <1>9, <1>15

\* An array is no scalar, nor is a reference to one a reference to a scalar.
LEMMA ArrayNoScalar ==
    ASSUME NEW t0, NEW v, NEW t1, t0.kind = "array" \/ IsArrayReference(t0)
    PROVE  ViaScalar(t0, v, t1) = Void
  <1>1. \A a, u, b : a.kind = "array" => ~convertible_scalars(a, u, b)
    BY DEF convertible_scalars, is_integer, is_floating_point
  <1> QED
    BY <1>1, ViaScalars DEF IsArrayReference

LEMMA ArrayType ==
    ASSUME NEW t, IsTypeItself(t), t.kind = "array"
    PROVE  t = Array(t.element) /\ t.element # Void /\ t.element # t
  BY DEF IsTypeItself, IsNumber, is_integer, is_floating_point

\* &[T], what the code knows of it.
LEMMA ArrayReferenceType ==
    ASSUME NEW t, IsType(t), IsArrayReference(t)
    PROVE  /\ IsTypeItself(t) /\ IsTypeItself(t.element)
           /\ t.kind = "reference" /\ t.element.kind = "array"
           /\ t.element = Array(t.element.element) /\ t.element.element # Void
  <1>1. IsTypeItself(t) /\ t.kind = "reference" /\ t.element.kind = "array"
    BY DEF IsType, IsArrayReference
  <1>2. IsTypeItself(t.element)
    BY <1>1 DEF IsType, HasElement, IsTypeItself, IsNumber, is_integer, is_floating_point
  <1> QED
    BY <1>1, <1>2, ArrayType

LEMMA ArrayReferenceAtOnce ==
    ASSUME NEW t0, IsArrayReference(t0), NEW t1, t1.kind = "pointer", t1.element = t0.element.element,
           NEW v, NEW m
    PROVE  Directly(t0, v, m, t1) = Yes(v, m)
  BY DEF Directly, ScalarCast, NullToPointer, IsArrayReference, is_integer, is_floating_point

\* &[T] to *void, by way of *T.
LEMMA ArrayReferenceToVoid ==
    ASSUME NEW t0, IsType(t0), IsArrayReference(t0), NEW t1, IsVoidPointer(t1), NEW v, NEW m,
           NEW r, r = Yes(v, m)
    PROVE  Convert2(t0, v, m, t1) = r /\ Convert3(t0, v, m, t1) = r /\ Convert(t0, v, m, t1) = r
  <1>1. PICK e : e = t0.element.element
    OBVIOUS
  <1>2. t0.kind = "reference" /\ t0.element.kind = "array" /\ e # Void
    BY <1>1, ArrayReferenceType
  <1>3. t1.kind = "pointer" /\ t1.element = Void
    BY DEF IsVoidPointer
  <1>4. PICK via : via = Pointer(e, t0.as)
    OBVIOUS
  <1>5. via.kind = "pointer" /\ via.element = e
    BY <1>4 DEF Pointer
  <1>6. via # Void
    BY <1>5 DEF Void
  <1>7. Via(t0, v, t1) = via
    BY <1>1, <1>3, <1>4, ArrayNoScalar DEF Via, ViaArrayReference, IsVoidPointer
  <1>8. Directly(t0, v, m, via) = r
    BY <1>1, <1>5, ArrayReferenceAtOnce
  <1>9. r.answer = "yes" /\ r.val = v /\ r.mem = m
    BY Answers
  <1>10. Directly(via, v, m, t1) = r
    BY <1>3, <1>5 DEF Directly, ScalarCast, NullToPointer, IsVoidPointer, is_integer, is_floating_point
  <1>11. Directly(t0, v, m, t1) = Not("undecided", m)
    BY <1>1, <1>2, <1>3
    DEF Directly, ScalarCast, NullToPointer, IsArrayReference, is_integer, is_floating_point
  <1>12. Not("undecided", m).answer = "undecided"
    BY Answers
  <1> QED
    BY <1>6, <1>7, <1>8, <1>9, <1>10, <1>11, <1>12, TwoSteps

\* &[T] to &*void, by way of *void.
LEMMA ArrayReferenceToVoidReference ==
    ASSUME NEW t0, IsType(t0), IsArrayReference(t0),
           NEW t1, IsType(t1), t1.kind = "reference", IsVoidPointer(t1.element),
           NEW m, AreObjects(m), NEW v, IsValue(v), HasType(v, t0, m)
    PROVE  \E r : r.answer = "yes" /\ Converted(t0, v, m, t1, r) /\ Convert(t0, v, m, t1) = r
  <1>1. PICK b : b = t1.element
    OBVIOUS
  <1>2. /\ IsTypeItself(t0.element) /\ t0.kind = "reference" /\ t0.element.kind = "array"
        /\ t0.element.element # Void
    BY ArrayReferenceType
  <1>3. b.kind = "pointer" /\ b.element = Void
    BY <1>1 DEF IsVoidPointer
  <1>4. IsTypeItself(t1)
    BY DEF IsType
  <1>5. PICK f : f = Yes(v, m)
    OBVIOUS
  <1>6. f.answer = "yes" /\ f.val = v /\ f.mem = m
    BY <1>5, Answers
  <1>7. Convert2(t0, v, m, b) = f /\ Convert3(t0, v, m, b) = f
    BY <1>1, <1>5, ArrayReferenceToVoid
  <1>8. Converted(t0, v, m, b, f)
    BY <1>2, <1>3, <1>6, ArrayPointed
  <1>9. PICK p : p = Place(b, f.val, f.mem)
    OBVIOUS
  <1>10. PICK r : r = Yes(p.val, p.mem)
    OBVIOUS
  <1>11. r.answer = "yes" /\ r.val = p.val /\ r.mem = p.mem
    BY <1>10, Answers
  <1>12. Converted(t0, v, m, t1, r)
    BY <1>1, <1>2, <1>3, <1>8, <1>9, <1>11, ThenPlaced
  <1>13. Directly(b, f.val, f.mem, t1) = r
    BY <1>1, <1>3, <1>4, <1>9, <1>10, PlacedAtOnce
  <1>14. Directly(t0, v, m, t1) = Not("undecided", m)
    <2>1. t0 # t1
      BY <1>1, <1>2, <1>3
    <2>2. t0.element # t1
      BY <1>2
    <2> QED
      BY <1>2, <2>1, <2>2 DEF Directly, ScalarCast, NullToPointer, is_integer, is_floating_point
  <1>15. Not("undecided", m).answer = "undecided"
    BY Answers
  <1>16. b # Void
    BY <1>3 DEF Void
  <1>17. Via(t0, v, t1) = b
    <2>1. ~IsVoidPointer(t1)
      BY DEF IsVoidPointer
    <2> QED
      BY <1>1, <1>2, <1>3, <2>1, ArrayNoScalar DEF Via, ViaArrayReference
  <1>18. Convert(t0, v, m, t1) = r
    BY <1>6, <1>7, <1>11, <1>13, <1>14, <1>15, <1>16, <1>17, ThreeSteps
  <1> QED
    BY <1>11, <1>12, <1>18

\* &[T] to &*T, by way of *T in the address space of the array, which must be the
\* address space that the pointer is wanted in.
LEMMA ArrayReferenceToPointerReference ==
    ASSUME NEW t0, IsType(t0), IsArrayReference(t0),
           NEW t1, IsType(t1), t1.kind = "reference", t1.element.kind = "pointer",
           t1.element.element = t0.element.element,
           NEW m, AreObjects(m), NEW v, IsValue(v), HasType(v, t0, m)
    PROVE  \E r : /\ Convert(t0, v, m, t1) = r
                  /\ \/ r.answer = "yes" /\ Converted(t0, v, m, t1, r)
                     \/ r.answer = "throws" /\ r.mem = m /\ BegunInVain(t0, t1)
  <1>1. PICK b, e : b = t1.element /\ e = t0.element.element
    OBVIOUS
  <1>2. /\ IsTypeItself(t0.element) /\ t0.kind = "reference" /\ t0.element.kind = "array" /\ e # Void
    BY <1>1, ArrayReferenceType
  <1>3. b.kind = "pointer" /\ b.element = e
    BY <1>1
  <1>4. IsTypeItself(t1) /\ IsTypeItself(b)
    BY <1>1 DEF IsType, HasElement, IsTypeItself, IsNumber, is_integer, is_floating_point
  <1>5. b = Pointer(e, b.as)
    BY <1>3, <1>4 DEF IsTypeItself, IsNumber, is_integer, is_floating_point
  <1>6. PICK via : via = Pointer(e, t0.as)
    OBVIOUS
  <1>7. via.kind = "pointer" /\ via.element = e /\ via.as = t0.as
    BY <1>6 DEF Pointer
  <1>8. via # Void
    BY <1>7 DEF Void
  <1>9. Via(t0, v, t1) = via
    <2>1. ~IsVoidPointer(t1) /\ ~IsVoidPointer(t1.element)
      BY <1>1, <1>2, <1>3 DEF IsVoidPointer
    <2> QED
      BY <1>1, <1>2, <1>3, <1>6, <2>1, ArrayNoScalar DEF Via, ViaArrayReference
  <1>10. PICK f : f = Yes(v, m)
    OBVIOUS
  <1>11. f.answer = "yes" /\ f.val = v /\ f.mem = m
    BY <1>10, Answers
  <1>12. Directly(t0, v, m, via) = f
    BY <1>1, <1>7, <1>10, ArrayReferenceAtOnce
  <1>13. Directly(t0, v, m, t1) = Not("undecided", m)
    <2>1. t0 # t1
      BY <1>1, <1>2, <1>3
    <2>2. t0.element # t1
      BY <1>2
    <2> QED
      BY <1>2, <2>1, <2>2 DEF Directly, ScalarCast, NullToPointer, is_integer, is_floating_point
  <1>14. Not("undecided", m).answer = "undecided" /\ Not("no", m).answer = "no"
    BY Answers
  <1>15. CASE b = via
    <2>1. PICK p : p = Place(b, v, m)
      OBVIOUS
    <2>2. PICK r : r = Yes(p.val, p.mem)
      OBVIOUS
    <2>3. r.answer = "yes" /\ r.val = p.val /\ r.mem = p.mem
      BY <2>2, Answers
    <2>4. Converted(t0, v, m, b, f)
      BY <1>1, <1>2, <1>3, <1>11, ArrayPointed
    <2>5. Converted(t0, v, m, t1, r)
      BY <1>1, <1>2, <1>3, <1>11, <2>1, <2>3, <2>4, ThenPlaced
    <2>6. Directly(via, v, m, t1) = r
      BY <1>1, <1>3, <1>4, <1>15, <2>1, <2>2, PlacedAtOnce
    <2>7. Convert(t0, v, m, t1) = r
      BY <1>8, <1>9, <1>11, <1>12, <1>13, <1>14, <2>3, <2>6, TwoSteps
    <2> QED
      BY <2>3, <2>5, <2>7
  <1>16. CASE b # via
    <2>1. b.as # t0.as
      BY <1>5, <1>6, <1>16
    <2>2. BegunInVain(t0, t1)
      BY <1>1, <1>3, <2>1 DEF BegunInVain
    <2>3. Directly(via, v, m, t1) = Not("undecided", m)
      BY <1>1, <1>7, <1>16 DEF Directly, ScalarCast, NullToPointer, IsArrayReference, is_integer, is_floating_point
    <2>4. ~convertible_scalars(via, v, b)
      BY <1>2, <1>3, <1>7 DEF convertible_scalars, IsVoidPointer, is_integer, is_floating_point
    <2>5. Via(via, v, t1) = Void
      BY <1>1, <1>7, <2>4, ViaScalars DEF Via, IsArrayReference
    <2>6. PICK n : n = Not("no", m)
      OBVIOUS
    <2>7. Convert3(via, v, m, t1) = n
      BY <1>14, <2>3, <2>5, <2>6, NoWay
    <2>8. Convert3(t0, v, m, via) = f
      BY <1>11, <1>12, AtOnce
    <2>9. ByWay(Convert(t0, v, m, t1), Directly(t0, v, m, t1), f, n, via, m)
      BY <1>9, <1>11, <2>7, <2>8, Level4
    <2>10. Convert(t0, v, m, t1) = convert_to_type(n)
      BY <1>8, <1>11, <1>13, <1>14, <2>9 DEF ByWay
    <2>11. convert_to_type(n).answer = "throws" /\ convert_to_type(n).mem = m
      BY <1>14, <2>6, Answers
    <2> QED
      BY <2>2, <2>10, <2>11
  <1> QED
    BY <1>15, <1>16

\* What is directly decided of an array: only to its own type, or a reference to it.
LEMMA ArrayUndecided ==
    ASSUME NEW t0, t0.kind = "array", NEW t1, t0 # t1, t1.kind = "reference" => t1.element # t0,
           NEW v, NEW m
    PROVE  Directly(t0, v, m, t1).answer = "undecided"
  <1>1. Directly(t0, v, m, t1) = Not("undecided", m)
    BY DEF Directly, ScalarCast, NullToPointer, IsArrayReference, is_integer, is_floating_point
  <1> QED
    BY <1>1, Answers

\* [T] to *T, by way of &[T].
LEMMA ArrayToPointer ==
    ASSUME NEW t0, IsTypeItself(t0), t0.kind = "array",
           NEW t1, t1.kind = "pointer", t1.element = t0.element,
           NEW m, AreObjects(m), NEW v, IsValue(v), HasType(v, t0, m)
    PROVE  \E r : /\ r.answer = "yes" /\ Converted(t0, v, m, t1, r)
                  /\ Convert2(t0, v, m, t1) = r /\ Convert3(t0, v, m, t1) = r /\ Convert(t0, v, m, t1) = r
  <1>1. t0 = Array(t0.element) /\ t0.element # Void
    BY ArrayType
  <1>2. PICK via : via = Reference(t0, t1.as)
    OBVIOUS
  <1>3. via.kind = "reference" /\ via.element = t0
    BY <1>2 DEF Reference
  <1>4. via # Void
    BY <1>3 DEF Void
  <1>5. Via(t0, v, t1) = via
    <2>1. ~IsVoidPointer(t1) /\ ~IsArrayReference(t0)
      BY <1>1 DEF IsVoidPointer, IsArrayReference
    <2> QED
      BY <1>2, <2>1, ArrayNoScalar DEF Via, ViaArray
  <1>6. PICK p : p = Place(t0, v, m)
    OBVIOUS
  <1>7. /\ AreObjects(p.mem) /\ Extends(m, p.mem)
        /\ p.val = Address(Len(m) + 1, v.const) /\ IsValue(p.val)
        /\ Len(m) + 1 \in DOMAIN p.mem
        /\ p.mem[Len(m) + 1].type = t0 /\ p.mem[Len(m) + 1].val = v
    BY <1>6, Placed
  <1>8. p.val.kind = "address" /\ p.val.to = Len(m) + 1
    BY <1>7 DEF Address
  <1>9. PICK f, r : f = Yes(p.val, p.mem) /\ r = f
    OBVIOUS
  <1>10. /\ f.answer = "yes" /\ f.val = p.val /\ f.mem = p.mem
         /\ r.answer = "yes" /\ r.val = p.val /\ r.mem = p.mem
    BY <1>9, Answers
  <1>11. Directly(t0, v, m, via) = f
    <2>1. t0 # via /\ ~IsArrayReference(t0)
      BY <1>3 DEF IsArrayReference
    <2> QED
      BY <1>3, <1>6, <1>9, <2>1 DEF Directly, ScalarCast, NullToPointer, is_integer, is_floating_point
  <1>12. Directly(via, f.val, f.mem, t1) = r
    <2>1. IsArrayReference(via)
      BY <1>3 DEF IsArrayReference
    <2> QED
      BY <1>3, <1>9, <1>10, <2>1, ArrayReferenceAtOnce
  <1>13. Directly(t0, v, m, t1).answer = "undecided"
    BY ArrayUndecided
  <1>14. Convert2(t0, v, m, t1) = r /\ Convert3(t0, v, m, t1) = r /\ Convert(t0, v, m, t1) = r
    BY <1>4, <1>5, <1>10, <1>11, <1>12, <1>13, TwoSteps
  <1>15. HasType(p.val, t1, p.mem)
    BY <1>1, <1>7, <1>8, AddressTyped DEF PointsTo
  <1>16. Followed(t0, v, p.mem) = Result(t0, v) /\ Followed(t1, p.val, p.mem) = Result(t1, p.val)
    BY FollowedShort
  <1>17. \A e, x : Result(e, x).type = e /\ Result(e, x).val = x
    BY DEF Result
  <1>18. SameNumber(Result(t0, v), Result(t1, p.val))
    BY <1>17 DEF SameNumber, IsNumber, is_integer, is_floating_point
  <1>19. PointsToSame(t0, v, Result(t0, v), Result(t1, p.val), p.mem)
    BY <1>7, <1>8, <1>17 DEF PointsToSame, IsArrayReference, IsNumber, is_integer, is_floating_point
  <1>20. Converted(t0, v, m, t1, r)
    BY <1>7, <1>10, <1>15, <1>16, <1>18, <1>19 DEF Converted
  <1> QED
    BY <1>10, <1>14, <1>20

\* [T] to &*T, by way of *T.
LEMMA ArrayToPointerReference ==
    ASSUME NEW t0, IsTypeItself(t0), t0.kind = "array",
           NEW t1, IsType(t1), t1.kind = "reference", t1.element.kind = "pointer",
           t1.element.element = t0.element,
           NEW m, AreObjects(m), NEW v, IsValue(v), HasType(v, t0, m)
    PROVE  \E r : r.answer = "yes" /\ Converted(t0, v, m, t1, r) /\ Convert(t0, v, m, t1) = r
  <1>1. PICK b : b = t1.element
    OBVIOUS
  <1>2. b.kind = "pointer" /\ b.element = t0.element
    BY <1>1
  <1>3. IsTypeItself(t1)
    BY DEF IsType
  <1>4. PICK f : /\ f.answer = "yes" /\ Converted(t0, v, m, b, f)
                 /\ Convert2(t0, v, m, b) = f /\ Convert3(t0, v, m, b) = f
    BY <1>2, ArrayToPointer
  <1>5. PICK p : p = Place(b, f.val, f.mem)
    OBVIOUS
  <1>6. PICK r : r = Yes(p.val, p.mem)
    OBVIOUS
  <1>7. r.answer = "yes" /\ r.val = p.val /\ r.mem = p.mem
    BY <1>6, Answers
  <1>8. Converted(t0, v, m, t1, r)
    BY <1>1, <1>2, <1>4, <1>5, <1>7, ThenPlaced
  <1>9. Directly(b, f.val, f.mem, t1) = r
    BY <1>1, <1>2, <1>3, <1>5, <1>6, PlacedAtOnce
  <1>10. Directly(t0, v, m, t1).answer = "undecided"
    BY <1>1, <1>2, ArrayUndecided
  <1>11. b # Void
    BY <1>2 DEF Void
  <1>12. Via(t0, v, t1) = b
    BY <1>1, <1>2, ArrayNoScalar DEF Via, ViaArray, IsArrayReference, IsVoidPointer
  <1>13. Convert(t0, v, m, t1) = r
    BY <1>4, <1>7, <1>9, <1>10, <1>11, <1>12, ThreeSteps
  <1> QED
    BY <1>7, <1>8, <1>13

(***************************************************************************)
(* The conversions that are begun in vain: of [T] to *void the way leads to  *)
(* &T, and no way leads there.                                               *)
(***************************************************************************)

NeverYes(r, m) == r.answer \in {"no", "throws", "forever"} /\ r.mem = m
InVain(r, m) == r.answer \in {"throws", "forever"} /\ r.mem = m

LEMMA VainBelow ==
    ASSUME NEW c, NEW d, NEW f, NEW g, NEW via, NEW m, ByWay(c, d, f, g, via, m),
           d.answer = "undecided", via # Void, NeverYes(f, m)
    PROVE  InVain(c, m)
  BY Answers DEF ByWay, NeverYes, InVain

\* The way from an array to *void, to &*void, and to a reference to its element.
LEMMA VainWays ==
    ASSUME NEW t0, IsTypeItself(t0), t0.kind = "array", NEW v, NEW t1
    PROVE  /\ IsVoidPointer(t1) => Via(t0, v, t1) = Reference(t0.element, t1.as)
           /\ t1.kind = "reference" /\ IsVoidPointer(t1.element) => Via(t0, v, t1) = t1.element
           /\ t1.kind = "reference" /\ t1.element = t0.element /\ t0.element.kind = "pointer"
              /\ t0.element.element # t0.element /\ ~IsVoidPointer(t0.element) => Via(t0, v, t1) = Void
           /\ t1.kind = "reference" /\ t1.element = t0.element /\ t0.element.kind # "pointer" =>
                Via(t0, v, t1) = Void
  <1>1. ViaScalar(t0, v, t1) = Void /\ ~IsArrayReference(t0) /\ t0.element # Void
    BY ArrayNoScalar, ArrayType DEF IsArrayReference
  <1>2. Via(t0, v, t1) = ViaArray(t0, t1)
    BY <1>1 DEF Via
  <1>3. ASSUME IsVoidPointer(t1) PROVE Via(t0, v, t1) = Reference(t0.element, t1.as)
    <2>1. t1.kind = "pointer" /\ t1.element = Void
      BY <1>3 DEF IsVoidPointer
    <2> QED
      BY <1>1, <1>2, <2>1 DEF ViaArray, IsVoidPointer
  <1>4. ASSUME t1.kind = "reference", IsVoidPointer(t1.element) PROVE Via(t0, v, t1) = t1.element
    <2>1. t1.element.kind = "pointer" /\ t1.element.element = Void /\ ~IsVoidPointer(t1)
      BY <1>4 DEF IsVoidPointer
    <2> QED
      BY <1>1, <1>2, <1>4, <2>1 DEF ViaArray
  <1>5. ASSUME t1.kind = "reference", t1.element = t0.element,
               \/ t0.element.kind # "pointer"
               \/ t0.element.element # t0.element /\ ~IsVoidPointer(t0.element)
        PROVE  Via(t0, v, t1) = Void
    <2>1. ~IsVoidPointer(t1)
      BY <1>5 DEF IsVoidPointer
    <2>2. ~(t1.element.kind = "pointer" /\ t1.element.element \in {t0.element, Void})
      BY <1>5 DEF IsVoidPointer
    <2> QED
      BY <1>1, <1>2, <1>5, <2>1, <2>2 DEF ViaArray
  <1> QED
    BY <1>3, <1>4, <1>5

LEMMA VainDecided ==
    ASSUME NEW t0, IsType(t0), t0.kind = "array", NEW v, NEW m, NEW t1
    PROVE  /\ IsVoidPointer(t1) => Directly(t0, v, m, t1).answer = "undecided"
           /\ t1.kind = "reference" /\ IsVoidPointer(t1.element) =>
                Directly(t0, v, m, t1).answer = "undecided" /\ t1.element # Void
           /\ t1.kind = "reference" /\ t1.element = t0.element =>
                Directly(t0, v, m, t1).answer = "undecided"
           /\ \A as : LET t == Reference(t0.element, as)
                      IN  t # Void /\ t.kind = "reference" /\ t.element = t0.element
           /\ IsTypeItself(t0) /\ IsTypeItself(t0.element)
  <1>1. IsTypeItself(t0) /\ t0.element # t0 /\ t0.element # Void
    BY ArrayType DEF IsType
  <1>2. IsTypeItself(t0.element)
    BY <1>1 DEF IsType, HasElement
  <1>3. ASSUME NEW as
        PROVE  LET t == Reference(t0.element, as)
               IN  t # Void /\ t.kind = "reference" /\ t.element = t0.element
    BY DEF Reference, Void
  <1>4. ASSUME t1.kind = "reference", IsVoidPointer(t1.element)
        PROVE  Directly(t0, v, m, t1).answer = "undecided" /\ t1.element # Void
    <2>1. t1.element.kind = "pointer"
      BY <1>4 DEF IsVoidPointer
    <2>2. t1.element # t0 /\ t1 # t0 /\ t1.element # Void
      BY <1>4, <2>1 DEF Void
    <2> QED
      BY <2>2, ArrayUndecided
  <1>5. IsVoidPointer(t1) => Directly(t0, v, m, t1).answer = "undecided"
    BY ArrayUndecided DEF IsVoidPointer
  <1>6. t1.kind = "reference" /\ t1.element = t0.element => Directly(t0, v, m, t1).answer = "undecided"
    BY <1>1, ArrayUndecided
  <1> QED
    BY <1>1, <1>2, <1>3, <1>4, <1>5, <1>6

LEMMA Vain1 ==
    ASSUME NEW t0, IsType(t0), t0.kind = "array", NEW v, NEW m, NEW t1
    PROVE  /\ IsVoidPointer(t1) => InVain(Convert1(t0, v, m, t1), m)
           /\ t1.kind = "reference" /\ IsVoidPointer(t1.element) => InVain(Convert1(t0, v, m, t1), m)
           /\ t1.kind = "reference" /\ t1.element = t0.element => NeverYes(Convert1(t0, v, m, t1), m)
  <1>1. NeverYes(Not("forever", m), m)
    BY Answers DEF NeverYes
  <1>2. ASSUME IsVoidPointer(t1) PROVE InVain(Convert1(t0, v, m, t1), m)
    BY <1>1, <1>2, Level1, VainDecided, VainWays, VainBelow
  <1>3. ASSUME t1.kind = "reference", IsVoidPointer(t1.element) PROVE InVain(Convert1(t0, v, m, t1), m)
    BY <1>1, <1>3, Level1, VainDecided, VainWays, VainBelow
  <1>4. ASSUME t1.kind = "reference", t1.element = t0.element PROVE NeverYes(Convert1(t0, v, m, t1), m)
    <2>1. CASE IsVoidPointer(t0.element)
      BY <1>3, <1>4, <2>1 DEF NeverYes, InVain
    <2>2. CASE ~IsVoidPointer(t0.element)
      <3>1. IsTypeItself(t0) /\ IsTypeItself(t0.element) /\ Directly(t0, v, m, t1).answer = "undecided"
        BY <1>4, VainDecided
      <3>2. t0.element.kind = "pointer" => t0.element.element # t0.element
        BY <3>1 DEF IsTypeItself, IsNumber, is_integer, is_floating_point
      <3>3. Via(t0, v, t1) = Void
        BY <1>4, <2>2, <3>1, <3>2, VainWays
      <3>4. Convert1(t0, v, m, t1) = Not("no", m)
        BY <3>1, <3>3, NoWay
      <3> QED
        BY <3>4, Answers DEF NeverYes
    <2> QED
      BY <2>1, <2>2
  <1> QED
    BY <1>2, <1>3, <1>4

LEMMA Vain2 ==
    ASSUME NEW t0, IsType(t0), t0.kind = "array", NEW v, NEW m, NEW t1
    PROVE  /\ IsVoidPointer(t1) => InVain(Convert2(t0, v, m, t1), m)
           /\ t1.kind = "reference" /\ IsVoidPointer(t1.element) => InVain(Convert2(t0, v, m, t1), m)
           /\ t1.kind = "reference" /\ t1.element = t0.element => NeverYes(Convert2(t0, v, m, t1), m)
  <1>1. IsTypeItself(t0)
    BY DEF IsType
  <1>2. ASSUME IsVoidPointer(t1) PROVE InVain(Convert2(t0, v, m, t1), m)
    <2>1. PICK via : via = Reference(t0.element, t1.as)
      BY Zenon
    <2>2. via # Void /\ via.kind = "reference" /\ via.element = t0.element
      BY <2>1, VainDecided
    <2>3. Via(t0, v, t1) = via
      BY <1>1, <1>2, <2>1, VainWays
    <2>4. NeverYes(Convert1(t0, v, m, via), m)
      BY <2>2, Vain1
    <2> QED
      BY <1>2, <2>2, <2>3, <2>4, Level2, VainDecided, VainBelow
  <1>3. ASSUME t1.kind = "reference", IsVoidPointer(t1.element) PROVE InVain(Convert2(t0, v, m, t1), m)
    <2>1. PICK via : via = t1.element
      OBVIOUS
    <2>2. Via(t0, v, t1) = via
      BY <1>1, <1>3, <2>1, VainWays
    <2>3. NeverYes(Convert1(t0, v, m, via), m)
      BY <1>3, <2>1, Vain1 DEF NeverYes, InVain
    <2> QED
      BY <1>3, <2>1, <2>2, <2>3, Level2, VainDecided, VainBelow
  <1>4. ASSUME t1.kind = "reference", t1.element = t0.element PROVE NeverYes(Convert2(t0, v, m, t1), m)
    <2>1. CASE IsVoidPointer(t0.element)
      BY <1>3, <1>4, <2>1 DEF NeverYes, InVain
    <2>2. CASE ~IsVoidPointer(t0.element)
      <3>1. IsTypeItself(t0) /\ IsTypeItself(t0.element) /\ Directly(t0, v, m, t1).answer = "undecided"
        BY <1>4, VainDecided
      <3>2. t0.element.kind = "pointer" => t0.element.element # t0.element
        BY <3>1 DEF IsTypeItself, IsNumber, is_integer, is_floating_point
      <3>3. Via(t0, v, t1) = Void
        BY <1>4, <2>2, <3>1, <3>2, VainWays
      <3>4. Convert2(t0, v, m, t1) = Not("no", m)
        BY <3>1, <3>3, NoWay
      <3> QED
        BY <3>4, Answers DEF NeverYes
    <2> QED
      BY <2>1, <2>2
  <1> QED
    BY <1>2, <1>3, <1>4

LEMMA Vain3 ==
    ASSUME NEW t0, IsType(t0), t0.kind = "array", NEW v, NEW m, NEW t1
    PROVE  /\ IsVoidPointer(t1) => InVain(Convert3(t0, v, m, t1), m)
           /\ t1.kind = "reference" /\ IsVoidPointer(t1.element) => InVain(Convert3(t0, v, m, t1), m)
           /\ t1.kind = "reference" /\ t1.element = t0.element => NeverYes(Convert3(t0, v, m, t1), m)
  <1>1. IsTypeItself(t0)
    BY DEF IsType
  <1>2. ASSUME IsVoidPointer(t1) PROVE InVain(Convert3(t0, v, m, t1), m)
    <2>1. PICK via : via = Reference(t0.element, t1.as)
      BY Zenon
    <2>2. via # Void /\ via.kind = "reference" /\ via.element = t0.element
      BY <2>1, VainDecided
    <2>3. Via(t0, v, t1) = via
      BY <1>1, <1>2, <2>1, VainWays
    <2>4. NeverYes(Convert2(t0, v, m, via), m)
      BY <2>2, Vain2
    <2> QED
      BY <1>2, <2>2, <2>3, <2>4, Level3, VainDecided, VainBelow
  <1>3. ASSUME t1.kind = "reference", IsVoidPointer(t1.element) PROVE InVain(Convert3(t0, v, m, t1), m)
    <2>1. PICK via : via = t1.element
      OBVIOUS
    <2>2. Via(t0, v, t1) = via
      BY <1>1, <1>3, <2>1, VainWays
    <2>3. NeverYes(Convert2(t0, v, m, via), m)
      BY <1>3, <2>1, Vain2 DEF NeverYes, InVain
    <2> QED
      BY <1>3, <2>1, <2>2, <2>3, Level3, VainDecided, VainBelow
  <1>4. ASSUME t1.kind = "reference", t1.element = t0.element PROVE NeverYes(Convert3(t0, v, m, t1), m)
    <2>1. CASE IsVoidPointer(t0.element)
      BY <1>3, <1>4, <2>1 DEF NeverYes, InVain
    <2>2. CASE ~IsVoidPointer(t0.element)
      <3>1. IsTypeItself(t0) /\ IsTypeItself(t0.element) /\ Directly(t0, v, m, t1).answer = "undecided"
        BY <1>4, VainDecided
      <3>2. t0.element.kind = "pointer" => t0.element.element # t0.element
        BY <3>1 DEF IsTypeItself, IsNumber, is_integer, is_floating_point
      <3>3. Via(t0, v, t1) = Void
        BY <1>4, <2>2, <3>1, <3>2, VainWays
      <3>4. Convert3(t0, v, m, t1) = Not("no", m)
        BY <3>1, <3>3, NoWay
      <3> QED
        BY <3>4, Answers DEF NeverYes
    <2> QED
      BY <2>1, <2>2
  <1> QED
    BY <1>2, <1>3, <1>4

LEMMA Vain4 ==
    ASSUME NEW t0, IsType(t0), t0.kind = "array", NEW v, NEW m, NEW t1
    PROVE  /\ IsVoidPointer(t1) => InVain(Convert(t0, v, m, t1), m)
           /\ t1.kind = "reference" /\ IsVoidPointer(t1.element) => InVain(Convert(t0, v, m, t1), m)
           /\ t1.kind = "reference" /\ t1.element = t0.element => NeverYes(Convert(t0, v, m, t1), m)
  <1>1. IsTypeItself(t0)
    BY DEF IsType
  <1>2. ASSUME IsVoidPointer(t1) PROVE InVain(Convert(t0, v, m, t1), m)
    <2>1. PICK via : via = Reference(t0.element, t1.as)
      BY Zenon
    <2>2. via # Void /\ via.kind = "reference" /\ via.element = t0.element
      BY <2>1, VainDecided
    <2>3. Via(t0, v, t1) = via
      BY <1>1, <1>2, <2>1, VainWays
    <2>4. NeverYes(Convert3(t0, v, m, via), m)
      BY <2>2, Vain3
    <2> QED
      BY <1>2, <2>2, <2>3, <2>4, Level4, VainDecided, VainBelow
  <1>3. ASSUME t1.kind = "reference", IsVoidPointer(t1.element) PROVE InVain(Convert(t0, v, m, t1), m)
    <2>1. PICK via : via = t1.element
      OBVIOUS
    <2>2. Via(t0, v, t1) = via
      BY <1>1, <1>3, <2>1, VainWays
    <2>3. NeverYes(Convert3(t0, v, m, via), m)
      BY <1>3, <2>1, Vain3 DEF NeverYes, InVain
    <2> QED
      BY <1>3, <2>1, <2>2, <2>3, Level4, VainDecided, VainBelow
  <1>4. ASSUME t1.kind = "reference", t1.element = t0.element PROVE NeverYes(Convert(t0, v, m, t1), m)
    <2>1. CASE IsVoidPointer(t0.element)
      BY <1>3, <1>4, <2>1 DEF NeverYes, InVain
    <2>2. CASE ~IsVoidPointer(t0.element)
      <3>1. IsTypeItself(t0) /\ IsTypeItself(t0.element) /\ Directly(t0, v, m, t1).answer = "undecided"
        BY <1>4, VainDecided
      <3>2. t0.element.kind = "pointer" => t0.element.element # t0.element
        BY <3>1 DEF IsTypeItself, IsNumber, is_integer, is_floating_point
      <3>3. Via(t0, v, t1) = Void
        BY <1>4, <2>2, <3>1, <3>2, VainWays
      <3>4. Convert(t0, v, m, t1) = Not("no", m)
        BY <3>1, <3>3, NoWay
      <3> QED
        BY <3>4, Answers DEF NeverYes
    <2> QED
      BY <2>1, <2>2
  <1> QED
    BY <1>2, <1>3, <1>4

\* What a conversion that is called for comes to.
LEMMA ConvertKeeps ==
    ASSUME NEW t0, NEW t1, IsType(t0), IsType(t1),
           NEW m, AreObjects(m), NEW v, IsValue(v), HasType(v, t0, m),
           NEW r, r = Convert(t0, v, m, t1)
    PROVE  \/ r.answer = "yes" /\ Converted(t0, v, m, t1, r)
           \/ r.answer = "no" /\ r.mem = m
           \/ InVain(r, m) /\ BegunInVain(t0, t1)
  <1>1. IsTypeItself(t0) /\ IsTypeItself(t1)
    BY DEF IsType
  <1>2. PICK d : d = Directly(t0, v, m, t1)
    OBVIOUS
  <1>3. /\ d.answer \in {"yes", "no", "undecided"}
        /\ d.answer = "yes" => Converted(t0, v, m, t1, d)
        /\ d.answer = "no" => d.mem = m
    BY <1>1, <1>2, DirectStep
  <1>4. CASE d.answer # "undecided"
    BY <1>2, <1>3, <1>4, AtOnce
  <1>5. CASE d.answer = "undecided" /\ Via(t0, v, t1) = Void
    <2>1. r = Not("no", m)
      BY <1>2, <1>5, NoWay
    <2> QED
      BY <2>1, Answers
  <1>6. CASE d.answer = "undecided" /\ ViaScalar(t0, v, t1) # Void
    <2>1. t0 # t1 /\ ~(t0.kind = "reference" /\ t0.element = t1)
          /\ ~(t0.kind # "reference" /\ t1.kind = "reference" /\ t1.element = t0)
      <3>1. t0 # t1
        BY <1>2, <1>6, Answers DEF Directly
      <3>2. ASSUME t0.kind = "reference", t0.element = t1 PROVE FALSE
        <4>1. d = Yes(v, m) \/ d = Yes(Load(v, m), m)
          BY <1>2, <3>1, <3>2 DEF Directly, ScalarCast, NullToPointer, is_integer, is_floating_point
        <4> QED
          BY <1>6, <4>1, Answers
      <3>3. ASSUME t0.kind # "reference", t1.kind = "reference", t1.element = t0 PROVE FALSE
        <4>1. PICK p : p = Place(t0, v, m)
          OBVIOUS
        <4>2. d = Yes(p.val, p.mem)
          BY <1>2, <3>1, <3>3, <4>1
          DEF Directly, ScalarCast, NullToPointer, IsArrayReference, is_integer, is_floating_point
        <4> QED
          BY <1>6, <4>2, Answers
      <3> QED
        BY <3>1, <3>2, <3>3
    <2>2. CASE t0.kind = "reference" /\ t1.kind = "reference"
      <3>1. convertible_scalars(t0.element, AnyValue, t1.element)
        BY <1>6, <2>2, ViaScalars
      <3> QED
        BY <2>1, <2>2, <3>1, LoadScalarPlace
    <2>3. CASE t0.kind = "reference" /\ t1.kind # "reference"
      <3>1. convertible_scalars(t0.element, AnyValue, t1)
        BY <1>6, <2>3, ViaScalars
      <3> QED
        BY <1>1, <2>1, <2>3, <3>1, LoadThenScalar
    <2>4. CASE t0.kind # "reference" /\ t1.kind = "reference"
      <3>1. convertible_scalars(t0, v, t1.element)
        BY <1>6, <2>4, ViaScalars
      <3> QED
        BY <1>1, <2>1, <2>4, <3>1, ScalarThenPlace
    <2>5. t0.kind = "reference" \/ t1.kind = "reference"
      BY <1>6, ViaScalars
    <2> QED
      BY <2>2, <2>3, <2>4, <2>5
  <1>7. CASE ViaScalar(t0, v, t1) = Void /\ IsArrayReference(t0) /\ Via(t0, v, t1) # Void
    <2>1. ViaArrayReference(t0, t1) # Void
      BY <1>7 DEF Via
    <2>2. \/ IsVoidPointer(t1)
          \/ t1.kind = "reference" /\ t1.element.kind = "pointer" /\ t1.element.element = t0.element.element
          \/ t1.kind = "reference" /\ IsVoidPointer(t1.element)
      BY <2>1 DEF ViaArrayReference
    <2>3. CASE IsVoidPointer(t1)
      <3>1. r = Yes(v, m)
        BY <1>7, <2>3, ArrayReferenceToVoid
      <3>2. r.answer = "yes" /\ r.val = v /\ r.mem = m
        BY <3>1, Answers
      <3>3. Converted(t0, v, m, t1, r)
        BY <1>7, <2>3, <3>2, ArrayReferenceType, ArrayPointed DEF IsVoidPointer
      <3> QED
        BY <3>2, <3>3
    <2>4. CASE t1.kind = "reference" /\ t1.element.kind = "pointer" /\ t1.element.element = t0.element.element
      BY <1>7, <2>4, ArrayReferenceToPointerReference DEF InVain
    <2>5. CASE t1.kind = "reference" /\ IsVoidPointer(t1.element)
      BY <1>7, <2>5, ArrayReferenceToVoidReference
    <2> QED
      BY <2>2, <2>3, <2>4, <2>5
  <1>8. CASE ViaScalar(t0, v, t1) = Void /\ ~IsArrayReference(t0) /\ Via(t0, v, t1) # Void
    <2>1. t0.kind = "array" /\ ViaArray(t0, t1) # Void
      BY <1>8 DEF Via
    <2>2. \/ t1.kind = "pointer" /\ t1.element = t0.element
          \/ t1.kind = "reference" /\ t1.element.kind = "pointer" /\ t1.element.element = t0.element
          \/ t1.kind = "reference" /\ IsVoidPointer(t1.element)
          \/ IsVoidPointer(t1)
      BY <2>1 DEF ViaArray, IsVoidPointer
    <2>3. CASE t1.kind = "pointer" /\ t1.element = t0.element
      BY <1>1, <2>1, <2>3, ArrayToPointer
    <2>4. CASE t1.kind = "reference" /\ t1.element.kind = "pointer" /\ t1.element.element = t0.element
      BY <1>1, <2>1, <2>4, ArrayToPointerReference
    <2>5. CASE t1.kind = "reference" /\ IsVoidPointer(t1.element)
      BY <2>1, <2>5, Vain4 DEF BegunInVain
    <2>6. CASE IsVoidPointer(t1)
      BY <2>1, <2>6, Vain4 DEF BegunInVain, IsVoidPointer
    <2> QED
      BY <2>2, <2>3, <2>4, <2>5, <2>6
  <1> QED
    BY <1>3, <1>4, <1>5, <1>6, <1>7, <1>8

(***************************************************************************)
(* The adoption of a value.                                                 *)
(***************************************************************************)

LEMMA SameConverted ==
    ASSUME NEW t0, NEW v, NEW m, NEW t1, NEW q, NEW r, Converted(t0, v, m, t1, q), r.val = q.val, r.mem = q.mem
    PROVE  Converted(t0, v, m, t1, r)
  BY DEF Converted

LEMMA Keeps ==
    ASSUME NEW t, NEW v, NEW m, NEW r, r = Keep(t, v, m)
    PROVE  r.answer = "yes" /\ r.type = t /\ r.val = v /\ r.mem = m
  BY DEF Keep

LEMMA ConvertsTo ==
    ASSUME NEW t, NEW v, NEW m, NEW u, NEW r, r = ConvertTo(t, v, m, u), NEW q, q = Convert(t, v, m, u)
    PROVE  r.answer = q.answer /\ r.type = u /\ r.val = q.val /\ r.mem = q.mem
  BY DEF ConvertTo, WithType

\* An operand loses one reference, and an array becomes the address of its elements.
LEMMA UnreferencedKeeps ==
    ASSUME NEW t, IsType(t), NEW m, AreObjects(m), NEW v, IsValue(v), HasType(v, t, m),
           NEW r, r = AdoptUnreferenced(t, v, m)
    PROVE  /\ r.answer = "yes" /\ Converted(t, v, m, r.type, r)
           /\ r.type.kind # "array"
           /\ r.type.kind = "reference" => t.kind = "reference" /\ t.element = r.type
  <1>1. IsTypeItself(t)
    BY DEF IsType
  <1>2. CASE IsArrayReference(t)
    <2>1. PICK u : u = Pointer(t.element.element, t.as)
      OBVIOUS
    <2>2. u.kind = "pointer" /\ u.element = t.element.element
      BY <2>1 DEF Pointer
    <2>3. t.kind = "reference" /\ t.element.kind = "array" /\ IsTypeItself(t.element)
      BY <1>2, ArrayReferenceType
    <2>4. r = ConvertTo(t, v, m, u)
      BY <1>2, <2>1, <2>3 DEF AdoptUnreferenced
    <2>5. PICK q : q = Yes(v, m)
      OBVIOUS
    <2>6. q.answer = "yes" /\ q.val = v /\ q.mem = m
      BY <2>5, Answers
    <2>7. Directly(t, v, m, u) = q
      BY <1>2, <2>2, <2>5, ArrayReferenceAtOnce
    <2>8. Convert(t, v, m, u) = q
      BY <2>6, <2>7, AtOnce
    <2>9. r.answer = "yes" /\ r.type = u /\ r.val = v /\ r.mem = m
      BY <2>4, <2>6, <2>8, ConvertsTo
    <2> QED
      BY <1>2, <2>2, <2>3, <2>9, ArrayPointed
  <1>3. CASE t.kind = "reference" /\ t.element.kind # "array"
    <2>1. r = Keep(t.element, Load(v, m), m)
      BY <1>3 DEF AdoptUnreferenced, IsArrayReference
    <2>2. r.answer = "yes" /\ r.type = t.element /\ r.val = Load(v, m) /\ r.mem = m
      BY <2>1, Keeps
    <2> QED
      BY <1>1, <1>3, <2>2, LoadConverted
  <1>4. CASE t.kind = "array"
    <2>1. PICK u : u = Pointer(t.element, 0)
      OBVIOUS
    <2>2. u.kind = "pointer" /\ u.element = t.element
      BY <2>1 DEF Pointer
    <2>3. r = ConvertTo(t, v, m, u)
      BY <1>4, <2>1 DEF AdoptUnreferenced, IsArrayReference
    <2>4. PICK q : q.answer = "yes" /\ Converted(t, v, m, u, q) /\ Convert(t, v, m, u) = q
      BY <1>1, <1>4, <2>2, ArrayToPointer
    <2>5. r.answer = "yes" /\ r.type = u /\ r.val = q.val /\ r.mem = q.mem
      BY <2>3, <2>4, ConvertsTo
    <2> QED
      BY <2>2, <2>4, <2>5, SameConverted
  <1>5. CASE t.kind \notin {"reference", "array"}
    <2>1. r = Keep(t, v, m)
      BY <1>5 DEF AdoptUnreferenced, IsArrayReference
    <2>2. r.answer = "yes" /\ r.type = t /\ r.val = v /\ r.mem = m
      BY <2>1, Keeps
    <2> QED
      BY <1>1, <1>5, <2>2, KeptAsItIs
  <1> QED
    BY <1>2, <1>3, <1>4, <1>5 DEF IsArrayReference

LEMMA AdoptedKeeps ==
    ASSUME NEW t, IsType(t), NEW m, AreObjects(m), NEW v, IsValue(v), HasType(v, t, m),
           NEW w, w \in {INVIOLABLE, UNREFERENCE} \/ IsType(w),
           NEW r, r = Adopted(w, t, v, m)
    PROVE  /\ \/ r.answer = "yes" /\ Converted(t, v, m, r.type, r)
              \/ r.answer = "no" /\ r.mem = m
              \/ InVain(r, m) /\ BegunInVain(t, r.type)
           /\ w = UNREFERENCE => /\ r.answer = "yes"
                                 /\ r.type.kind # "array"
                                 /\ r.type.kind = "reference" => t.kind = "reference" /\ t.element = r.type
  <1>1. INVIOLABLE # UNREFERENCE /\ (IsType(w) => w # UNREFERENCE)
    BY DEF INVIOLABLE, UNREFERENCE, IsType, IsTypeItself, IsNumber, is_integer, is_floating_point
  <1>2. CASE w = UNREFERENCE
    <2>1. r = AdoptUnreferenced(t, v, m)
      BY <1>1, <1>2 DEF Adopted
    <2> QED
      BY <2>1, UnreferencedKeeps
  <1>3. CASE w # UNREFERENCE /\ w \in {INVIOLABLE, t}
    <2>1. r = Keep(t, v, m)
      BY <1>3 DEF Adopted
    <2>2. r.answer = "yes" /\ r.type = t /\ r.val = v /\ r.mem = m
      BY <2>1, Keeps
    <2> QED
      BY <1>3, <2>2, KeptAsItIs DEF IsType
  <1>4. CASE w # UNREFERENCE /\ w \notin {INVIOLABLE, t}
    <2>1. r = ConvertTo(t, v, m, w)
      BY <1>4 DEF Adopted
    <2>2. PICK q : q = Convert(t, v, m, w)
      OBVIOUS
    <2>3. \/ q.answer = "yes" /\ Converted(t, v, m, w, q)
          \/ q.answer = "no" /\ q.mem = m
          \/ InVain(q, m) /\ BegunInVain(t, w)
      BY <1>4, <2>2, ConvertKeeps
    <2>4. r.answer = q.answer /\ r.type = w /\ r.val = q.val /\ r.mem = q.mem
      BY <2>1, <2>2, ConvertsTo
    <2> QED
      BY <1>4, <2>3, <2>4, SameConverted DEF InVain
  <1> QED
    BY <1>2, <1>3, <1>4

(***************************************************************************)
(* The theorems.                                                            *)
(***************************************************************************)

\* Asked: what a call of try_to_adopt finds.
Asked ==
    /\ type \in Types
    /\ wanted = result_type /\ wanted \in Types \cup {INVIOLABLE, UNREFERENCE}
    /\ IsValue(value) /\ HasType(value, type, mem)
    /\ AreObjects(mem) /\ \A i \in DOMAIN mem : mem[i].from = "given"

\* Inv: before the call what it finds, and at all times what it promises.
Inv ==
    /\ answer = "asked" => Asked
    /\ TypeOK /\ NumbersAsInC /\ SameObject /\ Unreferenced /\ QuietNo

LEMMA InitInv == Init => Inv
  <1> SUFFICES ASSUME Init PROVE Inv
    OBVIOUS
  <1>1. PICK given \in Given(type) : value = given.val /\ mem = given.mem
    BY DEF Init
  <1>2. type \in Types
    BY DEF Init
  <1>3. /\ AreObjects(mem) /\ \A i \in DOMAIN mem : mem[i].from = "given"
        /\ IsValue(value) /\ HasType(value, type, mem)
    BY <1>1, <1>2, GivenAssumption
  <1>4. Asked /\ answer = "asked"
    BY <1>2, <1>3 DEF Asked, Init
  <1>5. TypeOK
    BY <1>3, <1>4 DEF TypeOK, AreObjects
  <1>6. NumbersAsInC /\ SameObject /\ Unreferenced /\ QuietNo
    BY <1>4 DEF NumbersAsInC, SameObject, Unreferenced, QuietNo
  <1> QED
    BY <1>4, <1>5, <1>6 DEF Inv

LEMMA AdoptInv == Inv /\ Adopt => Inv'
  <1> SUFFICES ASSUME Inv, Adopt PROVE Inv'
    OBVIOUS
  <1>1. Asked
    BY DEF Inv, Adopt
  <1>2. /\ IsType(type) /\ AreObjects(mem) /\ IsValue(value) /\ HasType(value, type, mem)
        /\ wanted \in {INVIOLABLE, UNREFERENCE} \/ IsType(wanted)
        /\ wanted = result_type /\ \A i \in DOMAIN mem : mem[i].from = "given"
    BY <1>1, TypesAssumption DEF Asked
  <1>3. PICK r : r = Adopted(wanted, type, value, mem)
    OBVIOUS
  <1>4. /\ answer' = r.answer /\ result_type' = r.type /\ mem' = r.mem
        /\ r.answer = "yes" => result_value' = r.val
        /\ type' = type /\ value' = value /\ wanted' = wanted
    BY <1>2, <1>3 DEF Adopt
  <1>5. /\ \/ r.answer = "yes" /\ Converted(type, value, mem, r.type, r)
           \/ r.answer = "no" /\ r.mem = mem
           \/ InVain(r, mem) /\ BegunInVain(type, r.type)
        /\ wanted = UNREFERENCE =>
                /\ r.answer = "yes"
                /\ r.type.kind # "array"
                /\ r.type.kind = "reference" => type.kind = "reference" /\ type.element = r.type
    BY <1>2, <1>3, AdoptedKeeps
  <1>6. Unreferenced'
    BY <1>4, <1>5 DEF Unreferenced
  <1>7. CASE r.answer = "yes"
    <2>1. Converted(type, value, mem, r.type, r)
      BY <1>5, <1>7 DEF InVain
    <2>2. HasType(value, type, r.mem)
      BY <1>2, <2>1, ObjectsDomain, TypeStays DEF Converted
    <2>3. TypeOK'
      BY <1>4, <1>7, <2>1, <2>2 DEF TypeOK, Converted, AreObjects
    <2>4. NumbersAsInC' /\ SameObject'
      BY <1>4, <1>7, <2>1 DEF NumbersAsInC, SameObject, From, To, Converted
    <2>5. QuietNo' /\ answer' # "asked"
      BY <1>4, <1>7 DEF QuietNo
    <2> QED
      BY <1>6, <2>3, <2>4, <2>5 DEF Inv
  <1>8. CASE r.answer # "yes"
    <2>1. r.mem = mem /\ r.answer \in {"no", "throws", "forever"}
      BY <1>5, <1>8 DEF InVain
    <2>2. TypeOK'
      BY <1>2, <1>4, <2>1 DEF TypeOK, AreObjects
    <2>3. NumbersAsInC' /\ SameObject' /\ answer' # "asked"
      BY <1>4, <2>1 DEF NumbersAsInC, SameObject
    <2>4. QuietNo'
      BY <1>2, <1>4, <1>5, <2>1 DEF QuietNo, InVain
    <2> QED
      BY <1>6, <2>2, <2>3, <2>4 DEF Inv
  <1> QED
    BY <1>7, <1>8

LEMMA Invariant == Spec => []Inv
  <1>1. Inv /\ UNCHANGED vars => Inv'
    BY DEF vars, Inv, Asked, TypeOK, NumbersAsInC, SameObject, Unreferenced, QuietNo, From, To
  <1>2. Inv /\ [Next]_vars => Inv'
    BY <1>1, AdoptInv DEF Next
  <1> QED
    BY <1>2, InitInv, PTL DEF Spec

\* TypeOK, for every set of types and all values of them: what base_try_to_adopt_default
\* leaves in result_value has the type that it leaves in result_type, and every
\* object that was made on the way holds a value of its type.
THEOREM TypeCorrect == Spec => []TypeOK
  BY Invariant, PTL DEF Inv

\* NumbersAsInC: a number that is adopted, of whatever width and behind however many
\* of the three references, is the number that C's conversion would make of it.
THEOREM NumbersConvert == Spec => []NumbersAsInC
  BY Invariant, PTL DEF Inv

\* SameObject: what is adopted as a pointer points to the object that the value
\* was the address of.
THEOREM ObjectsKept == Spec => []SameObject
  BY Invariant, PTL DEF Inv

\* Unreferenced: an operand asked for with UNREFERENCE_TAG is given, and is one
\* reference less and no array.
THEOREM OperandsGiven == Spec => []Unreferenced
  BY Invariant, PTL DEF Inv

\* QuietNo: a refusal builds nothing, and the two cases of BegunInVain are the
\* only ones in which the code throws or goes on for ever.
THEOREM RefusalsQuiet == Spec => []QuietNo
  BY Invariant, PTL DEF Inv

=============================================================================
