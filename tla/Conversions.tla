---------------------------- MODULE Conversions ----------------------------
(***************************************************************************)
(* One value adopted for the use that asks for it: a call of try_to_adopt,  *)
(* base_try_to_adopt_default of compiler/stage0/voidc_target.cpp, on the    *)
(* local context.                                                           *)
(***************************************************************************)
EXTENDS ConversionRules

CONSTANTS
    Types,      \* the types that values are adopted from and to
    Given(_)    \* Given(t): some [val, mem], a value of t and the objects it needs

\* Void is the type of nothing, but for a pointer.
IsTypeItself(t) ==
    \/ IsNumber(t) /\ t = [kind |-> t.kind, width |-> t.width] /\ t.width \in Nat \ {0}
    \/ t.kind = "pointer" /\ t = Pointer(t.element, t.as) /\ t.element # t
    \/ t.kind = "reference" /\ t = Reference(t.element, t.as) /\ t.element \notin {t, Void}
    \/ t.kind = "array" /\ t = Array(t.element) /\ t.element \notin {t, Void}

HasElement(t) == t.kind \in {"pointer", "reference", "array"} /\ t.element # Void

IsType(t) == IsTypeItself(t) /\ (HasElement(t) => IsTypeItself(t.element))

ASSUME TypesAssumption == \A t \in Types : IsType(t)

IsValue(v) ==
    \/ v.kind = "number" /\ v = Number(v.n, v.const)
    \/ v.kind = "address" /\ v = Address(v.to, v.const)
    \/ v.kind = "elements" /\ v = Elements(v.of, v.const)

\* A sequence of objects, each of which holds a value of its type.
AreObjects(m) ==
    /\ Len(m) \in Nat
    /\ m = [i \in 1 .. Len(m) |-> [type |-> m[i].type, val |-> m[i].val, from |-> m[i].from]]
    /\ \A i \in 1 .. Len(m) :
            IsTypeItself(m[i].type) /\ IsValue(m[i].val) /\ HasType(m[i].val, m[i].type, m)

ASSUME GivenAssumption ==
    \A t \in Types : \A given \in Given(t) :
        /\ AreObjects(given.mem) /\ \A i \in DOMAIN given.mem : given.mem[i].from = "given"
        /\ IsValue(given.val) /\ HasType(given.val, t, given.mem)

VARIABLES
    type, value,                \* what an expression has given
    wanted,                     \* the result_type that it was asked for
    result_type, result_value,  \* of the local context
    mem,                        \* the objects: the sequence of what they hold
    answer                      \* "asked", then what the call did

vars == <<type, value, wanted, result_type, result_value, mem, answer>>

-----------------------------------------------------------------------------
Init ==
    /\ type \in Types
    /\ result_type \in Types \cup {INVIOLABLE, UNREFERENCE}
    /\ wanted = result_type
    /\ \E given \in Given(type) : value = given.val /\ mem = given.mem
    /\ result_value = Null
    /\ answer = "asked"

Adopt ==
    /\ answer = "asked"
    /\ LET r == Adopted(result_type, type, value, mem)
       IN  /\ answer' = r.answer
           /\ result_type' = r.type
           /\ result_value' = IF r.answer = "yes" THEN r.val ELSE result_value
           /\ mem' = r.mem
    /\ UNCHANGED <<type, value, wanted>>

Next == Adopt

Spec == Init /\ [][Next]_vars

-----------------------------------------------------------------------------
(* What a conversion promises.                                              *)

\* TypeOK: the value that an expression is adopted with has the type that is
\* recorded beside it in the local context (result_type, result_value), and
\* every object made on the way holds a value of its type.  The generated code
\* is only as good as this pair: LLVM's untyped pointers would hide a mismatch.
TypeOK ==
    /\ answer \in {"asked", "yes", "no", "throws", "forever"}
    /\ HasType(value, type, mem)
    /\ \A i \in DOMAIN mem : HasType(mem[i].val, mem[i].type, mem)
    /\ answer = "yes" => HasType(result_value, result_type, mem)

From == Followed(type, value, mem)
To == Followed(result_type, result_value, mem)

\* Two values that are numbers, if they are, are the same number as far as the
\* second type can hold it.
SameNumber(from, to) ==
    IsNumber(from.type) /\ IsNumber(to.type) =>
        LET n0 == Meaning(from.type, from.val.n)
            n1 == Meaning(to.type, to.val.n)
        IN  IF is_integer(to.type) THEN (n1 - n0) % Pow2(to.type.width) = 0 ELSE n1 = n0

\* NumbersAsInC: through references and in any number of steps, a number
\* converts as the C standard says: to an integer type modulo 2^w of the number
\* that its own type means, to floating point unchanged.
NumbersAsInC == answer = "yes" => SameNumber(From, To)

\* A pointer made of v of type t points to what v is the address of.
PointsToSame(t, v, from, to, m) ==
    to.type.kind = "pointer" =>
        /\ IsArrayReference(t) => to.val.to = v.to
        /\ t.kind = "array" => to.val.to \in DOMAIN m /\ m[to.val.to].val = v
        /\ from.type.kind = "pointer" => to.val.to = from.val.to
        /\ IsNumber(from.type) => to.val.to = 0

\* SameObject: what becomes a pointer points to the object that the value was
\* the address of: an array behind a reference is never copied, null stays null.
\* Only an array that is a value itself is put in an object, which holds it.
SameObject == answer = "yes" => PointsToSame(type, value, From, To, mem)

\* Unreferenced: an operand that is asked for with UNREFERENCE_TAG is never left
\* an array, is one reference less than it was, and is never refused.
Unreferenced ==
    wanted = UNREFERENCE /\ answer # "asked" =>
        /\ answer = "yes"
        /\ result_type.kind # "array"
        /\ result_type.kind = "reference" => type.kind = "reference" /\ type.element = result_type

\* The conversions that the code begins and cannot finish: of an array to *void,
\* where the way leads over a reference to the element, and of a reference to an
\* array to a reference to a pointer of another address space.
BegunInVain(t0, t1) ==
    LET end == IF t1.kind = "reference" THEN t1.element ELSE t1
    IN  \/ t0.kind = "array" /\ IsVoidPointer(end)
        \/ /\ IsArrayReference(t0)
           /\ t1.kind = "reference"
           /\ end.kind = "pointer" /\ end.element = t0.element.element
           /\ end.as # t0.as

\* QuietNo: try_to_convert that says no has built nothing, so that the caller may
\* try another type (as the selection of an overload does); and it throws, or goes
\* on for ever, only in the two cases above: every other combined conversion that
\* is begun is finished.
QuietNo ==
    /\ answer = "no" => \A i \in DOMAIN mem : mem[i].from = "given"
    /\ answer \in {"throws", "forever"} => BegunInVain(type, result_type)

\* ArraysDecay: an array converts to *void, as the comments of the code say
\* ("T[_] ->> *void" by way of "T[_] ->> *T").  It does not.
ArraysDecay == type.kind = "array" /\ IsVoidPointer(result_type) => answer \in {"asked", "yes"}

=============================================================================
