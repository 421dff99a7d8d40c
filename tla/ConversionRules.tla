-------------------------- MODULE ConversionRules --------------------------
(***************************************************************************)
(* The types and values of compiled code, and what becomes of a value that  *)
(* is adopted or converted: base_try_to_adopt_default and                   *)
(* base_try_to_convert_default of compiler/stage0/voidc_target.cpp.         *)
(*                                                                          *)
(* A value is what the LLVM value will be when the code runs: a number, the *)
(* address of an object, an array of values; and whether LLVM knows it as a *)
(* constant.  Integers keep their width; an integer is kept as its bits,    *)
(* 0 .. 2^w - 1.  Floating point is exact on the few numbers used: rounding *)
(* is LLVM's.                                                               *)
(***************************************************************************)
EXTENDS Integers, Sequences

-----------------------------------------------------------------------------
(* Types and values.                                                        *)

Void == [kind |-> "void"]
IntT(w) == [kind |-> "int", width |-> w]
UintT(w) == [kind |-> "uint", width |-> w]
Float(w) == [kind |-> "float", width |-> w]
Pointer(e, as) == [kind |-> "pointer", element |-> e, as |-> as]
Reference(e, as) == [kind |-> "reference", element |-> e, as |-> as]
Array(e) == [kind |-> "array", element |-> e]

\* The tags that result_type holds in place of a type.
INVIOLABLE == [kind |-> "inviolable"]
UNREFERENCE == [kind |-> "unreference"]

is_integer(t) == t.kind \in {"int", "uint"}
is_floating_point(t) == t.kind = "float"
IsNumber(t) == is_integer(t) \/ is_floating_point(t)
IsArrayReference(t) == t.kind = "reference" /\ t.element.kind = "array"
IsVoidPointer(t) == t.kind = "pointer" /\ t.element = Void

Number(n, c) == [kind |-> "number", n |-> n, const |-> c]
Address(i, c) == [kind |-> "address", to |-> i, const |-> c]
Elements(s, c) == [kind |-> "elements", of |-> s, const |-> c]
Null == Address(0, TRUE)

Pow2Upto[w \in Nat] == IF w = 0 THEN 1 ELSE 2 * Pow2Upto[w - 1]
Pow2(w) == Pow2Upto[w]

\* The number that bits n of type t stand for.
Meaning(t, n) == IF t.kind = "int" /\ n >= Pow2(t.width - 1) THEN n - Pow2(t.width) ELSE n

LLVMIsNull(v) == v = Number(0, TRUE)

-----------------------------------------------------------------------------
(* What LLVM's builder makes.                                               *)

Cast_SignOfTarget(t0, v, t1) ==
    LET sign == IF is_integer(t0) THEN [t0 EXCEPT !.kind = t1.kind] ELSE t0
    IN  Number(IF is_integer(t1) THEN Meaning(sign, v.n) % Pow2(t1.width) ELSE Meaning(t0, v.n),
               v.const)

\* LLVMBuildCast with the opcode that t0 and its signedness choose: SExt, ZExt,
\* SIToFP, UIToFP, FPExt.  A cast of a constant folds to a constant.
Cast(t0, v, t1) ==
    Number(IF is_integer(t1) THEN Meaning(t0, v.n) % Pow2(t1.width) ELSE Meaning(t0, v.n),
           v.const)

Load(v, m) == [m[v.to].val EXCEPT !.const = FALSE]

\* T -> &T: a private constant global for a constant, else make_temporary.
\* The address of a global is a constant of LLVM, that of an alloca is not.
Place(t, v, m) ==
    [val |-> Address(Len(m) + 1, v.const),
     mem |-> Append(m, [type |-> t, val |-> v, from |-> IF v.const THEN "constant" ELSE "temporary"])]

-----------------------------------------------------------------------------
(* base_try_to_convert_default.                                             *)

Yes(v, m) == [answer |-> "yes", val |-> v, mem |-> m]
Not(why, m) == [answer |-> why, val |-> Null, mem |-> m]

\* Scalars (primary): the kinds of types that the code decides on at once.
ScalarCast(t0, t1) ==
    \/ is_floating_point(t0) /\ is_floating_point(t1)
    \/ is_integer(t0) /\ (is_floating_point(t1) \/ is_integer(t1))

NullToPointer(t0, v0, t1) == is_integer(t0) /\ LLVMIsNull(v0) /\ t1.kind = "pointer"

ConvertScalar_NoWidthCheck(t0, v0, m, t1) ==
    IF t0.kind # "float" /\ t1.kind = "float" THEN Yes(Cast(t0, v0, t1), m)
    ELSE IF t0.width >= t1.width THEN Yes(v0, m)
    ELSE Yes(Cast(t0, v0, t1), m)

ConvertScalar(t0, v0, m, t1) ==
    IF t0.kind # "float" /\ t1.kind = "float" THEN Yes(Cast(t0, v0, t1), m)
    ELSE IF t0.width > t1.width THEN Not("no", m)
    ELSE IF t0.width = t1.width THEN Yes(v0, m)
    ELSE Yes(Cast(t0, v0, t1), m)

convertible_scalars_AnyWidth(t, v, u) ==
    \/ is_floating_point(t) /\ is_floating_point(u)
    \/ is_integer(t) /\ (is_floating_point(u) \/ is_integer(u))
    \/ is_integer(t) /\ LLVMIsNull(v) /\ u.kind = "pointer"
    \/ t.kind = "pointer" /\ IsVoidPointer(u)

\* convertible_scalars; AnyValue stands for no value.
AnyValue == [kind |-> "any"]
convertible_scalars(t, v, u) ==
    \/ is_floating_point(t) /\ is_floating_point(u) /\ t.width <= u.width
    \/ is_integer(t) /\ is_floating_point(u)
    \/ is_integer(t) /\ is_integer(u) /\ t.width <= u.width
    \/ is_integer(t) /\ LLVMIsNull(v) /\ u.kind = "pointer"
    \/ t.kind = "pointer" /\ IsVoidPointer(u)

\* Combined conversions: the type that t0 is converted to on the way to t1, or
\* Void when there is no such conversion.
ViaScalar(t0, v0, t1) ==
    LET ref0 == t0.kind = "reference"
        ref1 == t1.kind = "reference"
    IN  CASE ref0 /\ ref1 /\ convertible_scalars(t0.element, AnyValue, t1.element) -> t1.element
          [] ref0 /\ ~ref1 /\ convertible_scalars(t0.element, AnyValue, t1) -> t0.element
          [] ~ref0 /\ ref1 /\ convertible_scalars(t0, v0, t1.element) -> t1.element
          [] OTHER -> Void

ViaArrayReference_Loaded(t0, t1) ==
    LET e0 == t0.element.element
    IN  CASE IsVoidPointer(t1) -> Pointer(e0, t0.as)
          [] /\ t1.kind = "reference"
             /\ t1.element.kind = "pointer"
             /\ t1.element.element = e0 -> t0.element
          [] /\ t1.kind = "reference"
             /\ IsVoidPointer(t1.element)
             /\ e0 # Void -> t1.element
          [] OTHER -> Void

ViaArrayReference(t0, t1) ==
    LET e0 == t0.element.element
    IN  CASE IsVoidPointer(t1) -> Pointer(e0, t0.as)
          [] /\ t1.kind = "reference"
             /\ t1.element.kind = "pointer"
             /\ t1.element.element = e0 -> Pointer(e0, t0.as)
          [] /\ t1.kind = "reference"
             /\ IsVoidPointer(t1.element)
             /\ e0 # Void -> t1.element
          [] OTHER -> Void

\* The last one is the code's: the reference is to the element, not to the array.
ViaArray(t0, t1) ==
    CASE /\ t1.kind = "reference"
         /\ t1.element.kind = "pointer"
         /\ t1.element.element \in {t0.element, Void} -> t1.element
      [] t1.kind = "pointer" /\ t1.element = t0.element -> Reference(t0, t1.as)
      [] IsVoidPointer(t1) /\ t0.element # Void -> Reference(t0.element, t1.as)
      [] OTHER -> Void

Via(t0, v0, t1) ==
    LET scalar == ViaScalar(t0, v0, t1)
    IN  IF scalar # Void THEN scalar
        ELSE IF IsArrayReference(t0) THEN ViaArrayReference(t0, t1)
        ELSE IF t0.kind = "array" THEN ViaArray(t0, t1)
        ELSE Void

\* The primary conversions; "undecided" where the code goes on to the combined ones.
Directly(t0, v0, m, t1) ==
    IF t0 = t1 THEN Yes(v0, m)
    ELSE IF ScalarCast(t0, t1) THEN ConvertScalar(t0, v0, m, t1)
    ELSE IF NullToPointer(t0, v0, t1) THEN Yes(Null, m)
    ELSE IF t0.kind = "pointer" /\ t1.kind = "pointer"
         THEN IF IsVoidPointer(t1) THEN Yes(v0, m) ELSE Not("no", m)
    ELSE IF /\ IsArrayReference(t0)
            /\ t1.kind = "pointer"
            /\ t1.element = t0.element.element THEN Yes(v0, m)
    ELSE IF t0.kind = "reference" /\ t0.element = t1 THEN Yes(Load(v0, m), m)
    ELSE IF t0.kind # "reference" /\ t1.kind = "reference" /\ t1.element = t0
         THEN LET placed == Place(t0, v0, m) IN Yes(placed.val, placed.mem)
    ELSE Not("undecided", m)

\* convert_to_type throws when the conversion that it needs says no.
convert_to_type(r) == IF r.answer = "no" THEN Not("throws", r.mem) ELSE r

\* The second step of a combined conversion, when the first is done.
Onwards(try_to_convert(_, _, _, _), first, via, t1) ==
    IF first.answer # "yes" THEN first
    ELSE convert_to_type(try_to_convert(via, first.val, first.mem, t1))

\* base_try_to_convert_default, with what it calls itself.
ConvertWith(try_to_convert(_, _, _, _), t0, v0, m, t1) ==
    LET direct == Directly(t0, v0, m, t1)
        via    == Via(t0, v0, t1)
    IN  CASE direct.answer # "undecided" -> direct
          [] direct.answer = "undecided" /\ via = Void -> Not("no", m)
          [] OTHER -> Onwards(try_to_convert, convert_to_type(try_to_convert(t0, v0, m, via)),
                              via, t1)

\* No conversion that ends is more than four deep: those that are go on for ever.
ConvertNever(t0, v0, m, t1) == Not("forever", m)
Convert1(t0, v0, m, t1) == ConvertWith(ConvertNever, t0, v0, m, t1)
Convert2(t0, v0, m, t1) == ConvertWith(Convert1, t0, v0, m, t1)
Convert3(t0, v0, m, t1) == ConvertWith(Convert2, t0, v0, m, t1)
Convert(t0, v0, m, t1) == ConvertWith(Convert3, t0, v0, m, t1)

-----------------------------------------------------------------------------
(* base_try_to_adopt_default: what a value is made of when it is asked for   *)
(* with the type or tag wanted.  result_type is replaced before the value is *)
(* converted, and stays so when that fails.                                  *)

Keep(t, v, m) == [answer |-> "yes", type |-> t, val |-> v, mem |-> m]

WithType(u, r) == [answer |-> r.answer, type |-> u, val |-> r.val, mem |-> r.mem]

ConvertTo(t, v, m, u) == WithType(u, Convert(t, v, m, u))

AdoptUnreferenced_ArrayLoaded(t, v, m) ==
    CASE t.kind = "reference" -> Keep(t.element, Load(v, m), m)
      [] t.kind = "array" -> ConvertTo(t, v, m, Pointer(t.element, 0))
      [] OTHER -> Keep(t, v, m)

AdoptUnreferenced(t, v, m) ==
    CASE IsArrayReference(t) -> ConvertTo(t, v, m, Pointer(t.element.element, t.as))
      [] t.kind = "reference" /\ t.element.kind # "array" -> Keep(t.element, Load(v, m), m)
      [] t.kind = "array" -> ConvertTo(t, v, m, Pointer(t.element, 0))
      [] OTHER -> Keep(t, v, m)

Adopted(wanted, t, v, m) ==
    CASE wanted = UNREFERENCE -> AdoptUnreferenced(t, v, m)
      [] wanted \in {INVIOLABLE, t} -> Keep(t, v, m)
      [] OTHER -> ConvertTo(t, v, m, wanted)

-----------------------------------------------------------------------------
(* What it is to have a type.                                               *)

HasKind(v, t, m) ==
    CASE is_integer(t) -> v.kind = "number" /\ v.n \in 0 .. Pow2(t.width) - 1
      [] is_floating_point(t) -> v.kind = "number" /\ v.n \in Int
      [] t.kind = "array" -> v.kind = "elements"
      [] t.kind = "reference" ->
            v.kind = "address" /\ v.to \in DOMAIN m /\ m[v.to].type = t.element
      [] t.kind = "pointer" ->
            /\ v.kind = "address"
            /\ v.to \in DOMAIN m \cup {0}
            /\ v.to = 0 \/ t.element \in {m[v.to].type, Void}
                        \/ m[v.to].type = Array(t.element)
      [] OTHER -> FALSE

\* With the elements of an array, and those of the arrays among them.
HasType(v, t, m) ==
    /\ HasKind(v, t, m)
    /\ t.kind = "array" => \A i \in DOMAIN v.of :
            /\ HasKind(v.of[i], t.element, m)
            /\ t.element.kind = "array" => \A j \in DOMAIN v.of[i].of :
                    HasKind(v.of[i].of[j], t.element.element, m)

\* What a value comes to when references are followed, three at most, and its type.
Follow(r, m) ==
    IF r.type.kind = "reference" THEN [type |-> r.type.element, val |-> m[r.val.to].val] ELSE r

Followed(t, v, m) == Follow(Follow(Follow([type |-> t, val |-> v], m), m), m)
=============================================================================
