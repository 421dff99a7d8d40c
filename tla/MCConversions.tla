--------------------------- MODULE MCConversions ---------------------------
(***************************************************************************)
(* Types up to two levels over small integers, with every number they hold. *)
(***************************************************************************)
EXTENDS Conversions

Scalars == {UintT(1), UintT(2), IntT(2), IntT(3), Float(16), Float(32)}
Pointers == {Pointer(Void, 0), Pointer(Void, 1), Pointer(IntT(2), 0), Pointer(IntT(2), 1),
             Pointer(Pointer(Void, 0), 0), Pointer(Array(IntT(2)), 0)}
Arrays == {Array(IntT(2)), Array(UintT(2)), Array(Pointer(Void, 0)), Array(Pointer(IntT(2), 0)),
           Array(Array(IntT(2)))}
MCTypes ==
    LET values == Scalars \cup Pointers \cup Arrays
    IN  values
        \cup {Reference(t, 0) : t \in values}
        \cup {Reference(IntT(2), 1), Reference(Array(IntT(2)), 1), Reference(Reference(IntT(2), 0), 0)}

NumbersOf(t) == IF is_floating_point(t) THEN {-1, 0, 2} ELSE 0 .. Pow2(t.width) - 1

\* Values of t with the objects they need, the first of which is object n + 1.
RECURSIVE ValuesFrom(_, _)
ValuesFrom(t, n) ==
    LET Object(e) ==
            {<<[type |-> e, val |-> g.val, from |-> "given"]>> \o g.mem : g \in ValuesFrom(e, n + 1)}
    IN  CASE t.kind \in {"int", "uint", "float"} ->
                {[val |-> Number(x, c), mem |-> <<>>] : x \in NumbersOf(t), c \in BOOLEAN}
          [] t.kind = "array" ->
                {[val |-> Elements(<<g.val, g.val>>, g.val.const), mem |-> g.mem] :
                    g \in ValuesFrom(t.element, n)}
          [] t.kind = "reference" ->
                {[val |-> Address(n + 1, FALSE), mem |-> o] : o \in Object(t.element)}
          [] t.kind = "pointer" ->
                LET e == IF t.element = Void THEN IntT(2) ELSE t.element
                IN  {[val |-> Null, mem |-> <<>>], [val |-> Address(0, FALSE), mem |-> <<>>]}
                    \cup {[val |-> Address(n + 1, FALSE), mem |-> o] : o \in Object(e)}

MCGiven(t) == ValuesFrom(t, 0)

=============================================================================
