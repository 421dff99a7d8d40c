-------------------------- MODULE MCStarterCompiler --------------------------
(***************************************************************************)
(* Programs of a few statements over integers of 1 to 4 bits: every way to   *)
(* pass a value on, with constants, temporaries and variables, in its own    *)
(* statement and in a later one.                                             *)
(***************************************************************************)
EXTENDS StarterMeaning

Int3 == IntT(3)
Int4 == IntT(4)
RefTo(t) == Reference(t, 0)
PtrTo(t) == Pointer(t, 0)

\* a, f: a number, arr: an array of two; u: an unsigned number of one bit.
MCObjects ==
    <<[type |-> Int3, val |-> Number(3, FALSE), from |-> "given"],
      [type |-> Float(32), val |-> Number(2, FALSE), from |-> "given"],
      [type |-> Array(Int3), val |-> Elements(<<Number(2, FALSE), Number(1, FALSE)>>, FALSE),
       from |-> "given"]>>
MCParameters ==
    [a |-> [type |-> RefTo(Int3), val |-> Address(1, FALSE)],
     f |-> [type |-> RefTo(Float(32)), val |-> Address(2, FALSE)],
     arr |-> [type |-> RefTo(Array(Int3)), val |-> Address(3, FALSE)],
     u |-> [type |-> UintT(1), val |-> Number(1, FALSE)]]

Functions ==
    [inc |-> FunctionT(<<Int3>>, Int3),
     peek |-> FunctionT(<<RefTo(Int3)>>, Int3),
     self |-> FunctionT(<<RefTo(Int3)>>, RefTo(Int3)),
     first |-> FunctionT(<<PtrTo(Int3)>>, Int3),
     isnull |-> FunctionT(<<PtrTo(Int3)>>, UintT(1)),
     poke |-> FunctionT(<<RefTo(Int3), UintT(2)>>, Int3),
     half |-> FunctionT(<<RefTo(Float(32))>>, Float(32)),
     second |-> FunctionT(<<UintT(2)>>, Int4),
     both |-> FunctionT(<<RefTo(ObjectT), RefTo(ObjectT)>>, Int3),
     touch |-> FunctionT(<<RefTo(ObjectT), RefTo(Int3)>>, RefTo(Int3)),
     terminate |-> FunctionT(<<RefTo(ObjectT), RefTo(Int3)>>, Void)]
MCSymbols ==
    [g \in DOMAIN Functions |-> [type |-> PtrTo(Functions[g]), val |-> FunctionValue(g)]]
    @@ ("int" :> [type |-> StaticType, val |-> TypeValue(Int3)])

\* The number at an address, 0 at none.
At(m, v) ==
    IF v.to = 0 THEN 0
    ELSE IF m[v.to].type.kind = "array" THEN m[v.to].val.of[1].n ELSE m[v.to].val.n
EndedIn(m) == Len(SelectSeq(m, LAMBDA o : o.type = ObjectT /\ o.val # ObjectValue(0)))

Answer(n, m) == [val |-> Number(n, FALSE), mem |-> m]
MCApply(g, args, m) ==
    CASE g = "inc" -> Answer((args[1].n + 1) % 8, m)
      [] g \in {"peek", "first"} -> Answer(At(m, args[1]), m)
      [] g \in {"self", "touch"} -> [val |-> [args[Len(args)] EXCEPT !.const = FALSE], mem |-> m]
      [] g = "isnull" -> Answer(IF args[1].to = 0 THEN 1 ELSE 0, m)
      [] g = "poke" -> Answer(At(m, args[1]), [m EXCEPT ![args[1].to].val = args[2]])
      [] g = "half" -> Answer(At(m, args[1]) \div 2, m)
      [] g = "second" ->
            Answer((IF args[2].kind = "address" THEN At(m, args[2]) ELSE args[2].n) + args[1].n, m)
      [] g = "both" -> Answer(EndedIn(m), m)
      [] g = "terminate" ->
            [val |-> Nothing, mem |-> [m EXCEPT ![args[1].to].val = ObjectValue(EndedIn(m) + 1)]]

Lit(n) == [op |-> "integer", num |-> n]
Name(x) == [op |-> "name", name |-> x]
Made(op, args) == [op |-> op, args |-> args]
Call(g, args) == [op |-> "call", fun |-> Name(g), args |-> args]
Compiled(t, v) == [op |-> "compiled", type |-> t, val |-> v]
Type(t) == Compiled(StaticType, TypeValue(t))
Object == [op |-> "object"]
Two == Compiled(Array(Int3), Elements(<<Number(1, TRUE), Number(2, TRUE)>>, TRUE))

\* The second argument of the call that ends an object is a temporary.
MCEndOf(i) ==
    Call("terminate", <<Compiled(RefTo(ObjectT), Address(i, FALSE)), Call("inc", <<Lit(1)>>)>>)

Values == {Lit(0), Lit(-1), Lit(5), Name("a"), Name("u"), Name("x"), Call("inc", <<Lit(3)>>)}

\* x is bound to anything, p to a pointer to one number, two to a pointer to two.
Bound ==
    {<<"x", e>> : e \in {Lit(5), Lit(3), Name("a"), Name("arr"), Two, Object,
        Call("self", <<Lit(1)>>),
        Call("self", <<Call("inc", <<Name("u")>>)>>),
        Call("touch", <<Object, Call("self", <<Name("u")>>)>>),
        Made("v_reference", <<Name("p")>>),
        Made("v_load", <<Name("p")>>),
        Made("v_load", <<Made("v_getelementptr", <<Name("two"), Name("u")>>)>>),
        Made("v_cast", <<Lit(-1), Type(UintT(2))>>),
        Made("v_cast", <<Name("x"), Type(Float(32))>>),
        Made("v_cast", <<Name("x"), Type(UintT(1))>>),
        Made("v_cast", <<Name("arr"), Type(PtrTo(Void))>>),
        Made("v_cast", <<Name("a"), Type(RefTo(Int3))>>),
        Made("v_assign", <<Name("a"), Name("u")>>)}}
    \cup {<<"p", e>> : e \in {Made("v_alloca", <<Name("int")>>),
        Made("v_pointer", <<Name("a")>>),
        Made("v_pointer", <<Call("inc", <<Name("a")>>)>>)}}
    \cup {<<"two", Made("v_alloca", <<Type(Int3), Lit(2)>>)>>,
          <<"y", Made("v_alloca", <<Type(UintT(2)), Call("peek", <<Call("inc", <<Lit(0)>>)>>)>>)>>}

Done ==
    {Call(g, <<e>>) : g \in {"inc", "peek", "half"}, e \in Values}
    \cup {Call("poke", <<Name("a"), e>>) : e \in {Lit(3), Name("a"), Name("x"), Name("u")}}
    \cup {Call("second", <<Name("u"), e>>) : e \in {Lit(5), Name("arr"), Name("x")}}
    \cup {Call(g, <<e>>) : g \in {"first", "isnull"},
             e \in {Lit(0), Name("arr"), Name("x"), Two, Made("v_pointer", <<Lit(3)>>)}}
    \cup {Made("v_store", <<e, Name("p")>>) : e \in {Lit(5), Name("a"), Name("x")}}
    \cup {Made("v_store", <<e, Made("v_getelementptr", <<Name("two"), Name("u")>>)>>) :
             e \in {Lit(-1), Name("u")}}
    \cup {Made("v_assign", <<Name("f"), e>>) : e \in {Name("x"), Lit(-1), Name("a")}}
    \cup {Made("v_assign", <<Made("v_reference", <<Name("p")>>), Name("x")>>),
          Call("both", <<Object, Object>>),
          Call("both", <<Object, Name("x")>>),
          Call("inc", <<Call("peek", <<Call("self", <<Call("inc", <<Name("x")>>)>>)>>)>>),
          Call("inc", <<Name("nowhere")>>)}

MCStatements ==
    {[name |-> b[1], expr |-> b[2]] : b \in Bound}
    \cup {[name |-> "z", expr |-> e] : e \in Done}
=============================================================================
