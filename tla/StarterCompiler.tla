-------------------------- MODULE StarterCompiler --------------------------
(***************************************************************************)
(* The compiler of the Starter language (compiler/stage0/voidc_compiler.cpp)*)
(* and the temporaries of the local context (voidc_target.cpp).             *)
(*                                                                          *)
(* A visit compiles one expression.  Who visits says in result_type which   *)
(* type is wanted, or one of the tags, and finds there and in result_value  *)
(* what was made of it; in between the same two fields serve the visits of  *)
(* the parts.  A statement owns the temporaries that its visits make: they  *)
(* are released, newest first, at its end.                                  *)
(*                                                                          *)
(* A statement has no branches, so that its code is run as it is compiled:  *)
(* a value is what the LLVM value will be, and mem is what the objects will *)
(* hold.  The function that is compiled has the allocas of stack.           *)
(***************************************************************************)
EXTENDS ConversionRules, TLC

CONSTANTS
    Statements,        \* the statements: [name, expr]
    Parameters,        \* the variables that the function has from the start
    Symbols,           \* what is declared: [type, val] of a name
    Objects,           \* the objects that are there before it runs
    Apply(_, _, _),    \* Apply(f, args, mem): what a function answers, and leaves in mem
    EndOf(_),          \* EndOf(i): the call that ends object i of the library
    int_type, intptr_t_type,
    IndexWidth,        \* the width that unsigned indices are widened to
    MaxStatements      \* bound on the statements

ASSUME BoundsAssumption == MaxStatements \in Nat /\ IndexWidth \in Nat

VARIABLES
    lctx,     \* the local context, with the function's stack and the memory
    program   \* the statements compiled so far

vars == <<lctx, program>>

-----------------------------------------------------------------------------
(* Types and values beside those of ConversionRules, and storage.           *)

StaticType == [kind |-> "static_type"]
TypeValue(t) == [kind |-> "type", of |-> t, const |-> TRUE]
FunctionT(params, ret) == [kind |-> "function", params |-> params, ret |-> ret]
FunctionValue(f) == [kind |-> "function", name |-> f, const |-> TRUE]

\* An object of the library: when it was ended, or 0.
ObjectT == [kind |-> "object"]
ObjectValue(ended) == [kind |-> "object", ended |-> ended, const |-> FALSE]

\* What is in storage that nothing was stored to.
Nothing == [kind |-> "nothing", const |-> FALSE]

\* An alloca is there as long as the stack holds it, anything else for good.
Live(c, i) ==
    /\ i \in DOMAIN c.mem
    /\ c.mem[i].from \in {"temporary", "variable"} => \E k \in DOMAIN c.stack : c.stack[k] = i

IsPlace(c, i, t) == Live(c, i) /\ c.mem[i].type = t
Holds(c, i, t) == IsPlace(c, i, t) /\ c.mem[i].val # Nothing

\* What loads through a reference would read is there.
RECURSIVE Loadable(_, _, _)
Loadable(c, t, v) ==
    t.kind = "reference" =>
        Holds(c, v.to, t.element) /\ Loadable(c, t.element, c.mem[v.to].val)

Failed(c) == c.answer # "yes"

\* LLVM's behaviour, or the code's own static_cast, is undefined: the statement
\* has no meaning.
Undefined(c) == [c EXCEPT !.answer = "undefined"]
Throw(c) == [c EXCEPT !.answer = "throws"]

-----------------------------------------------------------------------------
(* Temporaries.                                                             *)

\* A temporaries_stack entry: how deep the stack was when it was saved, and the
\* cleaners, the newest first: an object of the library, or RestoreStack.
NotSaved == -1
RestoreStack == 0
Temporaries == [first |-> NotSaved, cleaners |-> <<>>]

initialize_temporaries_stack_front(c) ==
    LET front == Head(c.temporaries_stack)
        saved == [first |-> Len(c.stack), cleaners |-> <<RestoreStack>> \o front.cleaners]
    IN  [c EXCEPT !.temporaries_stack = <<saved>> \o Tail(@)]

\* The objects that m has more than c, in allocas: those that a conversion made.
MadeIn(c, m) ==
    SelectSeq([k \in 1 .. Len(m) - Len(c.mem) |-> Len(c.mem) + k],
              LAMBDA i : m[i].from = "temporary")

\* Mutant of make_temporary: the stack is saved with the temporary on it.
make_temporary_SavedAfter(c, m) ==
    LET made == MadeIn(c, m)
        grown == [c EXCEPT !.mem = m, !.stack = @ \o made]
    IN  IF made # <<>> /\ Head(c.temporaries_stack).first = NotSaved
        THEN initialize_temporaries_stack_front(grown) ELSE grown

\* v_make_temporary_default: the first one saves the stack.
make_temporary(c, m) ==
    LET made == MadeIn(c, m)
        saved == IF made # <<>> /\ Head(c.temporaries_stack).first = NotSaved
                 THEN initialize_temporaries_stack_front(c) ELSE c
    IN  [saved EXCEPT !.mem = m, !.stack = @ \o made]

add_temporary_cleaner(c, i) ==
    LET front == Head(c.temporaries_stack)
    IN  [c EXCEPT !.temporaries_stack =
            <<[front EXCEPT !.cleaners = <<i>> \o @]>> \o Tail(@)]

push_temporaries(c) == [c EXCEPT !.temporaries_stack = <<Temporaries>> \o @]

\* The code of a cleaner runs where the statement ends; that of an object is a
\* statement of its own.
RECURSIVE compile_stmt(_, _)

Clean(c, i) ==
    IF i = RestoreStack
    THEN [c EXCEPT !.stack = SubSeq(@, 1, Head(c.temporaries_stack).first)]
    ELSE compile_stmt(c, [name |-> "", expr |-> EndOf(i)])

pop_temporaries(c) ==
    LET cleaners == Head(c.temporaries_stack).cleaners
        cleaned[k \in 0 .. Len(cleaners)] ==
            IF k = 0 \/ Failed(cleaned[k - 1]) THEN IF k = 0 THEN c ELSE cleaned[k - 1]
            ELSE Clean(cleaned[k - 1], cleaners[k])
    IN  [cleaned[Len(cleaners)] EXCEPT !.temporaries_stack = Tail(@)]

-----------------------------------------------------------------------------
(* Asking and giving.                                                       *)

RECURSIVE visit(_, _)

\* result_type and result_value before a part is visited.
Want(c, t) == [c EXCEPT !.result_type = t, !.result_value = Null]

\* What base_try_to_adopt_default answered; make_temporary was part of it.
TakeResult(c, r) ==
    IF r.answer # "yes" THEN Throw(c)
    ELSE [make_temporary(c, r.mem) EXCEPT !.result_type = r.type, !.result_value = r.val]

\* lctx.adopt_result.
adopt_result(c, t, v) ==
    IF c.result_type \notin {INVIOLABLE, t} /\ ~Loadable(c, t, v) THEN Undefined(c)
    ELSE TakeResult(c, Adopted(c.result_type, t, v, c.mem))

\* The end of most methods, after their parts have given d: what c wanted is
\* restored, and the value adopted.
Give(d, c, t, v) ==
    adopt_result([d EXCEPT !.result_type = c.result_type, !.result_value = c.result_value], t, v)

\* LLVMBuildStore.
Store(c, place, v) == [c EXCEPT !.mem[place].val = v]

-----------------------------------------------------------------------------
(* Expressions.                                                             *)

\* obtain_identifier: variables hide what is declared.
obtain_identifier(c, name) ==
    IF name \in DOMAIN c.vars THEN c.vars[name] ELSE Symbols[name]

compile_expr_identifier(c, e) ==
    IF e.name \notin DOMAIN c.vars \cup DOMAIN Symbols THEN Throw(c)
    ELSE LET found == obtain_identifier(c, e.name) IN adopt_result(c, found.type, found.val)

\* The bits that a signed number needs: 8*sizeof(long long) - clrsbll(num).
BitsOf(num) == CHOOSE w \in 1 .. 64 :
    /\ num \in -Pow2(w - 1) .. Pow2(w - 1) - 1
    /\ w = 1 \/ num \notin -Pow2(w - 2) .. Pow2(w - 2) - 1

\* LLVMConstNull and LLVMConstInt.
ConstNull(t) == IF t.kind = "pointer" THEN Null ELSE Number(0, TRUE)
ConstInt(t, num) == Number(num % Pow2(t.width), TRUE)

LiteralType(num) == IF num > 0 THEN UintT(BitsOf(num) - 1) ELSE IntT(BitsOf(num))

compile_expr_integer(c, e) ==
    LET wanted == c.result_type
        own == IF BitsOf(e.num) > int_type.width THEN intptr_t_type ELSE int_type
        value == IF wanted.kind = "reference" THEN wanted.element ELSE wanted
    IN  CASE wanted \in {INVIOLABLE, UNREFERENCE} ->
                [c EXCEPT !.result_type = own, !.result_value = ConstInt(own, e.num)]
          [] wanted \notin {INVIOLABLE, UNREFERENCE} /\ e.num = 0 ->
                adopt_result(c, value, ConstNull(value))
          [] OTHER ->
                adopt_result(c, LiteralType(e.num), ConstInt(LiteralType(e.num), e.num))

\* compile_expr_string, compile_expr_char, compile_expr_compiled.
compile_expr_compiled(c, e) == adopt_result(c, e.type, e.val)

\* The type that argument k is asked for: variadic arguments come as they are.
ArgumentType(params, k) == IF k <= Len(params) THEN params[k] ELSE UNREFERENCE

\* What is passed by reference or pointer is there, and is what it should be.
PointsTo(object, t) ==
    /\ object.type \in {t, Array(t)}
    /\ object.val # Nothing
Passed(c, t, v) ==
    ~Failed(c) /\ t.kind \in {"reference", "pointer"} =>
        v.to = 0 \/ (Live(c, v.to) /\ PointsTo(c.mem[v.to], t.element))

compile_expr_call(c, e) ==
    LET callee == visit(e.fun, Want(c, UNREFERENCE))
        ft == callee.result_type.element
        arg[k \in 0 .. Len(e.args)] ==
            IF k = 0 THEN [ctx |-> callee, values |-> <<>>, passed |-> TRUE]
            ELSE LET t == ArgumentType(ft.params, k)
                     ctx == visit(e.args[k], Want(arg[k - 1].ctx, t))
                 IN  [ctx |-> ctx,
                      values |-> Append(arg[k - 1].values, ctx.result_value),
                      passed |-> arg[k - 1].passed /\ Passed(ctx, ctx.result_type, ctx.result_value)]
        last == arg[Len(e.args)]
    IN  IF Failed(callee) THEN callee
        ELSE IF Failed(last.ctx) THEN last.ctx
        ELSE IF ~last.passed THEN Undefined(c)
        ELSE LET call == Apply(callee.result_value.name, last.values, last.ctx.mem)
             IN  Give([last.ctx EXCEPT !.mem = call.mem], c, ft.ret, call.val)

-----------------------------------------------------------------------------
(* Intrinsics.                                                              *)

Alloca(c, t, n) ==
    [c EXCEPT
        !.mem = @ \o [k \in 1 .. n |-> [type |-> t, val |-> Nothing, from |-> "variable"]],
        !.stack = @ \o [k \in 1 .. n |-> Len(c.mem) + k]]

\* The size is compiled after the type and before the alloca.
v_alloca(c, e) ==
    LET of == visit(e.args[1], Want(c, StaticType))
        size == visit(e.args[2], Want(of, UNREFERENCE))
        last == IF Len(e.args) = 1 THEN of ELSE size
        n == IF Len(e.args) = 1 THEN 1 ELSE size.result_value.n
    IN  IF Failed(last) THEN last
        ELSE Give(Alloca(last, of.result_value.of, n), c,
                  Pointer(of.result_value.of, 0), Address(Len(last.mem) + 1, FALSE))

\* Mutant of Index: no index is widened by zeros.
Index_AsSigned(t, v) == Meaning(IntT(t.width), v.n)

\* A narrow unsigned index is widened by zeros, since LLVM takes all of them
\* for signed.
Index(t, v) ==
    IF t.kind = "uint" /\ t.width < IndexWidth THEN v.n ELSE Meaning(IntT(t.width), v.n)

\* With one index; those that follow walk into aggregates.
v_getelementptr(c, e) ==
    LET base == visit(e.args[1], Want(c, UNREFERENCE))
        index == visit(e.args[2], Want(base, UNREFERENCE))
    IN  IF Failed(index) THEN index
        ELSE Give(index, c, base.result_type,
                  Address(base.result_value.to + Index(index.result_type, index.result_value),
                          base.result_value.const /\ index.result_value.const))

\* Mutant of v_store: the value is stored as it comes.
v_store_AsItComes(c, e) ==
    LET place == visit(e.args[2], Want(c, UNREFERENCE))
        value == visit(e.args[1], Want(place, UNREFERENCE))
    IN  IF Failed(place) THEN place
        ELSE IF Failed(value) THEN value
        ELSE IF ~IsPlace(value, place.result_value.to, place.result_type.element) THEN Undefined(c)
        ELSE Store(value, place.result_value.to, value.result_value)

\* Nothing is restored: result_type is what the value was asked for.
v_store(c, e) ==
    LET place == visit(e.args[2], Want(c, UNREFERENCE))
        value == visit(e.args[1], Want(place, place.result_type.element))
    IN  IF Failed(place) THEN place
        ELSE IF Failed(value) THEN value
        ELSE IF ~IsPlace(value, place.result_value.to, place.result_type.element) THEN Undefined(c)
        ELSE Store(value, place.result_value.to, value.result_value)

v_load(c, e) ==
    LET place == visit(e.args[1], Want(c, UNREFERENCE))
        t == place.result_type.element
    IN  IF Failed(place) THEN place
        ELSE IF ~Holds(place, place.result_value.to, t) THEN Undefined(c)
        ELSE Give(place, c, t, Load(place.result_value, place.mem))

\* A value where there was none: a constant global, or a temporary.
PlaceValue(c, t, v) ==
    LET placed == Place(t, v, c.mem)
    IN  [make_temporary(c, placed.mem) EXCEPT !.result_value = placed.val]


\* Trunc, SExt, ZExt and the like, on numbers that fit; bits that are read
\* otherwise.  From what is left when a reference has been loaded or has decayed; from is a
\* context that holds it.
CastValue(from, t, v, u) ==
    CASE t.kind = "array" /\ u.kind = "pointer" -> PlaceValue(from, t, v)
      [] IsNumber(t) /\ IsNumber(u) -> [from EXCEPT !.result_value = Cast(t, v, u)]
      [] t.kind = "pointer" /\ u.kind = "pointer" -> [from EXCEPT !.result_value = v]
      [] is_integer(t) /\ u.kind = "pointer" -> [from EXCEPT !.result_value = Address(v.n, v.const)]
      [] t.kind = "pointer" /\ is_integer(u) ->
            [from EXCEPT !.result_value = Number(v.to % Pow2(u.width), v.const)]
      [] OTHER -> Throw(from)

v_cast(c, e) ==
    LET source == visit(e.args[1], Want(c, INVIOLABLE))
        target == visit(e.args[2], Want(source, StaticType))
        t == source.result_type
        v == source.result_value
        u == target.result_value.of
        cast == CASE t.kind = "reference" /\ u.kind = "reference" ->
                        [target EXCEPT !.result_value = v]
                  [] IsArrayReference(t) /\ u.kind = "pointer" ->
                        CastValue(target, Pointer(t.element.element, t.as), v, u)
                  [] t.kind = "reference" /\ u.kind # "reference"
                     /\ ~(IsArrayReference(t) /\ u.kind = "pointer") ->
                        IF Holds(target, v.to, t.element)
                        THEN CastValue(target, t.element, Load(v, target.mem), u)
                        ELSE Undefined(target)
                  [] OTHER -> CastValue(target, t, v, u)
    IN  IF Failed(target) THEN target
        ELSE IF Failed(cast) THEN cast
        ELSE Give(cast, c, u, cast.result_value)

v_pointer(c, e) ==
    LET part == visit(e.args[1], Want(c, INVIOLABLE))
        t == part.result_type
        placed == IF t.kind = "reference" THEN part ELSE PlaceValue(part, t, part.result_value)
    IN  IF Failed(part) THEN part
        ELSE IF t.kind = "reference" THEN Give(part, c, Pointer(t.element, t.as), part.result_value)
        ELSE Give(placed, c, Pointer(t, 0), placed.result_value)

v_reference(c, e) ==
    LET part == visit(e.args[1], Want(c, UNREFERENCE))
    IN  IF Failed(part) THEN part
        ELSE Give(part, c, Reference(part.result_type.element, part.result_type.as),
                  part.result_value)

v_assign(c, e) ==
    LET place == visit(e.args[1], Want(c, INVIOLABLE))
        value == visit(e.args[2], Want(place, place.result_type.element))
    IN  IF Failed(place) THEN place
        ELSE IF Failed(value) THEN value
        ELSE IF ~IsPlace(value, place.result_value.to, place.result_type.element) THEN Undefined(c)
        ELSE Give(Store(value, place.result_value.to, value.result_value), c,
                  place.result_type, place.result_value)

\* v_obtain_special_result_value of the library: a temporary that is to be ended.
library_object(c) ==
    LET i == Len(c.mem) + 1
        object == [type |-> ObjectT, val |-> ObjectValue(0), from |-> "temporary"]
    IN  Give(add_temporary_cleaner(make_temporary(c, Append(c.mem, object)), i), c,
             Reference(ObjectT, 0), Address(i, FALSE))

-----------------------------------------------------------------------------
visit(e, c) ==
    IF Failed(c) THEN c
    ELSE CASE e.op = "name" -> compile_expr_identifier(c, e)
           [] e.op = "integer" -> compile_expr_integer(c, e)
           [] e.op = "compiled" -> compile_expr_compiled(c, e)
           [] e.op = "call" -> compile_expr_call(c, e)
           [] e.op = "v_alloca" -> v_alloca(c, e)
           [] e.op = "v_getelementptr" -> v_getelementptr(c, e)
           [] e.op = "v_store" -> v_store(c, e)
           [] e.op = "v_load" -> v_load(c, e)
           [] e.op = "v_cast" -> v_cast(c, e)
           [] e.op = "v_pointer" -> v_pointer(c, e)
           [] e.op = "v_reference" -> v_reference(c, e)
           [] e.op = "v_assign" -> v_assign(c, e)
           [] e.op = "object" -> library_object(c)

\* The result is taken before the cleaners are compiled, which have statements
\* of their own.
BindResult(in, out, s) ==
    IF Failed(in) THEN in
    ELSE IF Failed(out) \/ s.name = "" THEN out
    ELSE [out EXCEPT !.vars =
            (s.name :> [type |-> in.result_type, val |-> in.result_value]) @@ @]

EndStatement(in, s) == BindResult(in, pop_temporaries(in), s)

compile_stmt(c, s) ==
    EndStatement(visit(s.expr, [push_temporaries(c) EXCEPT !.result_type = INVIOLABLE]), s)

\* prepare_unit_action: nothing has been compiled.
Init ==
    /\ lctx = [vars |-> Parameters, result_type |-> INVIOLABLE, result_value |-> Null,
               temporaries_stack |-> <<>>, mem |-> Objects, stack |-> <<>>, answer |-> "yes"]
    /\ program = <<>>

\* compile_stmt_list.
Statement(s) ==
    /\ Len(program) < MaxStatements
    /\ lctx.answer = "yes"
    /\ lctx' = compile_stmt(lctx, s)
    /\ program' = Append(program, s)

Next == \E s \in Statements : Statement(s)

Spec == Init /\ [][Next]_vars
=============================================================================
