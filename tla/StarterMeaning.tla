--------------------------- MODULE StarterMeaning ---------------------------
(***************************************************************************)
(* What a program of the Starter language means, and the promise of its     *)
(* compiler.  An expression has a type and a value of its own and knows     *)
(* nothing of the use that is made of it; the value is converted where it   *)
(* is used.  A number is a number: it is reduced to a width only where it   *)
(* is converted or kept.  A value that a reference or a pointer is made to  *)
(* lives until its statement ends, a variable for good.                     *)
(***************************************************************************)
EXTENDS StarterCompiler

\* The meaning of a part: vars and mem are what it leaves, answer is "yes",
\* "undefined" or, for a conversion that the language refuses, "throws"; bits is
\* what an integer needs, which is less than its width when it is a literal.
\* until is 0 for an object that stays, else the statement it ends with.
Start == [vars |-> Parameters, mem |-> [i \in DOMAIN Objects |->
              [type |-> Objects[i].type, val |-> Objects[i].val, until |-> 0]],
          type |-> Void, val |-> Nothing, bits |-> 0, now |-> 1, answer |-> "yes"]

IsThere(r, i) == i \in DOMAIN r.mem /\ r.mem[i].until \in {0, r.now}
IsKept(r, i, t) == IsThere(r, i) /\ r.mem[i].type = t /\ r.mem[i].val # Nothing

Width(t) == IF is_integer(t) THEN t.width ELSE 0
Is(r, t, v) == [r EXCEPT !.type = t, !.val = v, !.bits = Width(t)]

\* The value of a reference, and an object that holds the value.
Loaded(r) ==
    IF IsKept(r, r.val.to, r.type.element) THEN Is(r, r.type.element, Load(r.val, r.mem))
    ELSE Undefined(r)

New(r, t, v, n, until) ==
    [r EXCEPT !.mem = @ \o [k \in 1 .. n |-> [type |-> t, val |-> v, until |-> until]]]
Kept(r) == Is(New(r, r.type, r.val, 1, r.now), Reference(r.type, 0), Address(Len(r.mem) + 1, FALSE))

PointerTo(r) == Is(r, Pointer(r.type.element, r.type.as), r.val)
ElementsOf(r) == Is(r, Pointer(r.type.element.element, r.type.as), r.val)

\* An operand: no reference, no array.
Operand(r) ==
    IF Failed(r) THEN r
    ELSE IF IsArrayReference(r.type) THEN ElementsOf(r)
    ELSE IF r.type.kind = "reference" THEN Loaded(r)
    ELSE IF r.type.kind = "array" THEN ElementsOf(Kept(r))
    ELSE r

\* A value for a place of type t: no bit is lost, numbers may become floating
\* point, zero is the null pointer, and any pointer is a pointer to void.
RECURSIVE As(_, _)
As(r, t) ==
    IF Failed(r) \/ r.type = t THEN r
    ELSE IF t.kind = "reference"
         THEN LET value == As(r, t.element) IN IF Failed(value) THEN value ELSE Kept(value)
    ELSE IF IsArrayReference(r.type) /\ t.kind = "pointer" THEN As(ElementsOf(r), t)
    ELSE IF r.type.kind = "reference" THEN As(Loaded(r), t)
    ELSE IF r.type.kind = "array" /\ t.kind = "pointer" THEN As(ElementsOf(Kept(r)), t)
    ELSE IF is_integer(r.type) /\ (is_floating_point(t) \/ (is_integer(t) /\ r.bits <= t.width))
         THEN Is(r, t, Cast(r.type, r.val, t))
    ELSE IF r.type.kind = "float" /\ t.kind = "float" /\ r.type.width <= t.width THEN Is(r, t, r.val)
    ELSE IF LLVMIsNull(r.val) /\ is_integer(r.type) /\ t.kind = "pointer" THEN Is(r, t, Null)
    ELSE IF r.type.kind = "pointer" /\ IsVoidPointer(t) THEN Is(r, t, r.val)
    ELSE Throw(r)

-----------------------------------------------------------------------------
RECURSIVE Means(_, _)

NamedMeans(e, r) ==
    IF e.name \in DOMAIN r.vars THEN Is(r, r.vars[e.name].type, r.vars[e.name].val)
    ELSE IF e.name \in DOMAIN Symbols THEN Is(r, Symbols[e.name].type, Symbols[e.name].val)
    ELSE Throw(r)

\* A literal is of type int when that holds it.
LiteralMeans(e, r) ==
    LET t == IF e.num \in -Pow2(int_type.width - 1) .. Pow2(int_type.width - 1) - 1
             THEN int_type ELSE intptr_t_type
        enough == {w \in 1 .. t.width :
                     e.num \in (IF e.num > 0 THEN 0 .. Pow2(w) - 1 ELSE -Pow2(w - 1) .. 0)}
    IN  [Is(r, t, Number(e.num % Pow2(t.width), TRUE)) EXCEPT
            !.bits = CHOOSE w \in enough : \A u \in enough : w <= u]

\* What an argument refers to is there.
Reaches(r) ==
    ~Failed(r) /\ r.type.kind \in {"reference", "pointer"} =>
        r.val.to = 0 \/ (IsThere(r, r.val.to) /\ PointsTo(r.mem[r.val.to], r.type.element))

CallMeans(e, r) ==
    LET ft == Symbols[e.fun.name].type.element
        arg[k \in 0 .. Len(e.args)] ==
            IF k = 0 THEN [after |-> r, vals |-> <<>>, reach |-> TRUE]
            ELSE LET own == Means(e.args[k], arg[k - 1].after)
                     after == IF k <= Len(ft.params) THEN As(own, ft.params[k]) ELSE Operand(own)
                 IN  [after |-> after,
                      vals |-> Append(arg[k - 1].vals, after.val),
                      reach |-> arg[k - 1].reach /\ Reaches(after)]
        all == arg[Len(e.args)]
        call == Apply(e.fun.name, all.vals, all.after.mem)
    IN  IF Failed(all.after) THEN all.after
        ELSE IF ~all.reach THEN Undefined(r)
        ELSE Is([all.after EXCEPT !.mem = call.mem], ft.ret, call.val)

AllocaMeans(e, r) ==
    LET t == Means(e.args[1], r).val.of
        size == IF Len(e.args) = 1 THEN [r EXCEPT !.val = Number(1, TRUE)]
                ELSE Operand(Means(e.args[2], r))
    IN  IF Failed(size) THEN size
        ELSE Is(New(size, t, Nothing, size.val.n, 0), Pointer(t, 0), Address(Len(size.mem) + 1, FALSE))

\* An index is a number, signed or not.
ElementMeans(e, r) ==
    LET base == Operand(Means(e.args[1], r))
        index == Operand(Means(e.args[2], base))
    IN  IF Failed(index) THEN index
        ELSE Is(index, base.type, Address(base.val.to + Meaning(index.type, index.val.n), FALSE))

Put(r, place, v) ==
    IF Failed(r) THEN r
    ELSE IF IsThere(r, place.val.to) /\ r.mem[place.val.to].type = place.type.element
         THEN [r EXCEPT !.mem[place.val.to].val = v]
    ELSE Undefined(r)

StoreMeans(e, r) ==
    LET place == Operand(Means(e.args[2], r))
        value == As(Means(e.args[1], place), place.type.element)
    IN  Put(value, place, value.val)

AssignMeans(e, r) ==
    LET place == Means(e.args[1], r)
        value == As(Means(e.args[2], place), place.type.element)
    IN  Is(Put(value, place, value.val), place.type, place.val)

LoadMeans(e, r) ==
    LET place == Operand(Means(e.args[1], r)) IN IF Failed(place) THEN place ELSE Loaded(place)

PointerMeans(e, r) ==
    LET part == Means(e.args[1], r)
    IN  IF Failed(part) THEN part
        ELSE PointerTo(IF part.type.kind = "reference" THEN part ELSE Kept(part))

ReferenceMeans(e, r) ==
    LET part == Operand(Means(e.args[1], r))
    IN  IF Failed(part) THEN part
        ELSE Is(part, Reference(part.type.element, part.type.as), part.val)

\* A cast takes the bits that fit.  Nothing is said of addresses as numbers.
CastMeans(e, r) ==
    LET part == Means(e.args[1], r)
        u == Means(e.args[2], part).val.of
        value == Operand(part)
    IN  IF Failed(part) THEN part
        ELSE IF part.type.kind = "reference" /\ u.kind = "reference" THEN Is(part, u, part.val)
        ELSE IF Failed(value) THEN value
        ELSE IF IsNumber(value.type) /\ IsNumber(u) THEN Is(value, u, Cast(value.type, value.val, u))
        ELSE IF value.type.kind = "pointer" /\ u.kind = "pointer" THEN Is(value, u, value.val)
        ELSE IF {value.type.kind, u.kind} \in {{"pointer", k} : k \in {"int", "uint"}}
             THEN Undefined(value)
        ELSE Throw(value)

ObjectMeans(r) ==
    Is(New(r, ObjectT, ObjectValue(0), 1, r.now), Reference(ObjectT, 0),
       Address(Len(r.mem) + 1, FALSE))

Means(e, r) ==
    IF Failed(r) THEN r
    ELSE CASE e.op = "name" -> NamedMeans(e, r)
           [] e.op = "integer" -> LiteralMeans(e, r)
           [] e.op = "compiled" -> Is(r, e.type, e.val)
           [] e.op = "call" -> CallMeans(e, r)
           [] e.op = "v_alloca" -> AllocaMeans(e, r)
           [] e.op = "v_getelementptr" -> ElementMeans(e, r)
           [] e.op = "v_store" -> StoreMeans(e, r)
           [] e.op = "v_load" -> LoadMeans(e, r)
           [] e.op = "v_cast" -> CastMeans(e, r)
           [] e.op = "v_pointer" -> PointerMeans(e, r)
           [] e.op = "v_reference" -> ReferenceMeans(e, r)
           [] e.op = "v_assign" -> AssignMeans(e, r)
           [] e.op = "object" -> ObjectMeans(r)

\* Its objects end with the statement, the newest first.
RECURSIVE Ended(_, _)
Ended(r, i) ==
    IF i = 0 THEN r
    ELSE Ended(IF r.mem[i].type = ObjectT /\ r.mem[i].until = r.now
               THEN [r EXCEPT !.mem = Apply("terminate", <<Address(i, FALSE)>>, @).mem] ELSE r,
               i - 1)

EndMeans(out, end, s) ==
    IF Failed(out) THEN out
    ELSE [end EXCEPT !.now = @ + 1,
                     !.vars = IF s.name = "" THEN @
                              ELSE (s.name :> [type |-> out.type, val |-> out.val]) @@ @]

ResultMeans(out, s) == EndMeans(out, Ended(out, Len(out.mem)), s)

StatementMeans(r, s) == ResultMeans(Means(s.expr, r), s)

ProgramMeans ==
    LET after[k \in 0 .. Len(program)] ==
            IF k = 0 THEN Start
            ELSE IF Failed(after[k - 1]) THEN after[k - 1]
            ELSE StatementMeans(after[k - 1], program[k])
    IN  after[Len(program)]

-----------------------------------------------------------------------------
(* The promise.                                                             *)

\* What is reached from value v of the meaning is reached from value u of the
\* code.  What is gone may still be there in the code, as a constant.
RECURSIVE Agree(_, _, _, _, _)
Agree(t, v, r, u, c) ==
    CASE is_integer(t) \/ is_floating_point(t) -> v.n = u.n
      [] t.kind \in {"pointer", "reference"} ->
            IF v.to = 0 \/ u.to = 0 THEN v.to = u.to
            ELSE IsKept(r, v.to, t.element) =>
                    /\ Holds(c, u.to, t.element)
                    /\ Agree(t.element, r.mem[v.to].val, r, c.mem[u.to].val, c)
      [] OTHER -> TRUE

\* The objects of the library, in the order they were begun: when they ended.
Library(m) ==
    LET objects == SelectSeq(m, LAMBDA o : o.type = ObjectT)
    IN  [k \in DOMAIN objects |-> objects[k].val]

\* A v_alloca is a statement of its own, and its size a literal.
RECURSIVE Parts(_)
Parts(e) ==
    {e} \cup (IF "args" \in DOMAIN e THEN UNION {Parts(e.args[k]) : k \in DOMAIN e.args} ELSE {})

Plain(s) ==
    \A part \in Parts(s.expr) : part.op = "v_alloca" =>
        part = s.expr /\ (Len(part.args) = 2 => part.args[2].op = "integer")

\* What the code has done is what the program means by r.
DoneAs(r) ==
    /\ lctx.answer = r.answer
    /\ r.answer = "yes" =>
         /\ DOMAIN lctx.vars = DOMAIN r.vars
         /\ \A x \in DOMAIN r.vars :
              /\ lctx.vars[x].type = r.vars[x].type
              /\ Agree(r.vars[x].type, r.vars[x].val, r, lctx.vars[x].val, lctx)
         /\ \A i \in DOMAIN Objects :
              Agree(Objects[i].type, r.mem[i].val, r, lctx.mem[i].val, lctx)
         /\ Library(lctx.mem) = Library(r.mem)

\* Compiled code does what its program means: in whatever way an expression is
\* compiled for the use that is made of it, every name, and everything that it
\* leads to, is of the type and the value that the program gives it, what is
\* passed to a function is there when it is called, and the objects of the
\* library end with their statements, each once and the newest first; what the
\* language refuses is refused (visits and adopt_result, compile_stmt).
MeansItself ==
    LET Holding(r) == r.answer = "undefined" \/ DoneAs(r)
    IN  (\A k \in DOMAIN program : Plain(program[k])) => Holding(ProgramMeans)

\* No temporary outlives its statement, on whatever path it was made, every
\* object of the library has been ended by then, and what v_alloca made stays,
\* except where the statement had made a temporary before it (make_temporary,
\* pop_temporaries, v_alloca).
TemporariesEnd ==
    lctx.answer = "yes" =>
        /\ lctx.temporaries_stack = <<>>
        /\ \A k \in DOMAIN lctx.stack : lctx.mem[lctx.stack[k]].from = "variable"
        /\ \A i \in DOMAIN lctx.mem :
             lctx.mem[i].type = ObjectT => lctx.mem[i].val # ObjectValue(0)
        /\ (\A k \in DOMAIN program : Plain(program[k])) <=>
             \A i \in DOMAIN lctx.mem : lctx.mem[i].from = "variable" => Live(lctx, i)

\* Every name has a value of its type, and so has every object that was stored
\* to (adopt_result, v_store).
TypeOK ==
    LET IsTyped(t, v) == CASE t = ObjectT -> v.kind = "object"
                           [] t.kind \in {"void", "function", "static_type"} -> TRUE
                           [] OTHER -> HasType(v, t, lctx.mem)
    IN  /\ lctx.answer \in {"yes", "throws", "undefined"}
        /\ lctx.answer = "yes" =>
             /\ \A x \in DOMAIN lctx.vars : IsTyped(lctx.vars[x].type, lctx.vars[x].val)
             /\ \A i \in DOMAIN lctx.mem :
                  lctx.mem[i].val # Nothing => IsTyped(lctx.mem[i].type, lctx.mem[i].val)
=============================================================================
