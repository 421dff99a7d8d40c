--------------------------- MODULE VpegExpression ---------------------------
(***************************************************************************)
(* The grammar of operators that voidc_enable_expression adds to level 0,   *)
(* compiler/import/level-01/expression.void, with the operators of          *)
(* expr_util.void: precedence climbing by a packrat parser.  What its       *)
(* actions keep (aux) is the stack of precedences, the innermost first: the *)
(* least precedence that the text being read may have.                      *)
(***************************************************************************)
EXTENDS VpegVoidc

CONSTANT Operators     \* the operators that the sources of a model use

\* expr_oplist_ctor, in the order in which the grammar tries the texts:
\* precedence, 1 if left-associative, and what must not follow (a class).
Op(name, text, prec, left, unless) ==
    [name |-> name, text |-> text, prec |-> prec, left |-> left, unless |-> unless]
InfixTable == <<
    Op("op_infix_add_assign", <<"+", "=">>, 1000, 0, {}),
    Op("op_infix_add", <<"+">>, 10000, 1, {"+"}),
    Op("op_infix_sub_assign", <<"-", "=">>, 1000, 0, {}),
    Op("op_infix_sub", <<"-">>, 10000, 1, {"-"}),
    Op("op_infix_mul_assign", <<"*", "=">>, 1000, 0, {}),
    Op("op_infix_mul", <<"*">>, 11000, 1, {}),
    Op("op_infix_div_assign", <<"/", "=">>, 1000, 0, {}),
    Op("op_infix_div", <<"/">>, 11000, 1, {}),
    Op("op_infix_rem_assign", <<"%", "=">>, 1000, 0, {}),
    Op("op_infix_rem", <<"%">>, 11000, 1, {}),
    Op("op_infix_assign", <<":", "=">>, 1000, 0, {}),
    Op("op_infix_le", <<"<", "=">>, 8000, 1, {}),
    Op("op_infix_shl_assign", <<"<", "<", "=">>, 1000, 0, {}),
    Op("op_infix_shl", <<"<", "<">>, 9000, 1, {}),
    Op("op_infix_lt", <<"<">>, 8000, 1, {}),
    Op("op_infix_ge", <<">", "=">>, 8000, 1, {}),
    Op("op_infix_shr_assign", <<">", ">", "=">>, 1000, 0, {}),
    Op("op_infix_shr", <<">", ">">>, 9000, 1, {}),
    Op("op_infix_gt", <<">">>, 8000, 1, {}),
    Op("op_infix_eq", <<"=", "=">>, 8000, 1, {}),
    Op("op_infix_ne", <<"!", "=">>, 8000, 1, {}),
    Op("op_infix_logical_and", <<"&", "&">>, 4000, 1, {}),
    Op("op_infix_and_assign", <<"&", "=">>, 1000, 0, {}),
    Op("op_infix_and", <<"&">>, 7000, 1, {}),
    Op("op_infix_xor_assign", <<"^", "=">>, 1000, 0, {}),
    Op("op_infix_xor", <<"^">>, 6000, 1, {}),
    Op("op_infix_logical_or", <<"|", "|">>, 3000, 1, {}),
    Op("op_infix_or_assign", <<"|", "=">>, 1000, 0, {}),
    Op("op_infix_or", <<"|">>, 5000, 1, {})>>
PrefixTable == <<
    Op("op_prefix_inc", <<"+", "+">>, 20000, 0, {}),
    Op("op_prefix_plus", <<"+">>, 20000, 0, Digits),
    Op("op_prefix_dec", <<"-", "-">>, 20000, 0, {}),
    Op("op_prefix_minus", <<"-">>, 20000, 0, Digits),
    Op("op_prefix_star", <<"*">>, 20000, 0, {}),
    Op("op_prefix_amp", <<"&">>, 20000, 0, {}),
    Op("op_prefix_bang", <<"!">>, 20000, 0, {}),
    Op("op_prefix_tilde", <<"~">>, 20000, 0, {})>>
PostfixTable == <<
    Op("op_postfix_inc", <<"+", "+">>, 30000, 0, {}),
    Op("op_postfix_dec", <<"-", "-">>, 30000, 0, {})>>
Applications == <<
    Op("op_postfix_call", <<"(", ")">>, 30000, 0, {}),
    Op("op_postfix_index", <<"[", "]">>, 30000, 0, {})>>
InUse(table) == SelectSeq(table, LAMBDA o : o.name \in Operators)

Table == InfixTable \o PrefixTable \o PostfixTable \o Applications
OpNames == {Table[i].name : i \in DOMAIN Table}
ASSUME OperatorsAssumption == Operators \subseteq OpNames

\* The operator that begins the value of infix, postfix or prefix.
OpOf(v) == Table[CHOOSE i \in DOMAIN Table : Table[i].name = Head(v)]

(***************************************************************************)
(* Actions.  ExprAct is the result, ExprActAux the stack of precedences.    *)
(***************************************************************************)
precedence_stack_push(prec, st) == <<prec>> \o st
precedence_stack_pop(st) == Tail(st)
precedence_stack_peek(st) == Head(st)

\* An operator with its operands, and with the arguments of an index.
OpNode(op, operands) == Node("op", op \o operands)

ExprAct(a, args, st) ==
    CASE a \in {"expr_start", "expr_push_prefix"} -> Dummy
      [] a = "expr_stop" -> args[1]
      [] a = "expr_cleanup" -> None                              \* "Just fail!"
      [] a = "expr_check_infix" ->
           IF OpOf(args[1]).prec < precedence_stack_peek(st) THEN None ELSE Dummy
      [] a = "expr_infix" -> OpNode(args[1], args[2] \o args[3])
      [] a = "expr_make_postfix" ->
           IF OpOf(args[2]).prec < precedence_stack_peek(st) THEN None
           ELSE IF Head(args[2]) = "op_postfix_call"
           THEN Node("call", args[1] \o Tail(args[2]))           \* "Special case!"
           ELSE OpNode(args[2], args[1])
      [] a \in {"expr_prefix", "mk_bracketed"} -> OpNode(args[1], args[2])
      [] a = "mk_op_apply" -> args[1] \o args[2]
      [] OTHER -> VoidcAct(a, args, st)

\* Mutant of ExprActAux: the right operand of a left-associative operator may
\* begin with the operator again.
ExprActAux_AllRight(a, args, st) ==
    CASE a = "expr_start" -> precedence_stack_push(0, st)
      [] a \in {"expr_stop", "expr_cleanup", "expr_infix", "expr_prefix"} ->
           precedence_stack_pop(st)
      [] a = "expr_check_infix" /\ OpOf(args[1]).prec >= precedence_stack_peek(st) ->
           precedence_stack_push(OpOf(args[1]).prec, st)
      [] a = "expr_push_prefix" -> precedence_stack_push(OpOf(args[1]).prec, st)
      [] OTHER -> st

ExprActAux(a, args, st) ==
    CASE a = "expr_start" -> precedence_stack_push(0, st)
      [] a \in {"expr_stop", "expr_cleanup", "expr_infix", "expr_prefix"} ->
           precedence_stack_pop(st)
      [] a = "expr_check_infix" /\ OpOf(args[1]).prec >= precedence_stack_peek(st) ->
           precedence_stack_push(OpOf(args[1]).prec + OpOf(args[1]).left, st)
      [] a = "expr_push_prefix" -> precedence_stack_push(OpOf(args[1]).prec, st)
      [] OTHER -> st

(***************************************************************************)
(* The rules.                                                               *)
(***************************************************************************)
\* expr = { expr_start() }  e:expr_ck  { expr_stop(e) }
expr_climbing == Sequence(<<Action("expr_start", <<>>), V("e", I("expr_ck")),
                            Action("expr_stop", <<VarArg("e")>>)>>)
\* expr_ck = expr_lr / { expr_cleanup() }
expr_ck == Choice(<<I("expr_lr"), Action("expr_cleanup", <<>>)>>)
\* expr_lr = l:expr_lr _ op:infix _ { expr_check_infix(op) }  r:expr_ck
\*                                                       { expr_infix(op, l, r) }
\*         / l:expr_lr _ op:postfix { expr_make_postfix(l, op) }
\*         / op:prefix _ { expr_push_prefix(op) }  r:expr_ck  { expr_prefix(op, r) }
\*         / prim
expr_lr == Choice(<<
    Sequence(<<V("l", I("expr_lr")), Blank, V("op", I("infix")), Blank,
               Action("expr_check_infix", <<VarArg("op")>>), V("r", I("expr_ck")),
               Action("expr_infix", <<VarArg("op"), VarArg("l"), VarArg("r")>>)>>),
    Sequence(<<V("l", I("expr_lr")), Blank, V("op", I("postfix")),
               Action("expr_make_postfix", <<VarArg("l"), VarArg("op")>>)>>),
    Sequence(<<V("op", I("prefix")), Blank, Action("expr_push_prefix", <<VarArg("op")>>),
               V("r", I("expr_ck")), Action("expr_prefix", <<VarArg("op"), VarArg("r")>>)>>),
    I("prim")>>)

\* "+=" { op_infix_add_assign } / '+' !'+' { op_infix_add } / ...
Symbols(table) ==
    LET ops == InUse(table)
        Alternative(o) ==
            Sequence(<<Literal(o.text)>>
                     \o (IF o.unless = {} THEN <<>> ELSE <<Not(Class(o.unless))>>)
                     \o <<Action("return", <<ConstArg(<<o.name>>)>>)>>)
    IN [i \in DOMAIN ops |-> Alternative(ops[i])]
infix == Choice(Symbols(InfixTable))
prefix == Choice(Symbols(PrefixTable))
\* postfix = "++" { op_postfix_inc } / "--" { op_postfix_dec }
\*         / '(' _ a:expr_list _ ')'   { mk_op_apply(op_postfix_call, a) }
\*         / '[' _ a:expr_list _ ']'   { mk_op_apply(op_postfix_index, a) }
postfix ==
    LET ops == InUse(Applications)
        Application(o) ==
            Sequence(<<C(o.text[1]), Blank, V("a", I("expr_list")), Blank, C(o.text[2]),
                       Action("mk_op_apply", <<ConstArg(<<o.name>>), VarArg("a")>>)>>)
    IN Choice(Symbols(PostfixTable) \o [i \in DOMAIN ops |-> Application(ops[i])])
\* bracketed = '(' _ e:expr _ ')'      { mk_bracketed(op_parentheses, e) }
bracketed ==
    Sequence(<<C("("), Blank, V("e", I("expr")), Blank, C(")"),
               Action("mk_bracketed", <<ConstArg(<<"op_parentheses">>), VarArg("e")>>)>>)

ExpressionChar == VoidcChar \cup {"*", "%", ":", "<", ">", "&", "^", "|", "~", "[", "]"}

\* The grammar once voidc_enable_expression has run; prim += bracketed.
ExpressionParsers ==
    ("expr" :> expr_climbing) @@ ("expr_ck" :> expr_ck) @@ ("expr_lr" :> expr_lr)
    @@ ("prim" :> Choice(Append(prim.kids, I("bracketed")))) @@ ("infix" :> infix)
    @@ ("postfix" :> postfix) @@ ("prefix" :> prefix) @@ ("bracketed" :> bracketed)
    @@ VoidcParsers
ExpressionLeftRec == (VoidcLeftRec \ {"expr"}) \cup {"expr_lr"}

=============================================================================
