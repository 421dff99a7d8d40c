----------------------------- MODULE VpegVoidc -----------------------------
(***************************************************************************)
(* The level-0 grammar of voidc, compiler/stage0/vpeg_voidc.cpp: its rules  *)
(* as terms of VpegParser and its actions as operators.  A syntax tree is a *)
(* sequence of symbols in prefix order: a tag, what belongs to it, "end".   *)
(* Numbers are their digits; words have Bits bits.                          *)
(***************************************************************************)
EXTENDS VpegMeaning

CONSTANT Bits
ASSUME BitsAssumption == Bits \in 2..6   \* two digits hold every number

(***************************************************************************)
(* Numbers.                                                                 *)
(***************************************************************************)
Digit == <<"0", "1", "2", "3", "4", "5", "6", "7", "8", "9">>
DigitValue(c) == (CHOOSE i \in 1..10 : Digit[i] = c) - 1
Decimal(n) == IF n < 10 THEN <<Digit[n + 1]>> ELSE <<Digit[(n \div 10) + 1], Digit[(n % 10) + 1]>>
Number(ds) == IF Len(ds) = 1 THEN DigitValue(ds[1])
              ELSE 10 * DigitValue(ds[1]) + DigitValue(ds[2])

UIntMax == 2^Bits - 1
IntMax == UIntMax \div 2

\* mk_dec_integer, mk_pos_integer, mk_neg_integer: None is "Fail!".

\* Mutant of mk_dec_integer: the last digit is not looked at.
mk_dec_integer_Wraps(n, d) ==
    IF n > UIntMax \div 10 THEN None ELSE Decimal((10 * n + d) % (UIntMax + 1))

mk_dec_integer(n, d) ==
    IF n > UIntMax \div 10 \/ (n = UIntMax \div 10 /\ d > UIntMax % 10)
    THEN None ELSE Decimal(10 * n + d)
mk_pos_integer(n) == IF n > IntMax THEN None ELSE Decimal(n)
mk_neg_integer(n) ==
    IF n > UIntMax - IntMax THEN None
    ELSE LET m == (UIntMax - n + 1) % (UIntMax + 1)     \* ~n + 1, as intptr_t
         IN IF m <= IntMax THEN Decimal(m) ELSE <<"-">> \o Decimal(UIntMax + 1 - m)

(***************************************************************************)
(* Actions.                                                                 *)
(***************************************************************************)
Node(tag, v) == <<tag>> \o v \o <<"end">>
Is(tag, v) == v # <<>> /\ Head(v) = tag

\* A list with one more item; a list that is none is nil, an item that is
\* none (the integer argument 0) is not appended.
ListWith(tag, items, list, item) ==
    LET l == IF Is(tag, list) THEN list ELSE <<tag, "end">>
    IN IF \E t \in items : Is(t, item)
       THEN SubSeq(l, 1, Len(l) - 1) \o item \o <<"end">> ELSE l

Zero == <<"none">>     \* the int 0: not a list, not an item, not a string
\* Kinds of expressions; "op" is one of VpegExpression.
ExprTags == {"call", "ident", "int", "str", "char", "op"}

VoidcAct(a, args, v) ==
    CASE a = "return" -> args[1]
      [] a = "mk_unit" -> IF Is("stmts", args[1]) THEN Node("unit", args[2] \o args[1])
                          ELSE Node("unit", args[2] \o <<"stmts", "end">>)
      [] a = "mk_stmt_list" -> ListWith("stmts", {"stmt"}, args[1], args[2])
      [] a = "mk_stmt" -> Node("stmt", (IF args[1] = Zero THEN <<>> ELSE args[1] \o <<"=">>)
                                \o (IF args[2] = Zero THEN <<>> ELSE args[2]))
      [] a = "mk_expr_call" -> Node("call", args[1] \o args[2])
      [] a = "mk_expr_list" -> ListWith("exprs", ExprTags, args[1], args[2])
      [] a = "mk_expr_identifier" -> Node("ident", args[1])
      [] a = "mk_expr_integer" -> Node("int", args[1])
      [] a = "mk_expr_string" -> Node("str", args[1])
      [] a = "mk_expr_char" -> Node("char", args[1])
      [] a = "mk_pos_integer" -> mk_pos_integer(Number(args[1]))
      [] a = "mk_neg_integer" -> mk_neg_integer(Number(args[1]))
      [] a = "mk_dec_integer" -> mk_dec_integer(Number(args[1]), DigitValue(args[2][1]))
      [] a = "mk_dec_numdigit" -> args[1]
      [] a = "mk_string_str" -> args[1] \o args[2]
      [] a = "mk_string_chr" -> args[1] \o args[2]
      [] a = "mk_EOF" -> <<"EOF">>
      [] a = "is_SOF" -> IF args[1] = PosValue(0) THEN Zero ELSE None

(***************************************************************************)
(* The rules.  Above each, the source's own notation.                       *)
(***************************************************************************)
I(r) == Identifier(r)
V(n, p) == CatchVariable(n, p)
Blank == I("_")
C(c) == Character(c)
\* [a-zA-Z_]: the letters that matter to some rule, and some more.
Letters == {"f", "n", "r", "t", "x", "_"}
Digits == {Digit[i] : i \in 1..10}

\* The characters that the sources of a model can contain.
VoidcChar == Letters \cup Digits \cup
    {"{", "}", ";", "=", "(", ")", ",", "+", "-", "'", "\"", "\\", "/", "#", "!",
     " ", "\t", "\n", "\r"}

\* unit <- _ <'{'> _ l:stmt_list _ '}'     { mk_unit(l, $1s) }
\*       / _ !.                            { mk_EOF() }
unit == Choice(<<
    Sequence(<<Blank, CatchString(C("{")), Blank, V("l", I("stmt_list")), Blank, C("}"),
               Action("mk_unit", <<VarArg("l"), BackArg(1, "start")>>)>>),
    Sequence(<<Blank, Not(Dot), Action("mk_EOF", <<>>)>>)>>)

\* stmt_list <- stmt_list_lr /             { mk_stmt_list(0, 0) }
stmt_list == Choice(<<I("stmt_list_lr"),
    Action("mk_stmt_list", <<ConstArg(Zero), ConstArg(Zero)>>)>>)

\* stmt_list_lr <- l:stmt_list_lr _ s:stmt { mk_stmt_list(l, s) }
\*               / s:stmt                  { mk_stmt_list(0, s) }
stmt_list_lr == Choice(<<
    Sequence(<<V("l", I("stmt_list_lr")), Blank, V("s", I("stmt")),
               Action("mk_stmt_list", <<VarArg("l"), VarArg("s")>>)>>),
    Sequence(<<V("s", I("stmt")),
               Action("mk_stmt_list", <<ConstArg(Zero), VarArg("s")>>)>>)>>)

\* stmt <- v:identifier _ '=' _ e:expr _ ';'   { mk_stmt(v, e) }
\*       / e:expr _ ';'                        { mk_stmt(0, e) }
\*       / ';'                                 { mk_stmt(0, 0) }
stmt == Choice(<<
    Sequence(<<V("v", I("identifier")), Blank, C("="), Blank, V("e", I("expr")), Blank,
               C(";"), Action("mk_stmt", <<VarArg("v"), VarArg("e")>>)>>),
    Sequence(<<V("e", I("expr")), Blank, C(";"),
               Action("mk_stmt", <<ConstArg(Zero), VarArg("e")>>)>>),
    Sequence(<<C(";"), Action("mk_stmt", <<ConstArg(Zero), ConstArg(Zero)>>)>>)>>)

\* expr <- f:expr _ '(' _ a:expr_list _ ')'    { mk_expr_call(f, a) }
\*       / prim
expr == Choice(<<
    Sequence(<<V("f", I("expr")), Blank, C("("), Blank, V("a", I("expr_list")), Blank,
               C(")"), Action("mk_expr_call", <<VarArg("f"), VarArg("a")>>)>>),
    I("prim")>>)

\* expr_list <- expr_list_lr /                 { mk_expr_list(0, 0) }
expr_list == Choice(<<I("expr_list_lr"),
    Action("mk_expr_list", <<ConstArg(Zero), ConstArg(Zero)>>)>>)

\* expr_list_lr <- l:expr_list_lr _ ',' _ e:expr  { mk_expr_list(l, e) }
\*               / e:expr                         { mk_expr_list(0, e) }
expr_list_lr == Choice(<<
    Sequence(<<V("l", I("expr_list_lr")), Blank, C(","), Blank, V("e", I("expr")),
               Action("mk_expr_list", <<VarArg("l"), VarArg("e")>>)>>),
    Sequence(<<V("e", I("expr")),
               Action("mk_expr_list", <<ConstArg(Zero), VarArg("e")>>)>>)>>)

\* prim <- i:identifier { mk_expr_identifier(i) } / n:integer { mk_expr_integer(n) }
\*       / s:string     { mk_expr_string(s) }     / c:char    { mk_expr_char(c) }
prim == LET Make(n, r, a) == Sequence(<<V(n, I(r)), Action(a, <<VarArg(n)>>)>>)
        IN Choice(<<Make("i", "identifier", "mk_expr_identifier"),
                    Make("n", "integer", "mk_expr_integer"),
                    Make("s", "string", "mk_expr_string"),
                    Make("c", "char", "mk_expr_char")>>)

\* identifier <- ident_start ident_cont*       { $0 }
identifier == Sequence(<<Sequence(<<I("ident_start"), Star(I("ident_cont"))>>),
                         Action("return", <<BackArg(0, "string")>>)>>)
\* ident_start <- [a-zA-Z_]
ident_start == Class(Letters)
\* ident_cont <- ident_start / dec_digit
ident_cont == Choice(<<I("ident_start"), I("dec_digit")>>)

\* integer <- '+'? n:dec_natural       { mk_pos_integer(n) }
\*          / '-'  n:dec_natural       { mk_neg_integer(n) }
integer == Choice(<<
    Sequence(<<Question(C("+")), V("n", I("dec_natural")),
               Action("mk_pos_integer", <<VarArg("n")>>)>>),
    Sequence(<<C("-"), V("n", I("dec_natural")),
               Action("mk_neg_integer", <<VarArg("n")>>)>>)>>)
\* dec_natural <- dec_positive / '0'   { mk_dec_numdigit('0') }
dec_natural == Choice(<<I("dec_positive"),
    Sequence(<<C("0"), Action("mk_dec_numdigit", <<ConstArg(<<"0">>)>>)>>)>>)
\* dec_positive <- n:dec_positive d:dec_digit      { mk_dec_integer(n, d) }
\*               / d:[1-9]                         { mk_dec_numdigit(d) }
dec_positive == Choice(<<
    Sequence(<<V("n", I("dec_positive")), V("d", I("dec_digit")),
               Action("mk_dec_integer", <<VarArg("n"), VarArg("d")>>)>>),
    Sequence(<<V("d", Class(Digits \ {"0"})),
               Action("mk_dec_numdigit", <<VarArg("d")>>)>>)>>)
\* dec_digit <- [0-9]
dec_digit == Class(Digits)

\* ![\n\r\t'"\\] .
Plain == Sequence(<<Not(Class({"\n", "\r", "\t", "'", "\"", "\\"})), Dot>>)

\* string <- '\"' s:str_body '\"'      { s }
\*         / "\"\""                    { "" }
string == Choice(<<
    Sequence(<<C("\""), V("s", I("str_body")), C("\""),
               Action("return", <<VarArg("s")>>)>>),
    Sequence(<<Literal(<<"\"", "\"">>), Action("return", <<ConstArg(<<>>)>>)>>)>>)
\* char <- '\'' c:str_char '\''        { c }
char == Sequence(<<C("'"), V("c", I("str_char")), C("'"),
                   Action("return", <<VarArg("c")>>)>>)
\* str_body <- s:str_body <(![\n\r\t'"\\] .)+>     { mk_string_str(s, $1) }
\*           / s:str_body '\\' c:esc_sequence      { mk_string_chr(s, c) }
\*           / (![\n\r\t'"\\] .)+                  { $0 }
\*           / '\\' c:esc_sequence                 { mk_string_chr("", c) }
str_body == Choice(<<
    Sequence(<<V("s", I("str_body")), CatchString(Plus(Plain)),
               Action("mk_string_str", <<VarArg("s"), BackArg(1, "string")>>)>>),
    Sequence(<<V("s", I("str_body")), C("\\"), V("c", I("esc_sequence")),
               Action("mk_string_chr", <<VarArg("s"), VarArg("c")>>)>>),
    Sequence(<<Plus(Plain), Action("return", <<BackArg(0, "string")>>)>>),
    Sequence(<<C("\\"), V("c", I("esc_sequence")),
               Action("mk_string_chr", <<ConstArg(<<>>), VarArg("c")>>)>>)>>)
\* str_char <- ![\n\r\t'"\\] . / '\\' esc_sequence
str_char == Choice(<<Plain, Sequence(<<C("\\"), I("esc_sequence")>>)>>)
\* esc_sequence <- 'n' { '\n' } / 'r' { '\r' } / 't' { '\t' } / '\'' / '\"' / '\\'
esc_sequence == LET For(c, is) == Sequence(<<C(c), Action("return", <<ConstArg(<<is>>)>>)>>)
                IN Choice(<<For("n", "\n"), For("r", "\r"), For("t", "\t"),
                            C("'"), C("\""), C("\\")>>)

\* _ <- (space / comment)*
blank == Star(Choice(<<I("space"), I("comment")>>))
\* (!EOL .)* EOL
RestOfLine == <<Star(Sequence(<<Not(I("EOL")), Dot>>)), I("EOL")>>
\* comment <- "//" (!EOL .)* EOL
comment == Sequence(<<Literal(<<"/", "/">>)>> \o RestOfLine)
\* shebang <- ({ is_SOF($0s) } "#!" (!EOL .)* EOL)?
shebang == Question(Sequence(<<Action("is_SOF", <<BackArg(0, "start")>>),
                               Literal(<<"#", "!">>)>> \o RestOfLine))
\* space <- ' ' / '\t' / EOL
space == Choice(<<C(" "), C("\t"), I("EOL")>>)
\* EOL <- '\n' / "\r\n" / '\r'
EOL == Choice(<<C("\n"), Literal(<<"\r", "\n">>), C("\r")>>)

VoidcParsers ==
    ("unit" :> unit) @@ ("stmt_list" :> stmt_list) @@ ("stmt_list_lr" :> stmt_list_lr)
    @@ ("stmt" :> stmt) @@ ("expr" :> expr) @@ ("expr_list" :> expr_list)
    @@ ("expr_list_lr" :> expr_list_lr) @@ ("prim" :> prim)
    @@ ("identifier" :> identifier) @@ ("ident_start" :> ident_start)
    @@ ("ident_cont" :> ident_cont) @@ ("integer" :> integer)
    @@ ("dec_natural" :> dec_natural) @@ ("dec_positive" :> dec_positive)
    @@ ("dec_digit" :> dec_digit) @@ ("string" :> string) @@ ("char" :> char)
    @@ ("str_body" :> str_body) @@ ("str_char" :> str_char)
    @@ ("esc_sequence" :> esc_sequence) @@ ("_" :> blank) @@ ("comment" :> comment)
    @@ ("shebang" :> shebang) @@ ("space" :> space) @@ ("EOL" :> EOL)
VoidcLeftRec == {"stmt_list_lr", "expr", "expr_list_lr", "dec_positive", "str_body"}

=============================================================================
