---------------------------- MODULE MCVpegVoidc ----------------------------
(***************************************************************************)
(* The level-0 grammar over four families of sources: Texts are units       *)
(* whose body is any short sequence of characters, Numbers hold one         *)
(* integer, Sources are printed from syntax trees with every filling        *)
(* between their tokens, and Pages mix the ends of lines and the lengths    *)
(* of characters.  And the grammar of operators over two more, after a unit *)
(* that enables it: Formulas are printed from trees, Scraps are short       *)
(* sequences of tokens and formulas with the last token wrong.              *)
(***************************************************************************)
EXTENDS VpegExpression, VpegInput, VpegEnding, SequencesExt

CONSTANTS TextLen, NumberLen, TokensLen, PageLen, FormulaLen, ScrapLen

\* The characters at the ends of each length of UTF-8.
Wide == {"U+7F", "U+80", "U+7FF", "U+800", "U+FFFF", "U+10000", "U+10FFFF"}
Code(c) ==
    CASE c = "\n" -> LF [] c = "\r" -> CR [] c = "x" -> 120
      [] c = "U+7F" -> 127 [] c = "U+80" -> 128 [] c = "U+7FF" -> 2047 [] c = "U+800" -> 2048
      [] c = "U+FFFF" -> 65535 [] c = "U+10000" -> 65536 [] c = "U+10FFFF" -> 1114111
MCChar == ExpressionChar \cup Wide

MCGrammar == {"level-0", "expression"}
MCRule == DOMAIN ExpressionParsers
MCParsers ==
    [g \in MCGrammar |->
       IF g = "expression" THEN ExpressionParsers
       ELSE VoidcParsers @@ [r \in MCRule \ DOMAIN VoidcParsers |-> None]]
MCLeftRec == [g \in MCGrammar |-> IF g = "expression" THEN ExpressionLeftRec ELSE VoidcLeftRec]
MCName == {"l", "s", "v", "e", "f", "a", "i", "n", "c", "d", "op", "r"}
MCGlobals == [g \in MCGrammar |-> [n \in MCName |-> None]]
MCParser == UNION {PartsOf(VoidcParsers[r]) : r \in DOMAIN VoidcParsers}
            \cup UNION {PartsOf(ExpressionParsers[r]) : r \in MCRule}
MCAux == Seq(Nat)
MCInitAux == <<>>
MCOperators == {"op_infix_assign", "op_infix_eq", "op_infix_add", "op_infix_mul",
                "op_prefix_minus", "op_postfix_inc", "op_postfix_call"}
Positions == [n \in 0..40 |-> "@" \o ToString(n)]
MCPosValue(n) == <<Positions[n]>>
\* { f(); } stands for the unit that calls voidc_enable_expression.
Enabling == <<"{", "f", "(", ")", ";", "}">>
EnablingTree == Node("unit", MCPosValue(0) \o Node("stmts", Node("stmt",
                    Node("call", Node("ident", <<"f">>) \o Node("exprs", <<>>)))))
MCEffect(g, u) == IF u = EnablingTree THEN {"expression"} ELSE {g}
MCEndUnit == <<"EOF">>
MCSymbol == MCChar \cup ExprTags \cup Range(Positions)
            \cup {"unit", "stmts", "stmt", "exprs", "none", "EOF", "end"} \cup OpNames \cup {"op_parentheses"}

UpTo(n, S) == UNION {[1..k -> S] : k \in 0..n}

(***************************************************************************)
(* Sources printed from trees: the tokens and the tree they must yield.     *)
(***************************************************************************)
Written(tokens, tree) == [tokens |-> tokens, tree |-> tree]
Leaves0 == {Written(<<<<"x">>>>, Node("ident", <<"x">>)),
            Written(<<<<"f", "1">>>>, Node("ident", <<"f", "1">>)),
            Written(<<<<"-", "3", "2">>>>, Node("int", <<"-", "3", "2">>)),
            Written(<<<<"+", "0">>>>, Node("int", <<"0">>)),
            Written(<<<<"'", "\\", "n", "'">>>>, Node("char", <<"\n">>)),
            Written(<<<<"\"", "x", "\\", "t", "/", "\"">>>>, Node("str", <<"x", "\t", "/">>)),
            Written(<<<<"\"", "\"">>>>, Node("str", <<>>))}
Call0(f) == Written(f.tokens \o <<<<"(">>, <<")">>>>,
                    Node("call", f.tree \o Node("exprs", <<>>)))
Call1(f, a) == Written(f.tokens \o <<<<"(">>>> \o a.tokens \o <<<<")">>>>,
                       Node("call", f.tree \o Node("exprs", a.tree)))
Call2(f, a, b) ==
    Written(f.tokens \o <<<<"(">>>> \o a.tokens \o <<<<",">>>> \o b.tokens \o <<<<")">>>>,
            Node("call", f.tree \o Node("exprs", a.tree \o b.tree)))
Exprs == LET x == CHOOSE e \in Leaves0 : e.tokens = <<<<"x">>>>
         IN Leaves0 \cup {Call0(x), Call0(Call0(x)), Call2(x, Call1(x, x), x),
                          Call1(Call2(x, x, Call0(x)), x)}
                    \cup {Call1(x, e) : e \in Leaves0}
Stmts == {Written(<<<<";">>>>, Node("stmt", <<>>))}
         \cup {Written(e.tokens \o <<<<";">>>>, Node("stmt", e.tree)) : e \in Exprs}
         \cup {Written(<<<<"x">>, <<"=">>>> \o e.tokens \o <<<<";">>>>,
                       Node("stmt", <<"x", "=">> \o e.tree)) : e \in Exprs}
Units == LET short == {s \in Stmts : Len(s.tokens) <= 3}
         IN {Written(<<>>, <<>>)} \cup Stmts
            \cup {Written(s.tokens \o t.tokens, s.tree \o t.tree) : s, t \in short}
\* What may stand between two tokens.
Fillings == {<<>>, <<" ">>, <<"\r", "\n">>, <<"/", "/", "}", "\n", "\t">>}
Source(u, fill) ==
    fill \o <<"{">> \o FoldLeft(LAMBDA s, t : s \o fill \o t, <<>>, u.tokens) \o fill \o <<"}">>
Tree(u, fill) == Node("unit", MCPosValue(Len(fill)) \o Node("stmts", u.tree))

Texts == {<<"{">> \o s \o <<"}">> : s \in UpTo(TextLen, {"x", "(", ")", ";", "="})}
Numbers == {<<"{">> \o s \o <<";", "}">> : s \in UpTo(NumberLen, {"+", "-", "0", "1", "2", "3", "6"})}
Sources == {Source(u, fill) : u \in {v \in Units : Len(v.tokens) <= TokensLen}, fill \in Fillings}

Pages == UpTo(PageLen, {"\n", "\r", "x"}) \cup UpTo(2, Wide \cup {"\r"})

(***************************************************************************)
(* Formulas.  above is the least precedence of the operators that stand at  *)
(* the left end of a formula, below the least that may follow it and be     *)
(* taken for an operand of it: an operator with less applies to the whole.  *)
(***************************************************************************)
Highest == 40000
Formula(tokens, tree, above, below) ==
    [tokens |-> tokens, tree |-> tree, above |-> above, below |-> below]
Least(m, n) == IF m < n THEN m ELSE n
Atom == Formula(<<<<"x">>>>, Node("ident", <<"x">>), Highest, Highest)
\* The formulas over f, and over f and g, with one operator more.
Bracket(f) == {Formula(<<<<"(">>>> \o f.tokens \o <<<<")">>>>,
                       Node("op", <<"op_parentheses">> \o f.tree), Highest, Highest)}
Before(f) == {Formula(<<o.text>> \o f.tokens, Node("op", <<o.name>> \o f.tree),
                      Highest, Least(o.prec, f.below)) :
                o \in {o \in Range(InUse(PrefixTable)) : f.above >= o.prec}}
After(f) == {Formula(f.tokens \o <<o.text>>, Node("op", <<o.name>> \o f.tree),
                     Least(o.prec, f.above), Highest) :
               o \in {o \in Range(InUse(PostfixTable)) : f.below > o.prec}}
Called(f, list, tree) ==
    IF f.below <= 30000 THEN {}
    ELSE {Formula(f.tokens \o <<<<"(">>>> \o list \o <<<<")">>>>,
                  Node("call", f.tree \o Node("exprs", tree)), Least(30000, f.above), Highest)}
Between(f, g) == {Formula(f.tokens \o <<o.text>> \o g.tokens,
                          Node("op", <<o.name>> \o f.tree \o g.tree),
                          Least(o.prec, f.above), Least(o.prec + o.left, g.below)) :
                    o \in {o \in Range(InUse(InfixTable)) :
                             f.below > o.prec /\ g.above >= o.prec + o.left}}
AtMost(n, F) == {f \in F : Len(f.tokens) <= n}
Grown(F) ==
    F \cup UNION {Before(f) \cup After(f) : f \in AtMost(FormulaLen - 1, F)}
      \cup UNION {Bracket(f) \cup Called(f, <<>>, <<>>) : f \in AtMost(FormulaLen - 2, F)}
      \cup UNION {Called(f, Atom.tokens, Atom.tree) : f \in AtMost(FormulaLen - 3, F)}
      \cup UNION {UNION {Between(f, g) : g \in AtMost(FormulaLen - Len(f.tokens) - 1, F)} : f \in F}
Formulas == Grown(Grown(Grown({Atom})))

\* With nothing between them, these tokens would be read as another one.
Apart(tokens) == \A i \in 1..(Len(tokens) - 1) :
                    ~ (tokens[i][Len(tokens[i])] = tokens[i + 1][1] /\ tokens[i + 1][1] \in {"+", "-"})
Second(tokens, fill) ==
    Enabling \o <<"{">> \o FoldLeft(LAMBDA s, t : s \o fill \o t, <<>>, tokens) \o <<";", "}">>
SecondTree(tree) ==
    Node("unit", MCPosValue(Len(Enabling)) \o Node("stmts", Node("stmt", tree)))
Printed == {Second(f.tokens, <<>>) : f \in {f \in Formulas : Apart(f.tokens)}}
           \cup {Second(f.tokens, <<" ">>) : f \in {f \in Formulas : ~Apart(f.tokens)}}

OpToken == {<<"x">>, <<"+">>, <<"*">>, <<"(">>, <<")">>}
Scraps == {Second(s, <<>>) : s \in UpTo(ScrapLen, OpToken)}
          \cup {Second([f.tokens EXCEPT ![Len(f.tokens)] = <<")">>], <<>>) :
                  f \in {f \in Formulas : Len(f.tokens) = FormulaLen}}

MCInputs == Texts \cup Numbers \cup Sources \cup Pages \cup Printed \cup Scraps

(***************************************************************************)
(* Properties.                                                              *)
(***************************************************************************)

\* A syntax tree that is printed, with any blanks or comments between its
\* tokens, is read back as itself: nothing is lost, repeated or regrouped by
\* the growth of left-recursive rules and the retries of alternatives.  And a
\* formula is, with brackets only where precedence and associativity call for
\* them, although the memo runs the actions on the stack of precedences neither
\* once per operator nor in the order of the text.
ReadsBack ==
    phase \in {"run", "error"} =>
        /\ input \in Sources =>
              \E u \in Units, fill \in Fillings :
                 input = Source(u, fill) /\ control.res = Tree(u, fill)
        /\ input \in Printed /\ units # <<>> =>
              \E f \in Formulas, fill \in {<<>>, <<" ">>} :
                 input = Second(f.tokens, fill) /\ control.res = SecondTree(f.tree)

\* An integer is accepted exactly when intptr_t holds it, and then it is the
\* number that its sign and digits denote: no wrap in mk_dec_integer, and the
\* range is not symmetric (mk_neg_integer).
Signed(ds) == IF ds # <<>> /\ ds[1] \in {"+", "-"} THEN Tail(ds) ELSE ds
Magnitude(ds) == FoldLeft(LAMBDA n, d : 10 * n + DigitValue(d), 0, ds)
IsNumber(ds) == /\ ds # <<>> /\ \A i \in DOMAIN ds : ds[i] \in Digits
                /\ ds[1] = "0" => Len(ds) = 1
Denotes(ds) == IF ds[1] = "-" THEN -Magnitude(Signed(ds)) ELSE Magnitude(Signed(ds))
NumbersExact ==
    phase \in {"run", "error"} /\ input \in Numbers /\ Len(input) > 3 =>
        LET ds == SubSeq(input, 2, Len(input) - 2)
            fits == IsNumber(Signed(ds)) /\ Denotes(ds) \in -(IntMax + 1)..IntMax
        IN IF fits
           THEN \E v \in UpTo(3, Digits \cup {"-"}) :
                   /\ control.res = Node("unit", MCPosValue(0) \o
                        Node("stmts", Node("stmt", Node("int", v))))
                   /\ Denotes(v) = Denotes(ds)
           ELSE control.res = None

\* However far a source is read, its characters, the strings that are caught
\* from it and the lines and columns of what was read are those of the text
\* that was written: characters of every length, lines that end with a line
\* feed, a carriage return or both (read_character, take_string,
\* get_line_column).
TextAsWritten ==
    phase \in {"run", "done", "error"} /\ input \in Pages =>
        ReadAsWritten([i \in DOMAIN input |-> Code(input[i])])

=============================================================================
