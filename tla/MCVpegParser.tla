---------------------------- MODULE MCVpegParser ----------------------------
(***************************************************************************)
(* Two small grammars that use every kind of parser, over all sources up to *)
(* MaxLen characters.  They differ in how they associate '+', and running a *)
(* unit may install either.                                                 *)
(***************************************************************************)
EXTENDS VpegMeaning, VpegEnding

CONSTANTS MaxLen, MCChar

MCSymbol == MCChar \cup {"(", ")", "unit", "end", "0", "1", "2", "3", "4", "5", "6"}
MCName == {"l", "t"}
MCRule == {"unit", "shebang", "sum", "word", "tail"}

\* unit <- l:sum '!' &tail { unit(l) } / !. { end }
UnitRule ==
    Choice(<<Sequence(<<CatchVariable("l", Identifier("sum")),
                        Character("!"), And(Identifier("tail")),
                        Action("unit", <<VarArg("l")>>)>>),
             Sequence(<<Not(Dot), Action("end", <<>>)>>)>>)
\* shebang <- ({ sof($0s) } '#' '#'*)?
ShebangRule ==
    Question(Sequence(<<Action("sof", <<BackArg(0, "start")>>),
                        Character("#"), Star(Character("#"))>>))
\* tail <- sum / !.
TailRule == Choice(<<Identifier("sum"), Not(Dot)>>)
\* sum <- l:sum '+' t:word { node(l, t) } / t:word { t }
LeftSum ==
    Choice(<<Sequence(<<CatchVariable("l", Identifier("sum")), Character("+"),
                        CatchVariable("t", Identifier("word")),
                        Action("node", <<VarArg("l"), VarArg("t")>>)>>),
             Sequence(<<CatchVariable("t", Identifier("word")),
                        Action("return", <<VarArg("t")>>)>>)>>)
\* sum <- t:word '+' l:sum { node(t, l) } / t:word { last(t) }
RightSum ==
    Choice(<<Sequence(<<CatchVariable("t", Identifier("word")), Character("+"),
                        CatchVariable("l", Identifier("sum")),
                        Action("node", <<VarArg("t"), VarArg("l")>>)>>),
             Sequence(<<CatchVariable("t", Identifier("word")),
                        Action("last", <<VarArg("t")>>)>>)>>)
\* word <- <'a'+> "b" $1 { join($1, $1s) } / 'a'+ { short($0, $0e) }
WordRule ==
    Choice(<<Sequence(<<CatchString(Plus(Character("a"))), Literal(<<"b">>), Backref(1),
                        Action("join", <<BackArg(1, "string"), BackArg(1, "end")>>)>>),
             Sequence(<<Plus(Character("a")),
                        Action("short", <<BackArg(0, "string"), BackArg(0, "end"),
                                          ConstArg(<<"a", "a">>)>>)>>)>>)

MCGrammar == {"left", "right"}
MCParsers ==
    [g \in MCGrammar |->
       [r \in MCRule |-> CASE r = "unit" -> UnitRule
                           [] r = "shebang" -> IF g = "left" THEN ShebangRule ELSE None
                           [] r = "sum" -> IF g = "left" THEN LeftSum ELSE RightSum
                           [] r = "word" -> WordRule
                           [] r = "tail" -> TailRule]]
MCLeftRec == [g \in MCGrammar |-> IF g = "left" THEN {"sum"} ELSE {}]
MCGlobals == [g \in MCGrammar |-> [n \in MCName |-> None]]

MCParser == UNION {PartsOf(p) : p \in {UnitRule, ShebangRule, TailRule,
                                    LeftSum, RightSum, WordRule}}

\* "short" refuses the word aa; "sof" refuses any place but the start.
MCAct(a, args, v) ==
    CASE a = "unit" -> <<"unit">> \o args[1]
      [] a = "end" -> <<"end">>
      [] a = "sof" -> IF args[1] = <<"0">> THEN Dummy ELSE None
      [] a = "node" -> <<"(">> \o args[1] \o args[2] \o <<")">>
      [] a = "return" -> args[1]
      [] a = "last" -> args[1] \o <<"0">>
      [] a = "join" -> args[1] \o <<"b">> \o args[1] \o args[2]
      [] a = "short" -> IF args[1] = args[3] THEN None ELSE args[1] \o args[2]
MCActAux(a, args, v) == v
MCAux == {0}
MCEndUnit == <<"end">>
MCPosValue(n) == <<ToString(n)>>
MCEffect(g, u) == MCGrammar
MCInputs == UNION {[1..n -> MCChar] : n \in 0..MaxLen}
=============================================================================
