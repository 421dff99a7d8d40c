CONSTANTS
    TextLen = 4
    NumberLen = 3
    TokensLen = 8
    PageLen = 5
    FormulaLen = 5
    ScrapLen = 3
    Operators <- MCOperators
    Bits = 6
    None = None
    Char <- MCChar
    Symbol <- MCSymbol
    Name <- MCName
    Rule <- MCRule
    Parser <- MCParser
    Grammar <- MCGrammar
    Parsers <- MCParsers
    LeftRec <- MCLeftRec
    Globals <- MCGlobals
    Aux <- MCAux
    Act <- ExprAct
    ActAux <- ExprActAux
    PosValue <- MCPosValue
    Effect <- MCEffect
    EndUnit <- MCEndUnit
    Inputs <- MCInputs
    InitGrammar = "level-0"
    InitAux <- MCInitAux
SPECIFICATION Spec
INVARIANTS NumbersExact ReadsBack TextAsWritten UnitMeansItself
