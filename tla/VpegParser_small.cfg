CONSTANTS
    MaxLen = 5
    MCChar = {"a", "b", "+", "!", "#"}
    None = None
    Char <- MCChar
    Symbol <- MCSymbol
    Name <- MCName
    Rule <- MCRule
    Parser <- MCParser
    Grammar <- MCGrammar
    Parsers <- MCParsers
    LeftRec <- MCLeftRec
    Globals <- MCGlobals
    Aux <- MCAux
    Act <- MCAct
    ActAux <- MCActAux
    PosValue <- MCPosValue
    Effect <- MCEffect
    EndUnit <- MCEndUnit
    Inputs <- MCInputs
    InitGrammar = "left"
    InitAux = 0
SPECIFICATION FairSpec
INVARIANTS TypeOK FailureRestores StringsInside NeverAborts UnitMeansItself
PROPERTY Terminates
