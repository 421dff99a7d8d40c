----------------------------- MODULE VpegParser -----------------------------
(***************************************************************************)
(* The packrat parser of compiler/stage0: the parsers of vpeg_parser.cpp,   *)
(* the memo and the growth of left-recursive rules of vpeg_grammar.cpp      *)
(* (grammar_parse_default), the parsing context of vpeg_context.h, and the  *)
(* loop of voidc_main.cpp that parses a unit, clears the memo and runs the  *)
(* unit, which may replace the grammar.                                     *)
(*                                                                          *)
(* The mutual recursion of the parse functions is an explicit stack; one    *)
(* step is the entry into a parser or the return of one into its caller.    *)
(* A grammar is data: its rules are terms built by the constructors below,  *)
(* its actions are the operators Act and ActAux.  A value (std::any) is a   *)
(* sequence of symbols; None is the empty std::any, by which a parser says  *)
(* that it failed.                                                          *)
(***************************************************************************)
EXTENDS Integers, Sequences

CONSTANTS
    Char,          \* the characters of sources
    Symbol,        \* what values are made of, the characters included
    None,          \* the std::any without a value
    Name,          \* the variables of rules
    Rule,          \* the names of rules
    Parser,        \* the parsers of all grammars, kids included
    Grammar,       \* the grammars: the initial one and those units install
    Parsers,       \* Parsers[g][r]: the parser of rule r in g, None if none
    LeftRec,       \* LeftRec[g]: the rules of g marked left-recursive
    Globals,       \* Globals[g]: the "global" values of g
    Aux,           \* the states of what the actions keep beside the context
    Act(_, _, _),  \* Act(a, args, aux): the result of action a
    ActAux(_, _, _),  \* and what it leaves in aux
    PosValue(_),   \* a position as a value
    Effect(_, _),  \* Effect(g, u): the grammars that running u may leave
    EndUnit,       \* what rule "unit" returns at the end of a source
    Inputs,        \* the sources
    InitGrammar,   \* the grammar of the first unit
    InitAux        \* aux at the start

Value == Seq(Symbol)
Result == Value \cup {None}
Dummy == <<>>      \* the value of a parser that has nothing to say

Bindings == [Name -> Result]
Variables == [values: Bindings, strings: Seq(Nat \X Nat)]
State == [position: Nat, variables: Variables]

(***************************************************************************)
(* Parsers: one constructor per class of vpeg_parser.h.                     *)
(***************************************************************************)
Choice(ps) == [kind |-> "choice", kids |-> ps]
Sequence(ps) == [kind |-> "sequence", kids |-> ps]
And(p) == [kind |-> "and", kids |-> <<p>>]
Not(p) == [kind |-> "not", kids |-> <<p>>]
Question(p) == [kind |-> "question", kids |-> <<p>>]
Star(p) == [kind |-> "star", kids |-> <<p>>]
Plus(p) == [kind |-> "plus", kids |-> <<p>>]
CatchVariable(n, p) == [kind |-> "variable", kids |-> <<p>>, name |-> n]
CatchString(p) == [kind |-> "string", kids |-> <<p>>]
Identifier(r) == [kind |-> "identifier", rule |-> r]
Backref(k) == [kind |-> "backref", number |-> k]
Action(a, args) == [kind |-> "action", act |-> a, args |-> args]
Literal(s) == [kind |-> "literal", text |-> s]
Class(cs) == [kind |-> "class", chars |-> cs]
Character(c) == Class({c})
Dot == [kind |-> "dot"]

\* Arguments of actions: a variable, a part of a caught string, a constant.
VarArg(n) == [arg |-> "identifier", name |-> n]
BackArg(k, part) == [arg |-> "backref", number |-> k, part |-> part]
ConstArg(v) == [arg |-> "constant", value |-> v]

Compound == {"choice", "sequence", "and", "not", "question", "star", "plus",
             "variable", "string"}
Leaf == {"identifier", "backref", "action", "literal", "class", "dot"}

Argument == [arg: {"identifier"}, name: Name]
              \cup [arg: {"backref"}, number: Nat, part: {"string", "start", "end"}]
              \cup [arg: {"constant"}, value: Value]

ASSUME ValueAssumption == Char \subseteq Symbol /\ None \notin Value /\ EndUnit \in Value
ASSUME ParserAssumption ==
    /\ None \notin Parser
    /\ \A p \in Parser :
         /\ p.kind \in Compound \cup Leaf
         /\ p.kind \in Compound => p.kids \in Seq(Parser) /\ p.kids # <<>>
         /\ p.kind = "variable" => p.name \in Name
         /\ p.kind = "identifier" => p.rule \in Rule
         /\ p.kind = "backref" => p.number \in Nat
         /\ p.kind = "action" => p.args \in Seq(Argument)
         /\ p.kind = "literal" => p.text \in Seq(Char)
         /\ p.kind = "class" => p.chars \subseteq Char
ASSUME GrammarAssumption ==
    /\ InitGrammar \in Grammar
    /\ {"unit", "shebang"} \subseteq Rule
    /\ Parsers \in [Grammar -> [Rule -> Parser \cup {None}]]
    /\ LeftRec \in [Grammar -> SUBSET Rule]
    /\ Globals \in [Grammar -> Bindings]
ASSUME InputAssumption == Inputs \subseteq Seq(Char) /\ InitAux \in Aux

\* What the proofs assume of the operators: they stay among the values.
OperatorsTyped ==
    /\ \A n \in Nat : PosValue(n) \in Value
    /\ \A g \in Grammar, u \in Value : Effect(g, u) \subseteq Grammar
    /\ \A p \in Parser, args \in Seq(Value), v \in Aux :
         p.kind = "action" /\ Len(args) = Len(p.args) =>
           Act(p.act, args, v) \in Result /\ ActAux(p.act, args, v) \in Aux

VARIABLES
    input,      \* the source
    grammar,    \* ctx.grammar
    state,      \* ctx.position and ctx.variables
    memo,       \* ctx.memo: results of rules at positions
    aux,        \* what the actions keep
    stack,      \* the activations of parse functions
    control,    \* what the running one does: "parse" a parser, "return"
    phase,      \* what the main loop does
    units       \* the units run so far

ctxVars == <<state, memo, aux, stack, control>>
vars == <<input, grammar, ctxVars, phase, units>>

NoVariables == [values |-> [n \in Name |-> None], strings |-> <<>>]

\* An activation of a parser, or of grammar_parse_default for a rule.
ParserFrame == [parser: Parser, start: State, i: Nat, ret: Result]
RuleFrame == [rule: Rule, body: Parser, leftrec: BOOLEAN, start: State,
              saved: Variables, res: Result, last: Nat]
IsRule(fr) == "rule" \in DOMAIN fr

Entry == [res: Result, position: Nat]
Unit == [grammar: Grammar, from: Nat, upto: Nat, res: Value]

Parse(p) == [op |-> "parse", parser |-> p]
Return(r, from) == [op |-> "return", res |-> r, from |-> from]
Idle == [op |-> "idle"]
Control == [op: {"parse"}, parser: Parser]
             \cup [op: {"return"}, res: Result, from: State] \cup {Idle}
Phase == {"start", "shebang", "ready", "unit", "run", "done", "error", "abort"}

TypeOK ==
    /\ input \in Inputs
    /\ grammar \in Grammar
    /\ state \in State
    /\ DOMAIN memo \subseteq Nat \X Rule
    /\ \A k \in DOMAIN memo : memo[k] \in Entry
    /\ aux \in Aux
    /\ stack \in Seq(ParserFrame \cup RuleFrame)
    /\ control \in Control
    /\ phase \in Phase
    /\ units \in Seq(Unit)

Top == stack[Len(stack)]
Pop == SubSeq(stack, 1, Len(stack) - 1)
Push(fr) == Append(stack, fr)
SetTop(fr) == [stack EXCEPT ![Len(stack)] = fr]

Init ==
    /\ input \in Inputs
    /\ grammar = InitGrammar
    /\ state = [position |-> 0, variables |-> NoVariables]
    /\ memo = <<>>
    /\ aux = InitAux
    /\ stack = <<>>
    /\ control = Idle
    /\ phase = "start"
    /\ units = <<>>

(***************************************************************************)
(* Entry into a rule: grammar_parse_default up to the first call of the     *)
(* rule's parser, or its whole run on a memo hit.                           *)
(***************************************************************************)
Start(g, pos) == [position |-> pos,
                  variables |-> [values |-> Globals[g], strings |-> <<<<pos, 0>>>>]]

Memo(key, res, pos) ==
    [k \in DOMAIN memo \cup {key} |->
        IF k = key THEN [res |-> res, position |-> pos] ELSE memo[k]]

\* grm.parsers.at(q_name) and values.at(q_ident) throw; nothing catches it.
Abort == /\ phase' = "abort"
         /\ UNCHANGED <<input, grammar, ctxVars, units>>

EnterRule(r) ==
    LET st == Start(grammar, state.position)
        key == <<state.position, r>>
    IN IF key \in DOMAIN memo
       THEN /\ state' = [state EXCEPT !.position = memo[key].position]
            /\ control' = Return(memo[key].res, state)
            /\ UNCHANGED <<memo, stack>>
       ELSE /\ Parsers[grammar][r] # None
            /\ memo' = IF r \in LeftRec[grammar]
                       THEN Memo(key, None, st.position) ELSE memo
            /\ stack' = Push([rule |-> r, body |-> Parsers[grammar][r],
                              leftrec |-> r \in LeftRec[grammar],
                              start |-> st, saved |-> state.variables,
                              res |-> None, last |-> st.position])
            /\ state' = st
            /\ control' = Parse(Parsers[grammar][r])

Missing(r) == /\ Parsers[grammar][r] = None
              /\ <<state.position, r>> \notin DOMAIN memo

(***************************************************************************)
(* Leaves: parsers that call no other parser.                               *)
(***************************************************************************)
Leaves(kind) == /\ control.op = "parse"
                /\ control.parser.kind = kind
                /\ phase \in {"shebang", "unit"}

More == state.position < Len(input)
Peek == input[state.position + 1]

\* Succeed with v at position pos, or fail and leave the state alone.
Succeed(v, pos) == /\ control' = Return(v, state)
                   /\ state' = [state EXCEPT !.position = pos]
Fail == /\ control' = Return(None, state)
        /\ UNCHANGED state

ParseIdentifier ==
    /\ Leaves("identifier")
    /\ IF Missing(control.parser.rule)
       THEN Abort
       ELSE /\ EnterRule(control.parser.rule)
            /\ UNCHANGED <<input, grammar, aux, phase, units>>

\* Do the characters of s come next?  (the loops of expect)
Expect(s) == /\ state.position + Len(s) <= Len(input)
             /\ \A i \in 1..Len(s) : input[state.position + i] = s[i]
ParseText(s) == IF Expect(s) THEN Succeed(s, state.position + Len(s)) ELSE Fail

ParseLiteral ==
    /\ Leaves("literal")
    /\ ParseText(control.parser.text)
    /\ UNCHANGED <<input, grammar, memo, aux, stack, phase, units>>

\* String #0 begins where the rule began and ends at the current position.
Caught(k) == LET v == state.variables.strings[k + 1]
             IN IF k = 0 THEN <<v[1], state.position>> ELSE v
Substring(v) == SubSeq(input, v[1] + 1, v[2])
HasString(k) == k < Len(state.variables.strings)

ParseBackref ==
    /\ Leaves("backref")
    /\ IF HasString(control.parser.number)
       THEN /\ ParseText(Substring(Caught(control.parser.number)))
            /\ UNCHANGED <<input, grammar, memo, aux, stack, phase, units>>
       ELSE Abort

ParseClass ==
    /\ Leaves("class")
    /\ IF More /\ Peek \in control.parser.chars
       THEN Succeed(<<Peek>>, state.position + 1) ELSE Fail
    /\ UNCHANGED <<input, grammar, memo, aux, stack, phase, units>>

ParseDot ==
    /\ Leaves("dot")
    /\ IF More THEN Succeed(<<Peek>>, state.position + 1) ELSE Fail
    /\ UNCHANGED <<input, grammar, memo, aux, stack, phase, units>>

ArgValue(a) ==
    CASE a.arg = "constant" -> a.value
      [] a.arg = "identifier" -> state.variables.values[a.name]
      [] a.arg = "backref" ->
           LET v == Caught(a.number)
           IN CASE a.part = "string" -> Substring(v)
                [] a.part = "start" -> PosValue(v[1])
                [] a.part = "end" -> PosValue(v[2])

Bound(a) == CASE a.arg = "constant" -> TRUE
              [] a.arg = "identifier" -> state.variables.values[a.name] # None
              [] a.arg = "backref" -> HasString(a.number)

ParseAction ==
    /\ Leaves("action")
    /\ LET args == control.parser.args IN
       IF \A i \in DOMAIN args : Bound(args[i])
       THEN LET vals == [i \in DOMAIN args |-> ArgValue(args[i])] IN
            /\ control' = Return(Act(control.parser.act, vals, aux), state)
            /\ aux' = ActAux(control.parser.act, vals, aux)
            /\ UNCHANGED <<input, grammar, state, memo, stack, phase, units>>
       ELSE Abort

(***************************************************************************)
(* Compound parsers: the entry into the first kid, and the return of a kid. *)
(***************************************************************************)
Enter ==
    /\ control.op = "parse"
    /\ phase \in {"shebang", "unit"}
    /\ LET p == control.parser IN
       /\ p.kind \in Compound
       /\ stack' = Push([parser |-> p, start |-> state, i |-> 1,
                         ret |-> IF p.kind = "star" THEN Dummy ELSE None])
       /\ control' = Parse(p.kids[1])
    /\ UNCHANGED <<input, grammar, state, memo, aux, phase, units>>

Returns(kind) == /\ control.op = "return"
                 /\ stack # <<>>
                 /\ ~IsRule(Top)
                 /\ Top.parser.kind = kind
NextKid(fr) == /\ stack' = SetTop([fr EXCEPT !.i = @ + 1])
               /\ control' = Parse(fr.parser.kids[fr.i + 1])
Finish(res) == /\ stack' = Pop
               /\ control' = Return(res, Top.start)
Frozen == UNCHANGED <<input, grammar, memo, aux, phase, units>>

ChoiceReturn ==
    /\ Returns("choice")
    /\ IF control.res # None \/ Top.i = Len(Top.parser.kids)
       THEN Finish(control.res)
       ELSE NextKid(Top)
    /\ UNCHANGED state
    /\ Frozen

\* Mutant of SequenceReturn: a failure half way does not restore the state.
SequenceReturn_Keep ==
    /\ Returns("sequence")
    /\ IF control.res = None \/ Top.i = Len(Top.parser.kids)
       THEN Finish(control.res) ELSE NextKid(Top)
    /\ UNCHANGED state
    /\ Frozen

SequenceReturn ==
    /\ Returns("sequence")
    /\ IF control.res = None
       THEN Finish(None) /\ state' = Top.start
       ELSE /\ IF Top.i = Len(Top.parser.kids) THEN Finish(control.res) ELSE NextKid(Top)
            /\ UNCHANGED state
    /\ Frozen

AndReturn ==
    /\ Returns("and")
    /\ Finish(control.res)
    /\ state' = Top.start
    /\ Frozen

NotReturn ==
    /\ Returns("not")
    /\ Finish(IF control.res = None THEN Dummy ELSE None)
    /\ state' = Top.start
    /\ Frozen

QuestionReturn ==
    /\ Returns("question")
    /\ Finish(IF control.res = None THEN Dummy ELSE control.res)
    /\ UNCHANGED state
    /\ Frozen

\* Star and plus: once more, or the last success ("plus": None if none).
RepeatReturn ==
    /\ Returns("star") \/ Returns("plus")
    /\ IF control.res = None
       THEN Finish(Top.ret)
       ELSE /\ stack' = SetTop([Top EXCEPT !.ret = control.res])
            /\ control' = Parse(Top.parser.kids[1])
    /\ UNCHANGED state
    /\ Frozen

CatchVariableReturn ==
    /\ Returns("variable")
    /\ Finish(control.res)
    /\ state' = IF control.res = None THEN state
                ELSE [state EXCEPT !.variables.values[Top.parser.name] = control.res]
    /\ Frozen

\* Mutant of CatchStringReturn: the ends of the string are swapped.
CatchStringReturn_Swapped ==
    /\ Returns("string")
    /\ Finish(control.res)
    /\ state' = IF control.res = None THEN state
                ELSE [state EXCEPT !.variables.strings =
                         Append(@, <<state.position, Top.start.position>>)]
    /\ Frozen

CatchStringReturn ==
    /\ Returns("string")
    /\ Finish(control.res)
    /\ state' = IF control.res = None THEN state
                ELSE [state EXCEPT !.variables.strings =
                         Append(@, <<Top.start.position, state.position>>)]
    /\ Frozen

(***************************************************************************)
(* The return of a rule's parser into grammar_parse_default.                *)
(***************************************************************************)
RuleReturns(leftrec) ==
    /\ control.op = "return"
    /\ stack # <<>>
    /\ IsRule(Top)
    /\ Top.leftrec = leftrec
Key(fr) == <<fr.start.position, fr.rule>>

\* Mutant of Leave: the caller goes on with the variables of the rule.
Leave_KeepVariables(res, pos) ==
    /\ stack' = Pop
    /\ state' = [state EXCEPT !.position = pos]
    /\ control' = Return(res, [position |-> Top.start.position, variables |-> Top.saved])

\* Leave the rule at position pos; the caller's variables come back.
Leave(res, pos) ==
    /\ stack' = Pop
    /\ state' = [position |-> pos, variables |-> Top.saved]
    /\ control' = Return(res, [position |-> Top.start.position, variables |-> Top.saved])

\* Not left-recursive: the result is remembered.
RuleReturn ==
    /\ RuleReturns(FALSE)
    /\ memo' = Memo(Key(Top), control.res, state.position)
    /\ Leave(control.res, state.position)
    /\ UNCHANGED <<input, grammar, aux, phase, units>>

\* Mutant of GrowReturn: once more although nothing was gained.
GrowReturn_NoGain ==
    /\ RuleReturns(TRUE)
    /\ state.position >= Top.last
    /\ memo' = Memo(Key(Top), control.res, state.position)
    /\ stack' = SetTop([Top EXCEPT !.res = control.res, !.last = state.position])
    /\ state' = Top.start
    /\ control' = Parse(Top.body)
    /\ UNCHANGED <<input, grammar, aux, phase, units>>

\* Left-recursive and longer than the last time: the seed grows.
GrowReturn ==
    /\ RuleReturns(TRUE)
    /\ state.position > Top.last
    /\ memo' = Memo(Key(Top), control.res, state.position)
    /\ stack' = SetTop([Top EXCEPT !.res = control.res, !.last = state.position])
    /\ state' = Top.start
    /\ control' = Parse(Top.body)
    /\ UNCHANGED <<input, grammar, aux, phase, units>>

\* Mutant of GrownReturn: one character is given back.
GrownReturn_OneBack ==
    /\ RuleReturns(TRUE)
    /\ state.position <= Top.last
    /\ Leave(Top.res, Top.last - 1)
    /\ UNCHANGED <<input, grammar, memo, aux, phase, units>>

\* Left-recursive and no longer than the last time: the last result stands.
GrownReturn ==
    /\ RuleReturns(TRUE)
    /\ state.position <= Top.last
    /\ Leave(Top.res, Top.last)
    /\ UNCHANGED <<input, grammar, memo, aux, phase, units>>

(***************************************************************************)
(* The main loop: the shebang, then a unit after the other.                 *)
(***************************************************************************)
Begin(rule, next) ==
    /\ phase' = next
    /\ EnterRule(rule)
    /\ UNCHANGED <<input, grammar, aux, units>>

\* "if (ctx->grammar->parsers.find(shebang_q))"
StartSource ==
    /\ phase = "start"
    /\ IF Parsers[grammar]["shebang"] # None
       THEN Begin("shebang", "shebang")
       ELSE /\ phase' = "ready"
            /\ UNCHANGED <<input, grammar, ctxVars, units>>

ShebangDone ==
    /\ phase = "shebang"
    /\ control.op = "return" /\ stack = <<>>
    /\ phase' = "ready"
    /\ memo' = <<>>
    /\ control' = Idle
    /\ UNCHANGED <<input, grammar, state, aux, stack, units>>

ParseUnit ==
    /\ phase = "ready"
    /\ IF Missing("unit") THEN Abort ELSE Begin("unit", "unit")

\* Mutant of UnitParsed: the memo outlives the unit.
UnitParsed_KeepMemo ==
    /\ phase = "unit"
    /\ control.op = "return" /\ stack = <<>>
    /\ phase' = CASE control.res = None -> "error"
                  [] control.res = EndUnit -> "done"
                  [] OTHER -> "run"
    /\ UNCHANGED <<input, grammar, state, memo, aux, stack, control, units>>

\* A unit, the end of the source, or "Parse error".
UnitParsed ==
    /\ phase = "unit"
    /\ control.op = "return" /\ stack = <<>>
    /\ memo' = <<>>
    /\ phase' = CASE control.res = None -> "error"
                  [] control.res = EndUnit -> "done"
                  [] OTHER -> "run"
    /\ UNCHANGED <<input, grammar, state, aux, stack, control, units>>

RunUnit ==
    /\ phase = "run"
    /\ grammar' \in Effect(grammar, control.res)
    /\ units' = Append(units, [grammar |-> grammar, from |-> control.from.position,
                               upto |-> state.position, res |-> control.res])
    /\ phase' = "ready"
    /\ control' = Idle
    /\ UNCHANGED <<input, state, memo, aux, stack>>

Ended == phase \in {"done", "error", "abort"} /\ UNCHANGED vars

ParseLeaf == \/ ParseIdentifier \/ ParseLiteral \/ ParseBackref \/ ParseClass
             \/ ParseDot \/ ParseAction
KidReturn == \/ ChoiceReturn \/ SequenceReturn \/ AndReturn \/ NotReturn
             \/ QuestionReturn \/ RepeatReturn
             \/ CatchVariableReturn \/ CatchStringReturn
RuleStep == RuleReturn \/ GrowReturn \/ GrownReturn
MainLoop == StartSource \/ ShebangDone \/ ParseUnit \/ UnitParsed \/ RunUnit

Next == ParseLeaf \/ Enter \/ KidReturn \/ RuleStep \/ MainLoop \/ Ended
Spec == Init /\ [][Next]_vars
FairSpec == Spec /\ WF_vars(Next)

(***************************************************************************)
(* Properties.                                                              *)
(***************************************************************************)

\* A parser that fails leaves the context as it found it, position and
\* variables.  Choice tries its next kid, and a rule's caller goes on, without
\* restoring anything themselves (vpeg_parser.cpp, choice_parser_data_t).
FailureRestores ==
    control.op = "return" /\ control.res = None => state = control.from

\* take_string(from, to) allocates and copies to - from characters of the
\* buffer: whatever a rule has caught, and its string #0, must lie between the
\* start of the source and what has been read, in order.
Span(v, upto) == v[1] <= v[2] /\ v[2] <= upto
StringsInside ==
    /\ state.position <= Len(input)
    /\ LET ss == state.variables.strings IN
       /\ \A k \in DOMAIN ss : k > 1 => Span(ss[k], Len(input))
       /\ ss # <<>> => ss[1][1] <= state.position

\* No action asks for a variable that is not bound, no backref for a string
\* that is not caught, and no rule is missing: values.at and parsers.at throw,
\* and nothing in stage0 catches.
NeverAborts == phase # "abort"

\* Every source is parsed to its end or to a parse error: the growth of a
\* left-recursive rule stops.
Terminates == <>(phase \in {"done", "error", "abort"})

=============================================================================
