-------------------------- MODULE VpegParserProofs --------------------------
(***************************************************************************)
(* Theorems about VpegParser for every grammar, action and source: a parser *)
(* that fails restores the context, and what a rule has caught lies inside  *)
(* the source.  Both rest on one inductive invariant, ParserInv: every      *)
(* activation on the stack knows in which state it called the one above it. *)
(* And for every grammar that has a scoping: nothing is asked for that is   *)
(* not there.  That rests on ScopeInv besides: every activation knows what  *)
(* was bound when it called the one above it.                               *)
(***************************************************************************)
EXTENDS VpegScoping, SequenceTheorems, TLAPS

\* A state of the context inside a source of n characters.
Good(s, n) ==
    /\ s \in State
    /\ s.position <= n
    /\ LET ss == s.variables.strings IN
       /\ \A k \in DOMAIN ss : k > 1 => Span(ss[k], n)
       /\ ss # <<>> => ss[1][1] <= s.position

\* The state in which the activation itself was called.
Called(fr) == IF IsRule(fr)
              THEN [position |-> fr.start.position, variables |-> fr.saved]
              ELSE fr.start

\* Activations that call their kid in the state they were called in.
Passes(fr) == \/ IsRule(fr)
              \/ fr.parser.kind \in {"choice", "question", "variable", "string"}
              \/ fr.parser.kind = "plus" /\ fr.ret = None

\* fr may have called a kid in state c.
Link(fr, c) == /\ fr.start.position <= c.position
               /\ Passes(fr) => c = fr.start

FrameOK(fr, n) ==
    /\ fr \in ParserFrame \cup RuleFrame
    /\ Good(fr.start, n)
    /\ IsRule(fr) => /\ Good(Called(fr), n)
                     /\ fr.last \in fr.start.position..n
                     /\ fr.res = None => fr.last = fr.start.position
    /\ ~IsRule(fr) => /\ fr.parser.kind \in Compound
                      /\ fr.i \in 1..Len(fr.parser.kids)
                      /\ fr.parser.kind = "star" => fr.ret # None

\* The activations s, whose last one has called its kid in state c.
Linked(s, c, n) ==
    /\ \A i \in 1..Len(s) : FrameOK(s[i], n)
    /\ \A i \in 1..(Len(s) - 1) : Link(s[i], Called(s[i + 1]))
    /\ s # <<>> => Link(s[Len(s)], c)

CallPoint == IF control.op = "return" THEN control.from ELSE state

MemoInv == \A k \in DOMAIN memo :
              /\ memo[k].position \in k[1]..Len(input)
              /\ memo[k].res = None => memo[k].position = k[1]
ReturnInv == control.op = "return" => /\ control.from.position <= state.position
                                      /\ control.res = None => state = control.from
PhaseInv == /\ phase \notin {"shebang", "unit", "abort"} => stack = <<>>
            /\ phase = "run" => control.op = "return" /\ control.res # None

ParserInv ==
    /\ TypeOK
    /\ Good(state, Len(input))
    /\ Linked(stack, CallPoint, Len(input))
    /\ MemoInv
    /\ ReturnInv
    /\ PhaseInv

(***************************************************************************)
(* Records and stacks.                                                      *)
(***************************************************************************)

\* The two kinds of activations are told apart by their fields.
LEMMA FrameKinds ==
  /\ \A fr \in RuleFrame : IsRule(fr)
  /\ \A fr \in ParserFrame : ~IsRule(fr)
BY DEF RuleFrame, ParserFrame, IsRule

\* The empty value is a value.
LEMMA DummyValue == Dummy \in Value /\ Dummy # None
<1>1. Dummy \in Value
  BY DEF Dummy, Value
<1> QED BY <1>1, ValueAssumption

\* The fields of an activation.
LEMMA FrameFields ==
  ASSUME NEW fr \in ParserFrame \cup RuleFrame
  PROVE  /\ fr.start \in State
         /\ IsRule(fr) => /\ fr \in RuleFrame /\ fr.rule \in Rule /\ fr.body \in Parser /\ fr.saved \in Variables
                          /\ fr.res \in Result /\ fr.last \in Nat
         /\ ~IsRule(fr) => /\ fr \in ParserFrame /\ fr.parser \in Parser
                           /\ fr.i \in Nat /\ fr.ret \in Result
BY FrameKinds DEF RuleFrame, ParserFrame

\* The fields of control.
LEMMA ControlFields ==
  ASSUME control \in Control
  PROVE  /\ control.op = "parse" => control.parser \in Parser
         /\ control.op = "return" => control.res \in Result /\ control.from \in State
BY DEF Control, Idle

\* What control may become.
LEMMA ControlValues ==
  /\ \A p \in Parser : /\ Parse(p) \in Control
                       /\ Parse(p).op = "parse" /\ Parse(p).parser = p
  /\ \A r \in Result, s \in State :
       /\ Return(r, s) \in Control
       /\ Return(r, s).op = "return" /\ Return(r, s).res = r /\ Return(r, s).from = s
  /\ Idle \in Control /\ Idle.op = "idle"
BY DEF Control, Idle, Parse, Return

\* A call: the new activation goes on the stack.
LEMMA PushLinked ==
  ASSUME NEW n \in Nat, NEW s \in Seq(ParserFrame \cup RuleFrame), NEW c, NEW d,
         NEW fr, Linked(s, c, n), FrameOK(fr, n), Called(fr) = c, Link(fr, d)
  PROVE  /\ Append(s, fr) \in Seq(ParserFrame \cup RuleFrame)
         /\ Linked(Append(s, fr), d, n)
<1> DEFINE t == Append(s, fr)
<1>1. fr \in ParserFrame \cup RuleFrame
  BY DEF FrameOK
<1>2. t \in Seq(ParserFrame \cup RuleFrame) /\ Len(t) = Len(s) + 1 /\ t # <<>>
      /\ (\A i \in 1..Len(s) : t[i] = s[i]) /\ t[Len(s) + 1] = fr
  BY <1>1
<1>3. \A i \in 1..Len(t) : FrameOK(t[i], n)
  BY <1>2 DEF Linked
<1>4. ASSUME NEW i \in 1..(Len(t) - 1) PROVE Link(t[i], Called(t[i + 1]))
  <2>1. CASE i = Len(s)
    <3>1. s # <<>> /\ t[i] = s[Len(s)] /\ t[i + 1] = fr
      BY <1>2, <2>1
    <3> QED BY <3>1 DEF Linked
  <2>2. CASE i # Len(s)
    <3>1. i \in 1..(Len(s) - 1) /\ t[i] = s[i] /\ t[i + 1] = s[i + 1]
      BY <1>2, <2>2
    <3> QED BY <3>1 DEF Linked
  <2> QED BY <2>1, <2>2
<1>5. Link(t[Len(t)], d)
  BY <1>2
<1> HIDE DEF t
<1> QED BY <1>2, <1>3, <1>4, <1>5 DEF Linked, t

\* A sequence without its last element.
LEMMA Shorter ==
  ASSUME NEW S, NEW s \in Seq(S), s # <<>>
  PROVE  /\ SubSeq(s, 1, Len(s) - 1) \in Seq(S)
         /\ Len(SubSeq(s, 1, Len(s) - 1)) = Len(s) - 1
         /\ \A i \in 1..(Len(s) - 1) : SubSeq(s, 1, Len(s) - 1)[i] = s[i]
<1>1. Len(s) - 1 \in Nat /\ 1 \in Int /\ \A i \in 1..(Len(s) - 1) : s[i] \in S
  OBVIOUS
<1>2. PICK n \in Nat : n = Len(s) - 1
  BY <1>1
<1>3. /\ SubSeq(s, 1, n) \in Seq(S)
      /\ Len(SubSeq(s, 1, n)) = IF 1 <= n THEN n - 1 + 1 ELSE 0
      /\ \A i \in 1..(n - 1 + 1) : SubSeq(s, 1, n)[i] = s[1 + i - 1]
  BY <1>1, <1>2, SubSeqProperties
<1>4. (IF 1 <= n THEN n - 1 + 1 ELSE 0) = n /\ n - 1 + 1 = n
  OBVIOUS
<1>5. \A i \in 1..n : 1 + i - 1 = i
  OBVIOUS
<1> QED BY <1>2, <1>3, <1>4, <1>5

\* A return: the last activation leaves the stack.
LEMMA PopLinked ==
  ASSUME NEW n \in Nat, NEW s \in Seq(ParserFrame \cup RuleFrame), NEW c,
         Linked(s, c, n), s # <<>>
  PROVE  /\ SubSeq(s, 1, Len(s) - 1) \in Seq(ParserFrame \cup RuleFrame)
         /\ Linked(SubSeq(s, 1, Len(s) - 1), Called(s[Len(s)]), n)
<1> DEFINE t == SubSeq(s, 1, Len(s) - 1)
<1>1. t \in Seq(ParserFrame \cup RuleFrame) /\ Len(t) = Len(s) - 1
      /\ \A i \in 1..(Len(s) - 1) : t[i] = s[i]
  BY Shorter
<1> HIDE DEF t
<1>2. \A i \in 1..Len(t) : FrameOK(t[i], n)
  BY <1>1 DEF Linked
<1>3. ASSUME NEW i \in 1..(Len(t) - 1) PROVE Link(t[i], Called(t[i + 1]))
  <2>1. i \in 1..(Len(s) - 1) /\ t[i] = s[i] /\ t[i + 1] = s[i + 1]
    BY <1>1
  <2> QED BY <2>1 DEF Linked
<1>4. ASSUME t # <<>> PROVE Link(t[Len(t)], Called(s[Len(s)]))
  <2>1. Len(t) \in 1..(Len(s) - 1) /\ t[Len(t)] = s[Len(t)] /\ Len(t) + 1 = Len(s)
    BY <1>1, <1>4, SMTT(30)
  <2> QED BY <2>1 DEF Linked
<1> QED BY <1>1, <1>2, <1>3, <1>4 DEF Linked, t

\* A further call by the last activation.
LEMMA SetTopLinked ==
  ASSUME NEW n \in Nat, NEW s \in Seq(ParserFrame \cup RuleFrame), NEW c, NEW d,
         NEW fr, Linked(s, c, n), s # <<>>, FrameOK(fr, n),
         Called(fr) = Called(s[Len(s)]), Link(fr, d)
  PROVE  /\ [s EXCEPT ![Len(s)] = fr] \in Seq(ParserFrame \cup RuleFrame)
         /\ Linked([s EXCEPT ![Len(s)] = fr], d, n)
<1> DEFINE t == [s EXCEPT ![Len(s)] = fr]
<1>1. fr \in ParserFrame \cup RuleFrame
  BY DEF FrameOK
<1>2. t \in Seq(ParserFrame \cup RuleFrame) /\ Len(t) = Len(s) /\ Len(s) \in Nat \ {0}
      /\ (\A i \in 1..(Len(s) - 1) : t[i] = s[i]) /\ t[Len(s)] = fr
  BY <1>1
<1> HIDE DEF t
<1>3. \A i \in 1..Len(t) : FrameOK(t[i], n)
  BY <1>2 DEF Linked
<1>4. ASSUME NEW i \in 1..(Len(t) - 1) PROVE Link(t[i], Called(t[i + 1]))
  <2>1. CASE i + 1 = Len(s)
    <3>1. i \in 1..(Len(s) - 1) /\ t[i] = s[i] /\ t[i + 1] = fr
      BY <1>2, <2>1
    <3> QED BY <3>1, <2>1 DEF Linked
  <2>2. CASE i + 1 # Len(s)
    <3>1. i \in 1..(Len(s) - 1) /\ t[i] = s[i] /\ t[i + 1] = s[i + 1]
      BY <1>2, <2>2
    <3> QED BY <3>1 DEF Linked
  <2> QED BY <2>1, <2>2
<1> QED BY <1>2, <1>3, <1>4 DEF Linked, t

(***************************************************************************)
(* The initial states, and states of the context.                           *)
(***************************************************************************)

\* Variables of rules start well-formed.
LEMMA StartGood ==
  ASSUME NEW n \in Nat, NEW g \in Grammar, NEW pos \in 0..n
  PROVE  Good(Start(g, pos), n) /\ Start(g, pos).position = pos
<1>1. Globals[g] \in Bindings
  BY GrammarAssumption
<1>2. <<pos, 0>> \in Nat \X Nat
  OBVIOUS
<1>3. <<<<pos, 0>>>> \in Seq(Nat \X Nat) /\ Len(<<<<pos, 0>>>>) = 1 /\ <<<<pos, 0>>>>[1] = <<pos, 0>>
  BY <1>2
<1>4. \A k \in DOMAIN <<<<pos, 0>>>> : ~(k > 1)
  BY <1>3
<1> QED BY <1>1, <1>3, <1>4 DEF Good, Start, State, Variables

\* Moving forward keeps a state well-formed.
LEMMA MoveGood ==
  ASSUME NEW n \in Nat, NEW s, Good(s, n), NEW pos \in s.position..n
  PROVE  /\ Good([s EXCEPT !.position = pos], n)
         /\ [s EXCEPT !.position = pos].position = pos
         /\ [s EXCEPT !.position = pos].variables = s.variables
         /\ pos = s.position => [s EXCEPT !.position = pos] = s
<1>1. s \in State /\ s.position \in Nat /\ pos \in Nat
  BY DEF Good, State
<1>2. [s EXCEPT !.position = pos] \in State
  BY <1>1 DEF State
<1>3. /\ [s EXCEPT !.position = pos].position = pos
      /\ [s EXCEPT !.position = pos].variables = s.variables
      /\ pos = s.position => [s EXCEPT !.position = pos] = s
  BY <1>1 DEF State
<1>4. s.variables.strings # <<>> => s.variables.strings[1][1] \in Nat
  BY <1>1 DEF State, Variables
<1>5. s.variables.strings # <<>> => s.variables.strings[1][1] <= pos
  BY <1>1, <1>4 DEF Good
<1> QED BY <1>2, <1>3, <1>5 DEF Good

\* The initial states.
LEMMA Initially == Init => ParserInv
<1> SUFFICES ASSUME Init PROVE ParserInv
  OBVIOUS
<1>1. NoVariables \in Variables /\ NoVariables.strings = <<>>
  BY DEF NoVariables, Variables, Bindings, Result
<1>2. state \in State /\ state.position = 0 /\ state.variables = NoVariables
  BY <1>1 DEF Init, State
<1>3. input \in Inputs /\ Len(input) \in Nat /\ grammar \in Grammar /\ aux \in Aux
  BY InputAssumption, GrammarAssumption DEF Init
<1>4. control = Idle /\ control \in Control /\ control.op # "return"
  BY ControlValues DEF Init
<1>5. TypeOK
  BY <1>2, <1>3, <1>4 DEF Init, TypeOK, Phase
<1>6. Good(state, Len(input))
  BY <1>1, <1>2, <1>3 DEF Good
<1>7. Linked(stack, CallPoint, Len(input))
  BY DEF Init, Linked
<1>8. MemoInv /\ ReturnInv /\ PhaseInv
  BY <1>4 DEF Init, MemoInv, ReturnInv, PhaseInv
<1> QED BY <1>5, <1>6, <1>7, <1>8 DEF ParserInv


(***************************************************************************)
(* What the steps have in common.                                           *)
(***************************************************************************)

\* Facts about the last activation.
LEMMA TopFacts ==
  ASSUME ParserInv, stack # <<>>
  PROVE  /\ Len(stack) \in Nat \ {0} /\ Len(input) \in Nat
         /\ stack \in Seq(ParserFrame \cup RuleFrame)
         /\ FrameOK(Top, Len(input))
         /\ Link(Top, CallPoint)
         /\ Top \in ParserFrame \cup RuleFrame
         /\ Pop \in Seq(ParserFrame \cup RuleFrame)
         /\ Linked(Pop, Called(Top), Len(input))
<1>1. stack \in Seq(ParserFrame \cup RuleFrame) /\ Linked(stack, CallPoint, Len(input))
  BY DEF ParserInv, TypeOK
<1>2. Len(input) \in Nat
  BY InputAssumption DEF ParserInv, TypeOK
<1>3. Len(stack) \in Nat \ {0}
  BY <1>1
<1>4. FrameOK(Top, Len(input)) /\ Link(Top, CallPoint)
  BY <1>1, <1>3 DEF Linked, Top
<1>5. Top \in ParserFrame \cup RuleFrame
  BY <1>4 DEF FrameOK
<1>6. /\ Pop \in Seq(ParserFrame \cup RuleFrame)
      /\ Linked(Pop, Called(Top), Len(input))
  BY <1>1, <1>2, PopLinked DEF Pop, Top
<1> QED BY <1>1, <1>2, <1>3, <1>4, <1>5, <1>6

\* Facts about the state and control.
LEMMA NowFacts ==
  ASSUME ParserInv
  PROVE  /\ Len(input) \in Nat /\ input \in Seq(Char)
         /\ state \in State /\ Good(state, Len(input))
         /\ state.position \in 0..Len(input) /\ state.variables \in Variables
         /\ control.op = "parse" => control.parser \in Parser /\ CallPoint = state
         /\ control.op = "return" =>
              /\ control.res \in Result /\ control.from \in State
              /\ CallPoint = control.from
              /\ control.from.position <= state.position
              /\ control.res = None => state = control.from
<1>1. input \in Seq(Char) /\ state \in State /\ control \in Control
  BY InputAssumption DEF ParserInv, TypeOK
<1>2. Len(input) \in Nat
  BY <1>1
<1>3. state.position \in 0..Len(input) /\ state.variables \in Variables
  BY <1>1, <1>2 DEF ParserInv, Good, State
<1>4. /\ control.op = "parse" => control.parser \in Parser
      /\ control.op = "return" => control.res \in Result /\ control.from \in State
  BY <1>1, ControlFields
<1> QED BY <1>1, <1>2, <1>3, <1>4 DEF ParserInv, ReturnInv, CallPoint

\* A parser returns to the activation that called it.
LEMMA FinishInv ==
  ASSUME ParserInv, control.op = "return", stack # <<>>, ~IsRule(Top),
         NEW res \in Result, Finish(res), Frozen,
         Good(state', Len(input)), Top.start.position <= state'.position,
         res = None => state' = Top.start
  PROVE  ParserInv'
<1>1. /\ Top.start \in State
      /\ Called(Top) = Top.start
  BY TopFacts, FrameFields DEF Called
<1>2. stack' = Pop /\ control' = Return(res, Top.start)
  BY DEF Finish
<1>3. control' \in Control /\ control'.op = "return" /\ control'.res = res
      /\ control'.from = Top.start
  BY <1>1, <1>2, ControlValues
<1>4. TypeOK'
  BY <1>2, <1>3, TopFacts DEF ParserInv, TypeOK, Frozen, Good
<1>5. Good(state, Len(input))'
  BY DEF Frozen, Good
<1>6. Linked(Pop, Top.start, Len(input))
  BY <1>1, TopFacts
<1>7. CallPoint' = Top.start /\ input' = input
  BY <1>3 DEF CallPoint, Frozen
<1>8. Linked(stack, CallPoint, Len(input))'
  BY <1>2, <1>6, <1>7
<1>9. MemoInv'
  BY DEF ParserInv, MemoInv, Frozen
<1>10. ReturnInv'
  BY <1>3 DEF ReturnInv
<1>11. PhaseInv'
  BY DEF ParserInv, PhaseInv, Frozen
<1> QED BY <1>4, <1>5, <1>8, <1>9, <1>10, <1>11 DEF ParserInv

\* The last activation calls a kid once more.
LEMMA AgainInv ==
  ASSUME ParserInv, control.op = "return", stack # <<>>,
         NEW fr, FrameOK(fr, Len(input)), Called(fr) = Called(Top), Link(fr, state),
         NEW p \in Parser, stack' = SetTop(fr), control' = Parse(p),
         UNCHANGED state, Frozen
  PROVE  ParserInv'
<1>1. control' \in Control /\ control'.op = "parse"
  BY ControlValues
<1>2. /\ SetTop(fr) \in Seq(ParserFrame \cup RuleFrame)
      /\ Linked(SetTop(fr), state, Len(input))
  BY TopFacts, SetTopLinked DEF SetTop, Top, ParserInv
<1>3. TypeOK'
  BY <1>1, <1>2 DEF ParserInv, TypeOK, Frozen
<1>4. CallPoint' = state /\ input' = input /\ state' = state
  BY <1>1 DEF CallPoint, Frozen
<1>5. Linked(stack, CallPoint, Len(input))'
  BY <1>2, <1>4
<1>6. Good(state, Len(input))' /\ MemoInv'
  BY DEF ParserInv, MemoInv, Frozen
<1>7. ReturnInv'
  BY <1>1 DEF ReturnInv
<1>8. PhaseInv'
  BY TopFacts DEF ParserInv, PhaseInv, Frozen
<1> QED BY <1>3, <1>5, <1>6, <1>7, <1>8 DEF ParserInv

\* A leaf succeeds with v at position pos.
LEMMA SucceedInv ==
  ASSUME ParserInv, control.op = "parse", phase \in {"shebang", "unit"},
         NEW v \in Value, NEW pos \in state.position..Len(input),
         Succeed(v, pos), UNCHANGED <<input, grammar, memo, aux, stack, phase, units>>
  PROVE  ParserInv'
<1>1. /\ control' \in Control /\ control'.op = "return" /\ control'.res = v
      /\ control'.from = state
  BY NowFacts, ControlValues DEF Succeed, Result
<1>2. /\ Good(state', Len(input)) /\ state'.position = pos
  BY NowFacts, MoveGood DEF Succeed
<1>3. TypeOK'
  BY <1>1, <1>2 DEF ParserInv, TypeOK, Good
<1>4. CallPoint' = state /\ CallPoint = state
  BY <1>1, NowFacts DEF CallPoint
<1>5. Linked(stack, CallPoint, Len(input))'
  BY <1>4 DEF ParserInv
<1>6. v # None
  BY ValueAssumption
<1>7. ReturnInv'
  BY <1>1, <1>2, <1>6, NowFacts DEF ReturnInv
<1>8. Good(state, Len(input))' /\ MemoInv' /\ PhaseInv'
  BY <1>2 DEF ParserInv, MemoInv, PhaseInv
<1> QED BY <1>3, <1>5, <1>7, <1>8 DEF ParserInv

\* A leaf that leaves the state alone returns any result.
LEMMA StayInv ==
  ASSUME ParserInv, control.op = "parse", phase \in {"shebang", "unit"},
         NEW res \in Result, control' = Return(res, state), aux' \in Aux,
         UNCHANGED <<input, grammar, state, memo, stack, phase, units>>
  PROVE  ParserInv'
<1>1. /\ control' \in Control /\ control'.op = "return" /\ control'.res = res
      /\ control'.from = state
  BY NowFacts, ControlValues
<1>2. TypeOK'
  BY <1>1 DEF ParserInv, TypeOK
<1>3. CallPoint' = state /\ CallPoint = state
  BY <1>1, NowFacts DEF CallPoint
<1>4. Linked(stack, CallPoint, Len(input))'
  BY <1>3 DEF ParserInv
<1>5. ReturnInv'
  BY <1>1, NowFacts DEF ReturnInv
<1>6. Good(state, Len(input))' /\ MemoInv' /\ PhaseInv'
  BY DEF ParserInv, MemoInv, PhaseInv
<1> QED BY <1>2, <1>4, <1>5, <1>6 DEF ParserInv

\* A step that throws: only the phase changes.
LEMMA AbortInv ==
  ASSUME ParserInv, Abort
  PROVE  ParserInv'
<1> QED BY DEF ParserInv, TypeOK, Phase, Abort, ctxVars, CallPoint, MemoInv, ReturnInv, PhaseInv

\* The memo with one more result.
LEMMA MemoFacts ==
  ASSUME ParserInv, NEW pos \in 0..Len(input), NEW r \in Rule, NEW res \in Result,
         NEW q \in pos..Len(input), res = None => q = pos,
         memo' = Memo(<<pos, r>>, res, q), input' = input
  PROVE  /\ DOMAIN memo' \subseteq Nat \X Rule
         /\ \A k \in DOMAIN memo' : memo'[k] \in Entry
         /\ MemoInv'
<1> DEFINE key == <<pos, r>>
<1>0. Len(input) \in Nat
  BY NowFacts
<1>1. key \in Nat \X Rule /\ key[1] = pos /\ q \in Nat
  BY <1>0
<1>2. DOMAIN memo' = DOMAIN memo \cup {key}
  BY DEF Memo
<1>3. \A k \in DOMAIN memo' : memo'[k] = IF k = key THEN [res |-> res, position |-> q]
                                           ELSE memo[k]
  BY <1>2 DEF Memo
<1> HIDE DEF key
<1>4. DOMAIN memo' \subseteq Nat \X Rule
  BY <1>1, <1>2 DEF ParserInv, TypeOK
<1>5. [res |-> res, position |-> q] \in Entry
  BY <1>1 DEF Entry
<1>6. \A k \in DOMAIN memo' : memo'[k] \in Entry
  BY <1>2, <1>3, <1>5 DEF ParserInv, TypeOK
<1>7. ASSUME NEW k \in DOMAIN memo'
      PROVE  /\ memo'[k].position \in k[1]..Len(input)
             /\ memo'[k].res = None => memo'[k].position = k[1]
  <2>1. CASE k = key
    BY <1>1, <1>3, <2>1
  <2>2. CASE k # key
    BY <1>2, <1>3, <2>2 DEF ParserInv, MemoInv
  <2> QED BY <2>1, <2>2
<1> QED BY <1>4, <1>6, <1>7 DEF MemoInv

(***************************************************************************)
(* The steps.                                                               *)
(***************************************************************************)

\* A rule is entered, or its result is in the memo.
LEMMA EnterRuleInv ==
  ASSUME ParserInv, control.op # "return" \/ stack = <<>>, NEW r \in Rule, EnterRule(r),
         phase' \in {"shebang", "unit"}, UNCHANGED <<input, grammar, aux, units>>
  PROVE  ParserInv'
<1> DEFINE key == <<state.position, r>>
<1> DEFINE st == Start(grammar, state.position)
<1> DEFINE lr == r \in LeftRec[grammar]
<1> DEFINE fr == [rule |-> r, body |-> Parsers[grammar][r], leftrec |-> lr, start |-> st,
                  saved |-> state.variables, res |-> None, last |-> st.position]
<1>1. /\ Linked(stack, state, Len(input))
      /\ stack \in Seq(ParserFrame \cup RuleFrame)
      /\ grammar \in Grammar
  BY DEF ParserInv, TypeOK, CallPoint, Linked
<1>2. phase' \in Phase /\ (phase' \notin {"shebang", "unit", "abort"} => stack' = <<>>)
      /\ phase' # "run"
  BY DEF Phase
<1>3. CASE key \in DOMAIN memo
  <2>1. /\ state' = [state EXCEPT !.position = memo[key].position]
        /\ control' = Return(memo[key].res, state)
        /\ UNCHANGED <<memo, stack>>
    BY <1>3 DEF EnterRule
  <2>2. memo[key] \in Entry /\ key[1] = state.position
    BY <1>3 DEF ParserInv, TypeOK
  <2>3. /\ memo[key].position \in state.position..Len(input)
        /\ memo[key].res = None => memo[key].position = state.position
        /\ memo[key].res \in Result
    BY <1>3, <2>2 DEF ParserInv, MemoInv, Entry
  <2> HIDE DEF key
  <2>4. /\ control' \in Control /\ control'.op = "return"
        /\ control'.res = memo[key].res /\ control'.from = state
    BY <2>1, <2>3, NowFacts, ControlValues
  <2>5. /\ Good(state', Len(input))
        /\ state'.position = memo[key].position
        /\ memo[key].res = None => state' = state
    BY <2>1, <2>3, NowFacts, MoveGood
  <2>6. TypeOK'
    BY <1>2, <2>1, <2>4, <2>5 DEF ParserInv, TypeOK, Good
  <2>7. CallPoint' = state
    BY <2>4 DEF CallPoint
  <2>8. Linked(stack, CallPoint, Len(input))'
    BY <1>1, <2>1, <2>7
  <2>9. ReturnInv'
    BY <2>3, <2>4, <2>5, NowFacts DEF ReturnInv
  <2>10. MemoInv' /\ PhaseInv' /\ Good(state, Len(input))'
    BY <1>2, <2>1, <2>5 DEF ParserInv, MemoInv, PhaseInv
  <2> QED BY <2>6, <2>8, <2>9, <2>10 DEF ParserInv
<1>4. CASE key \notin DOMAIN memo
  <2>1. /\ Parsers[grammar][r] # None
        /\ memo' = IF r \in LeftRec[grammar] THEN Memo(key, None, st.position) ELSE memo
        /\ stack' = Push(fr)
        /\ state' = st
        /\ control' = Parse(Parsers[grammar][r])
    BY <1>4 DEF EnterRule
  <2>2. Parsers[grammar][r] \in Parser
    BY <1>1, <2>1, GrammarAssumption
  <2>3. Good(st, Len(input)) /\ st.position = state.position /\ st \in State
    BY <1>1, NowFacts, StartGood DEF Good
  <2>4. control' \in Control /\ control'.op = "parse"
    BY <2>1, <2>2, ControlValues
  <2> HIDE DEF st
  <2>5. state.position \in Nat /\ None \in Result
    BY NowFacts DEF Result
  <2>0. lr \in BOOLEAN
    OBVIOUS
  <2> HIDE DEF lr
  <2>6. fr \in RuleFrame /\ IsRule(fr)
    BY <2>0, <2>2, <2>3, <2>5, NowFacts, FrameKinds DEF RuleFrame
  <2>7. fr.start = st /\ fr.saved = state.variables /\ fr.res = None
        /\ fr.last = st.position
    OBVIOUS
  <2> HIDE DEF fr
  <2>8. Called(fr) = state
    BY <2>3, <2>6, <2>7, NowFacts DEF Called, State
  <2>9. Link(fr, st)
    BY <2>3, <2>5, <2>7 DEF Link
  <2>10. st.position \in st.position..Len(input)
    BY <2>3, NowFacts
  <2>11. FrameOK(fr, Len(input))
    BY <2>3, <2>6, <2>7, <2>8, <2>10, NowFacts DEF FrameOK
  <2>12. /\ stack' \in Seq(ParserFrame \cup RuleFrame)
         /\ Linked(stack', st, Len(input))
    BY <1>1, <2>1, <2>8, <2>9, <2>11, NowFacts, PushLinked DEF Push
  <2>13. /\ DOMAIN memo' \subseteq Nat \X Rule
         /\ \A k \in DOMAIN memo' : memo'[k] \in Entry
         /\ MemoInv'
    <3>1. CASE r \in LeftRec[grammar]
      <4>1. state.position \in 0..Len(input) /\ st.position \in state.position..Len(input)
        BY <2>3, <2>10, NowFacts
      <4> QED BY <2>1, <2>3, <2>5, <3>1, <4>1, MemoFacts
    <3>2. CASE r \notin LeftRec[grammar]
      BY <2>1, <3>2 DEF ParserInv, TypeOK, MemoInv
    <3> QED BY <3>1, <3>2
  <2>14. TypeOK'
    BY <1>2, <2>1, <2>3, <2>4, <2>12, <2>13 DEF ParserInv, TypeOK
  <2>15. CallPoint' = st
    BY <2>1, <2>4 DEF CallPoint
  <2>16. Linked(stack, CallPoint, Len(input))' /\ Good(state, Len(input))'
    BY <2>1, <2>3, <2>12, <2>15
  <2>17. ReturnInv' /\ PhaseInv'
    BY <1>2, <2>4 DEF ReturnInv, PhaseInv
  <2> QED BY <2>13, <2>14, <2>16, <2>17 DEF ParserInv
<1> QED BY <1>3, <1>4

\* A compound parser calls its first kid.
LEMMA EnterInv ==
  ASSUME ParserInv, Enter
  PROVE  ParserInv'
<1> DEFINE p == control.parser
<1> DEFINE fr == [parser |-> p, start |-> state, i |-> 1,
                  ret |-> IF p.kind = "star" THEN Dummy ELSE None]
<1>1. /\ p \in Parser /\ p.kind \in Compound /\ CallPoint = state
      /\ stack' = Push(fr) /\ control' = Parse(p.kids[1])
      /\ phase \in {"shebang", "unit"}
  BY NowFacts DEF Enter
<1>2. p.kids \in Seq(Parser) /\ p.kids # <<>>
  BY <1>1, ParserAssumption
<1>3. p.kids[1] \in Parser /\ 1 \in 1..Len(p.kids)
  BY <1>2
<1>4. Dummy \in Value /\ Dummy # None
  BY DummyValue
<1> HIDE DEF p
<1>5. fr \in ParserFrame /\ ~IsRule(fr)
  BY <1>1, <1>4, NowFacts, FrameKinds DEF ParserFrame, Result
<1>6. fr.parser = p /\ fr.start = state /\ fr.i = 1 /\ (p.kind = "star" => fr.ret = Dummy)
  OBVIOUS
<1> HIDE DEF fr
<1>7. FrameOK(fr, Len(input))
  BY <1>1, <1>3, <1>4, <1>5, <1>6, NowFacts DEF FrameOK
<1>8. Called(fr) = state /\ Link(fr, state)
  BY <1>5, <1>6, NowFacts DEF Called, Link
<1>9. /\ stack' \in Seq(ParserFrame \cup RuleFrame)
      /\ Linked(stack', state, Len(input))
  BY <1>1, <1>7, <1>8, NowFacts, PushLinked DEF Push, ParserInv, TypeOK
<1>10. control' \in Control /\ control'.op = "parse"
  BY <1>1, <1>3, ControlValues
<1>11. UNCHANGED <<input, grammar, state, memo, aux, phase, units>>
  BY DEF Enter
<1>12. TypeOK'
  BY <1>9, <1>10, <1>11 DEF ParserInv, TypeOK
<1>13. CallPoint' = state
  BY <1>10, <1>11 DEF CallPoint
<1>14. Linked(stack, CallPoint, Len(input))' /\ Good(state, Len(input))' /\ MemoInv'
  BY <1>9, <1>11, <1>13 DEF ParserInv, MemoInv
<1>15. ReturnInv' /\ PhaseInv'
  BY <1>1, <1>10, <1>11 DEF ReturnInv, PhaseInv
<1> QED BY <1>12, <1>14, <1>15 DEF ParserInv

\* What is known when a kid has returned to a parser.
LEMMA KidFacts ==
  ASSUME ParserInv, control.op = "return", stack # <<>>, ~IsRule(Top)
  PROVE  /\ Top \in ParserFrame /\ Top.parser \in Parser /\ Top.ret \in Result
         /\ Top.i \in 1..Len(Top.parser.kids) /\ Top.parser.kids \in Seq(Parser)
         /\ Top.parser.kids # <<>> /\ Called(Top) = Top.start
         /\ Top.start \in State /\ Good(Top.start, Len(input))
         /\ Top.start.position \in Nat /\ Top.start.position <= state.position
         /\ Passes(Top) /\ control.res = None => state = Top.start
         /\ Top.parser.kind = "star" => Top.ret # None
<1>1. /\ Top \in ParserFrame /\ Top.parser \in Parser /\ Top.ret \in Result
      /\ Top.start \in State /\ Top.parser.kind \in Compound
      /\ Top.i \in 1..Len(Top.parser.kids) /\ Good(Top.start, Len(input))
      /\ Top.parser.kind = "star" => Top.ret # None
  BY TopFacts, FrameFields DEF FrameOK
<1>2. Top.parser.kids \in Seq(Parser) /\ Top.parser.kids # <<>>
  BY <1>1, ParserAssumption
<1>3. Top.start.position \in Nat /\ Called(Top) = Top.start
  BY <1>1 DEF State, Called
<1>4. Link(Top, control.from) /\ control.from.position \in Nat /\ state.position \in Nat
  BY TopFacts, NowFacts DEF State
<1>5. Top.start.position <= state.position
  BY <1>3, <1>4, NowFacts DEF Link
<1>6. Passes(Top) /\ control.res = None => state = Top.start
  BY <1>4, NowFacts DEF Link
<1> QED BY <1>1, <1>2, <1>3, <1>5, <1>6

\* The next kid of a choice or a sequence.
LEMMA NextKidInv ==
  ASSUME ParserInv, control.op = "return", stack # <<>>, ~IsRule(Top),
         Top.i # Len(Top.parser.kids), NextKid(Top), UNCHANGED state, Frozen,
         Top.parser.kind \in {"choice", "sequence"},
         Passes(Top) => state = Top.start
  PROVE  ParserInv'
<1> DEFINE fr == [Top EXCEPT !.i = @ + 1]
<1>1. stack' = SetTop(fr) /\ control' = Parse(Top.parser.kids[Top.i + 1])
  BY DEF NextKid
<1>2. Len(Top.parser.kids) \in Nat /\ Top.i + 1 \in 1..Len(Top.parser.kids)
  BY KidFacts
<1>3. Top.parser.kids[Top.i + 1] \in Parser
  BY <1>2, KidFacts
<1>4. /\ fr \in ParserFrame /\ fr.parser = Top.parser /\ fr.start = Top.start
      /\ fr.i = Top.i + 1 /\ fr.ret = Top.ret
  BY <1>2, KidFacts DEF ParserFrame
<1> HIDE DEF fr
<1>5. ~IsRule(fr)
  BY <1>4, FrameKinds
<1>6. FrameOK(fr, Len(input))
  BY <1>2, <1>4, <1>5, KidFacts, TopFacts DEF FrameOK
<1>7. Called(fr) = Called(Top)
  BY <1>4, <1>5, KidFacts DEF Called
<1>8. Link(fr, state)
  BY <1>4, <1>5, KidFacts DEF Link, Passes
<1> QED BY <1>1, <1>3, <1>6, <1>7, <1>8, AgainInv

\* A choice stops at a success and at its last kid, or tries the next kid.
LEMMA ChoiceInv ==
  ASSUME ParserInv, ChoiceReturn
  PROVE  ParserInv'
<1>1. /\ control.op = "return" /\ stack # <<>> /\ ~IsRule(Top)
      /\ Top.parser.kind = "choice" /\ UNCHANGED state /\ Frozen
  BY DEF ChoiceReturn, Returns
<1>2. Passes(Top)
  BY <1>1 DEF Passes
<1>3. CASE control.res # None \/ Top.i = Len(Top.parser.kids)
  <2>1. Finish(control.res)
    BY <1>3 DEF ChoiceReturn
  <2> QED BY <1>1, <1>2, <2>1, KidFacts, NowFacts, FinishInv
<1>4. CASE ~(control.res # None \/ Top.i = Len(Top.parser.kids))
  <2>1. NextKid(Top)
    BY <1>4 DEF ChoiceReturn
  <2> QED BY <1>1, <1>2, <1>4, <2>1, KidFacts, NextKidInv
<1> QED BY <1>3, <1>4

\* A sequence stops at a failure, where it restores the state.
LEMMA SequenceInv ==
  ASSUME ParserInv, SequenceReturn
  PROVE  ParserInv'
<1>1. /\ control.op = "return" /\ stack # <<>> /\ ~IsRule(Top)
      /\ Top.parser.kind = "sequence" /\ Frozen
  BY DEF SequenceReturn, Returns
<1>2. ~Passes(Top)
  BY <1>1 DEF Passes
<1>3. CASE control.res = None
  <2>1. Finish(None) /\ state' = Top.start /\ None \in Result
    BY <1>3 DEF SequenceReturn, Result
  <2>2. Good(state', Len(input)) /\ Top.start.position <= state'.position
    BY <1>1, <2>1, KidFacts
  <2> QED BY <1>1, <2>1, <2>2, FinishInv
<1>4. CASE control.res # None /\ Top.i = Len(Top.parser.kids)
  <2>1. Finish(control.res) /\ UNCHANGED state
    BY <1>4 DEF SequenceReturn
  <2> QED BY <1>1, <1>4, <2>1, KidFacts, NowFacts, FinishInv
<1>5. CASE control.res # None /\ Top.i # Len(Top.parser.kids)
  <2>1. NextKid(Top) /\ UNCHANGED state
    BY <1>5 DEF SequenceReturn
  <2> QED BY <1>1, <1>2, <1>5, <2>1, KidFacts, NextKidInv
<1> QED BY <1>3, <1>4, <1>5

\* A lookahead returns in the state it was called in.
LEMMA LookaheadInv ==
  ASSUME ParserInv, AndReturn \/ NotReturn
  PROVE  ParserInv'
<1>1. /\ control.op = "return" /\ stack # <<>> /\ ~IsRule(Top) /\ Frozen
      /\ state' = Top.start
  BY DEF AndReturn, NotReturn, Returns
<1>2. PICK res \in Result : Finish(res)
  BY NowFacts, DummyValue, <1>1 DEF AndReturn, NotReturn, Result
<1>3. Good(state', Len(input)) /\ Top.start.position <= state'.position
  BY <1>1, KidFacts
<1> QED BY <1>1, <1>2, <1>3, FinishInv

\* An option succeeds even when its kid has failed.
LEMMA QuestionInv ==
  ASSUME ParserInv, QuestionReturn
  PROVE  ParserInv'
<1> DEFINE res == IF control.res = None THEN Dummy ELSE control.res
<1>1. /\ control.op = "return" /\ stack # <<>> /\ ~IsRule(Top) /\ Frozen
      /\ UNCHANGED state /\ Finish(res)
  BY DEF QuestionReturn, Returns
<1>2. res \in Result /\ res # None
  BY <1>1, NowFacts, DummyValue DEF Result
<1> HIDE DEF res
<1> QED BY <1>1, <1>2, KidFacts, NowFacts, FinishInv

\* A repetition goes on until its kid fails; that failure has restored the
\* state, and a plus without a success returns it.
LEMMA RepeatInv ==
  ASSUME ParserInv, RepeatReturn
  PROVE  ParserInv'
<1>1. /\ control.op = "return" /\ stack # <<>> /\ ~IsRule(Top) /\ Frozen
      /\ UNCHANGED state /\ Top.parser.kind \in {"star", "plus"}
  BY DEF RepeatReturn, Returns
<1>2. CASE control.res = None
  <2>1. Finish(Top.ret)
    BY <1>2 DEF RepeatReturn
  <2>2. Top.ret = None => Passes(Top)
    BY <1>1, KidFacts DEF Passes
  <2>3. Top.ret = None => state' = Top.start
    BY <1>1, <1>2, <2>2, KidFacts
  <2> QED BY <1>1, <2>1, <2>3, KidFacts, NowFacts, FinishInv
<1>3. CASE control.res # None
  <2> DEFINE fr == [Top EXCEPT !.ret = control.res]
  <2>1. stack' = SetTop(fr) /\ control' = Parse(Top.parser.kids[1])
    BY <1>3 DEF RepeatReturn
  <2>2. /\ fr \in ParserFrame /\ fr.parser = Top.parser /\ fr.start = Top.start
        /\ fr.i = Top.i /\ fr.ret = control.res
    BY <1>1, KidFacts, NowFacts DEF ParserFrame
  <2>3. Top.parser.kids[1] \in Parser
    BY <1>1, KidFacts
  <2> HIDE DEF fr
  <2>4. ~IsRule(fr)
    BY <2>2, FrameKinds
  <2>5. FrameOK(fr, Len(input))
    BY <1>1, <1>3, <2>2, <2>4, KidFacts, TopFacts DEF FrameOK
  <2>6. Called(fr) = Called(Top)
    BY <1>1, <2>2, <2>4, KidFacts DEF Called
  <2>7. ~Passes(fr)
    BY <1>1, <1>3, <2>2, <2>4 DEF Passes
  <2>8. Link(fr, state)
    BY <1>1, <2>2, <2>7, KidFacts DEF Link
  <2> QED BY <1>1, <2>1, <2>3, <2>5, <2>6, <2>8, AgainInv
<1> QED BY <1>2, <1>3

\* A caught value is bound to its variable.
LEMMA CatchVariableInv ==
  ASSUME ParserInv, CatchVariableReturn
  PROVE  ParserInv'
<1>1. /\ control.op = "return" /\ stack # <<>> /\ ~IsRule(Top) /\ Frozen
      /\ Top.parser.kind = "variable" /\ Finish(control.res)
      /\ state' = IF control.res = None THEN state
                  ELSE [state EXCEPT !.variables.values[Top.parser.name] = control.res]
  BY DEF CatchVariableReturn, Returns
<1>2. Passes(Top)
  BY <1>1 DEF Passes
<1>3. CASE control.res = None
  BY <1>1, <1>2, <1>3, KidFacts, NowFacts, FinishInv
<1>4. CASE control.res # None
  <2> DEFINE st == [state EXCEPT !.variables.values[Top.parser.name] = control.res]
  <2>1. Top.parser.name \in Name /\ state \in State /\ control.res \in Result
    BY <1>1, KidFacts, NowFacts, ParserAssumption
  <2>2. state.variables \in Variables /\ state.variables.values \in Bindings
    BY <2>1 DEF State, Variables
  <2>3. /\ st.position = state.position
        /\ st.variables = [state.variables EXCEPT !.values[Top.parser.name] = control.res]
        /\ st = [position |-> st.position, variables |-> st.variables]
    BY <2>1 DEF State
  <2>4. [state.variables.values EXCEPT ![Top.parser.name] = control.res] \in Bindings
    BY <2>1, <2>2 DEF Bindings
  <2>5. /\ st.variables \in Variables
        /\ st.variables.strings = state.variables.strings
    BY <2>2, <2>3, <2>4 DEF Variables
  <2>6. st \in State
    BY <2>1, <2>3, <2>5 DEF State
  <2>7. state' = st
    BY <1>1, <1>4
  <2> HIDE DEF st
  <2>8. Good(st, Len(input))
    BY <2>3, <2>5, <2>6, NowFacts DEF Good
  <2>9. Good(state', Len(input)) /\ Top.start.position <= state'.position
    BY <1>1, <2>3, <2>7, <2>8, KidFacts
  <2> QED BY <1>1, <1>4, <2>1, <2>9, FinishInv
<1> QED BY <1>3, <1>4

\* A caught string lies between the start of its parser and the position.
LEMMA CatchStringInv ==
  ASSUME ParserInv, CatchStringReturn
  PROVE  ParserInv'
<1>1. /\ control.op = "return" /\ stack # <<>> /\ ~IsRule(Top) /\ Frozen
      /\ Top.parser.kind = "string" /\ Finish(control.res)
      /\ state' = IF control.res = None THEN state
                  ELSE [state EXCEPT !.variables.strings =
                          Append(@, <<Top.start.position, state.position>>)]
  BY DEF CatchStringReturn, Returns
<1>2. Passes(Top)
  BY <1>1 DEF Passes
<1>3. CASE control.res = None
  BY <1>1, <1>2, <1>3, KidFacts, NowFacts, FinishInv
<1>4. CASE control.res # None
  <2> DEFINE v == <<Top.start.position, state.position>>
  <2> DEFINE ss == state.variables.strings
  <2> DEFINE tt == Append(ss, v)
  <2> DEFINE st == [state EXCEPT !.variables.strings = tt]
  <2>1. /\ state \in State /\ control.res \in Result /\ state.position \in 0..Len(input)
        /\ Len(input) \in Nat /\ Top.start.position \in Nat
        /\ Top.start.position <= state.position
    BY <1>1, KidFacts, NowFacts
  <2>2. state.variables \in Variables /\ ss \in Seq(Nat \X Nat)
    BY <2>1 DEF State, Variables
  <2>3. v \in Nat \X Nat /\ v[1] = Top.start.position /\ v[2] = state.position
    BY <2>1
  <2>4. Span(v, Len(input)) /\ v[1] <= state.position
    BY <2>1, <2>3 DEF Span
  <2>5. state' = st
    BY <1>1, <1>4
  <2> HIDE DEF v
  <2>6. /\ tt \in Seq(Nat \X Nat) /\ DOMAIN tt = 1..(Len(ss) + 1) /\ DOMAIN ss = 1..Len(ss)
        /\ Len(ss) \in Nat /\ tt[Len(ss) + 1] = v
        /\ \A k \in 1..Len(ss) : tt[k] = ss[k]
    BY <2>2, <2>3
  <2>7. /\ st.position = state.position
        /\ st.variables = [state.variables EXCEPT !.strings = tt]
        /\ st = [position |-> st.position, variables |-> st.variables]
    BY <2>1 DEF State
  <2> HIDE DEF tt
  <2>8. st.variables \in Variables /\ st.variables.strings = tt
    BY <2>2, <2>6, <2>7 DEF Variables
  <2>9. st \in State
    BY <2>1, <2>7, <2>8 DEF State
  <2> HIDE DEF st
  <2>10. \A k \in DOMAIN tt : k > 1 => Span(tt[k], Len(input))
    <3> SUFFICES ASSUME NEW k \in DOMAIN tt, k > 1 PROVE Span(tt[k], Len(input))
      OBVIOUS
    <3> HIDE DEF ss
    <3>0. k \in 1..(Len(ss) + 1)
      BY <2>6
    <3>1. CASE k = Len(ss) + 1
      BY <2>4, <2>6, <3>1
    <3>2. CASE k # Len(ss) + 1
      <4>1. k \in DOMAIN ss /\ tt[k] = ss[k]
        BY <2>6, <3>0, <3>2
      <4>2. Good(state, Len(input))
        BY NowFacts
      <4> QED BY <4>1, <4>2 DEF Good, ss
    <3> QED BY <3>1, <3>2
  <2>11. tt[1][1] <= state.position
    <3>1. CASE ss = <<>>
      <4>1. Len(ss) = 0
        BY <3>1
      <4> QED BY <2>4, <2>6, <4>1
    <3>2. CASE ss # <<>>
      <4>1. 1 \in 1..Len(ss)
        BY <2>2, <3>2
      <4> QED BY <2>6, <3>2, <4>1, NowFacts DEF Good
    <3> QED BY <3>1, <3>2
  <2>12. Good(st, Len(input))
    BY <2>1, <2>7, <2>8, <2>9, <2>10, <2>11 DEF Good
  <2>13. Good(state', Len(input)) /\ Top.start.position <= state'.position
    BY <2>1, <2>5, <2>7, <2>12
  <2> QED BY <1>1, <1>4, <2>1, <2>13, FinishInv
<1> QED BY <1>3, <1>4

\* What is known when the parser of a rule has returned.
LEMMA RuleFacts ==
  ASSUME ParserInv, control.op = "return", stack # <<>>, IsRule(Top)
  PROVE  /\ Top \in RuleFrame /\ Top.rule \in Rule /\ Top.body \in Parser /\ Top.saved \in Variables
         /\ Top.res \in Result /\ Top.start \in State /\ Good(Top.start, Len(input))
         /\ Top.start.position \in 0..Len(input)
         /\ Called(Top) = [position |-> Top.start.position, variables |-> Top.saved]
         /\ Good(Called(Top), Len(input))
         /\ Top.last \in Top.start.position..Len(input)
         /\ Top.res = None => Top.last = Top.start.position
         /\ state.position \in Top.start.position..Len(input)
         /\ control.res = None => state = Top.start
<1>1. /\ Top \in RuleFrame /\ Top.rule \in Rule /\ Top.body \in Parser /\ Top.saved \in Variables
      /\ Top.res \in Result /\ Top.start \in State /\ Good(Top.start, Len(input))
      /\ Called(Top) = [position |-> Top.start.position, variables |-> Top.saved]
      /\ Good(Called(Top), Len(input))
      /\ Top.last \in Top.start.position..Len(input)
      /\ Top.res = None => Top.last = Top.start.position
  BY TopFacts, FrameFields DEF FrameOK, Called
<1>2. Top.start.position \in 0..Len(input)
  BY <1>1, TopFacts DEF Good, State
<1>3. Link(Top, control.from) /\ control.from.position \in Nat
  BY TopFacts, NowFacts DEF State
<1>4. state.position \in Top.start.position..Len(input)
  BY <1>2, <1>3, NowFacts DEF Link
<1>5. control.res = None => state = Top.start
  BY <1>3, NowFacts DEF Link, Passes
<1> QED BY <1>1, <1>2, <1>4, <1>5

\* A rule returns to the activation that called it.
LEMMA LeaveInv ==
  ASSUME ParserInv, control.op = "return", stack # <<>>, IsRule(Top),
         NEW res \in Result, NEW pos \in Top.start.position..Len(input), Leave(res, pos),
         res = None => pos = Top.start.position,
         DOMAIN memo' \subseteq Nat \X Rule, \A k \in DOMAIN memo' : memo'[k] \in Entry,
         MemoInv', UNCHANGED <<input, grammar, aux, phase, units>>
  PROVE  ParserInv'
<1> DEFINE back == [position |-> Top.start.position, variables |-> Top.saved]
<1>1. /\ stack' = Pop /\ control' = Return(res, back)
      /\ state' = [position |-> pos, variables |-> Top.saved]
  BY DEF Leave
<1>2. /\ back = Called(Top) /\ Good(back, Len(input)) /\ back \in State
      /\ back.position = Top.start.position /\ back.variables = Top.saved
  BY RuleFacts DEF Good
<1>3. [back EXCEPT !.position = pos] = [position |-> pos, variables |-> Top.saved]
  OBVIOUS
<1> HIDE DEF back
<1>4. Len(input) \in Nat
  BY NowFacts
<1>5. /\ Good(state', Len(input)) /\ state'.position = pos
      /\ pos = back.position => state' = back
  BY <1>1, <1>2, <1>3, <1>4, MoveGood
<1>6. /\ control' \in Control /\ control'.op = "return" /\ control'.res = res
      /\ control'.from = back
  BY <1>1, <1>2, ControlValues
<1>7. TypeOK'
  BY <1>1, <1>5, <1>6, TopFacts DEF ParserInv, TypeOK, Good
<1>8. CallPoint' = back
  BY <1>6 DEF CallPoint
<1>9. Linked(stack, CallPoint, Len(input))'
  BY <1>1, <1>2, <1>8, TopFacts
<1>10. ReturnInv'
  <2>1. back.position <= pos
    BY <1>2, RuleFacts
  <2> QED BY <1>2, <1>5, <1>6, <2>1 DEF ReturnInv
<1>11. PhaseInv' /\ Good(state, Len(input))'
  BY <1>5, TopFacts DEF ParserInv, PhaseInv
<1> QED BY <1>7, <1>9, <1>10, <1>11 DEF ParserInv

\* The result of a rule goes to the memo and to the caller.
LEMMA RuleReturnInv ==
  ASSUME ParserInv, RuleReturn
  PROVE  ParserInv'
<1>1. /\ control.op = "return" /\ stack # <<>> /\ IsRule(Top)
      /\ memo' = Memo(Key(Top), control.res, state.position)
      /\ Leave(control.res, state.position)
      /\ UNCHANGED <<input, grammar, aux, phase, units>>
  BY DEF RuleReturn, RuleReturns
<1>2. control.res \in Result
  BY <1>1, NowFacts
<1>3. control.res = None => state.position = Top.start.position
  BY <1>1, RuleFacts
<1>4. /\ DOMAIN memo' \subseteq Nat \X Rule
      /\ \A k \in DOMAIN memo' : memo'[k] \in Entry
      /\ MemoInv'
  BY <1>1, <1>2, <1>3, RuleFacts, MemoFacts DEF Key
<1> QED BY <1>1, <1>2, <1>3, <1>4, RuleFacts, LeaveInv

\* The last result of a left-recursive rule goes to the caller.
LEMMA GrownInv ==
  ASSUME ParserInv, GrownReturn
  PROVE  ParserInv'
<1>1. /\ control.op = "return" /\ stack # <<>> /\ IsRule(Top)
      /\ Leave(Top.res, Top.last)
      /\ UNCHANGED <<input, grammar, memo, aux, phase, units>>
  BY DEF GrownReturn, RuleReturns
<1>2. /\ DOMAIN memo' \subseteq Nat \X Rule
      /\ \A k \in DOMAIN memo' : memo'[k] \in Entry
      /\ MemoInv'
  BY <1>1 DEF ParserInv, TypeOK, MemoInv
<1> QED BY <1>1, <1>2, RuleFacts, LeaveInv

\* A longer result of a left-recursive rule becomes the seed of the next try.
LEMMA GrowInv ==
  ASSUME ParserInv, GrowReturn
  PROVE  ParserInv'
<1> DEFINE fr == [Top EXCEPT !.res = control.res, !.last = state.position]
<1>1. /\ control.op = "return" /\ stack # <<>> /\ IsRule(Top)
      /\ state.position > Top.last
      /\ memo' = Memo(Key(Top), control.res, state.position)
      /\ stack' = SetTop(fr) /\ state' = Top.start
      /\ control' = Parse(Top.body)
      /\ UNCHANGED <<input, grammar, aux, phase, units>>
  BY DEF GrowReturn, RuleReturns
<1>2. control.res \in Result /\ Len(input) \in Nat /\ state.position \in Nat
  BY <1>1, NowFacts
<1>3. control.res # None
  BY <1>1, <1>2, RuleFacts
<1>4. /\ fr \in RuleFrame /\ fr.start = Top.start /\ fr.saved = Top.saved
      /\ fr.res = control.res /\ fr.last = state.position
  BY <1>1, <1>2, RuleFacts DEF RuleFrame
<1> HIDE DEF fr
<1>5. IsRule(fr)
  BY <1>4, FrameKinds
<1>6. Called(fr) = Called(Top)
  BY <1>1, <1>4, <1>5 DEF Called
<1>7. FrameOK(fr, Len(input))
  BY <1>1, <1>3, <1>4, <1>5, <1>6, RuleFacts DEF FrameOK
<1>8. Link(fr, Top.start)
  BY <1>1, <1>2, <1>4, RuleFacts DEF Link
<1>9. /\ stack' \in Seq(ParserFrame \cup RuleFrame)
      /\ Linked(stack', Top.start, Len(input))
  BY <1>1, <1>2, <1>6, <1>7, <1>8, TopFacts, SetTopLinked DEF SetTop, Top, ParserInv
<1>10. control' \in Control /\ control'.op = "parse"
  BY <1>1, RuleFacts, ControlValues
<1>11. /\ DOMAIN memo' \subseteq Nat \X Rule
       /\ \A k \in DOMAIN memo' : memo'[k] \in Entry
       /\ MemoInv'
  BY <1>1, <1>2, <1>3, RuleFacts, MemoFacts DEF Key
<1>12. TypeOK'
  BY <1>1, <1>9, <1>10, <1>11, RuleFacts DEF ParserInv, TypeOK
<1>13. CallPoint' = Top.start
  BY <1>1, <1>10 DEF CallPoint
<1>14. Linked(stack, CallPoint, Len(input))' /\ Good(state, Len(input))'
  BY <1>1, <1>9, <1>13, RuleFacts
<1>15. ReturnInv' /\ PhaseInv'
  BY <1>1, <1>10 DEF ReturnInv, PhaseInv, ParserInv
<1> QED BY <1>11, <1>12, <1>14, <1>15 DEF ParserInv

\* What a rule has caught, and its string #0, lie inside the source.
LEMMA CaughtFacts ==
  ASSUME ParserInv, NEW k \in Nat, HasString(k)
  PROVE  /\ Caught(k)[1] \in Nat /\ Caught(k)[2] \in Nat
         /\ Span(Caught(k), Len(input))
         /\ Substring(Caught(k)) \in Seq(Char)
<1> DEFINE ss == state.variables.strings
<1> DEFINE v == Caught(k)
<1>1. ss \in Seq(Nat \X Nat) /\ Len(ss) \in Nat /\ k + 1 \in DOMAIN ss /\ ss # <<>>
  <2>1. ss \in Seq(Nat \X Nat)
    BY NowFacts DEF Variables
  <2> QED BY <2>1 DEF HasString
<1>2. ss[k + 1] \in Nat \X Nat
  BY <1>1
<1>3. state.position \in 0..Len(input) /\ Len(input) \in Nat /\ Good(state, Len(input))
  BY NowFacts
<1>4. v[1] \in Nat /\ v[2] \in Nat /\ v[1] <= v[2] /\ v[2] <= Len(input)
  <2>1. CASE k = 0
    <3>1. v = <<ss[1][1], state.position>> /\ ss[1] \in Nat \X Nat /\ ss[1][1] <= state.position
      BY <1>1, <1>2, <1>3, <2>1 DEF Caught, Good
    <3> QED BY <1>3, <3>1
  <2>2. CASE k # 0
    <3>1. v = ss[k + 1] /\ k + 1 > 1
      BY <2>2 DEF Caught
    <3>2. Span(ss[k + 1], Len(input))
      BY <1>1, <1>3, <3>1 DEF Good
    <3> QED BY <1>2, <3>1, <3>2 DEF Span
  <2> QED BY <2>1, <2>2
<1> HIDE DEF v
<1>5. input \in Seq(Char)
  BY NowFacts
<1>6. \A i \in (v[1] + 1)..v[2] : input[i] \in Char
  BY <1>3, <1>4, <1>5
<1>7. v[1] + 1 \in Int /\ v[2] \in Int
  BY <1>4
<1>8. Substring(v) \in Seq(Char)
  BY <1>6, <1>7, SubSeqProperties DEF Substring
<1> QED BY <1>4, <1>8 DEF Span, v

\* Strings of characters are values.
LEMMA TextValue == \A s \in Seq(Char) : s \in Value
BY ValueAssumption DEF Value

\* Characters of the source are compared with a text.
LEMMA ParseTextInv ==
  ASSUME ParserInv, control.op = "parse", phase \in {"shebang", "unit"},
         NEW s \in Seq(Char), ParseText(s),
         UNCHANGED <<input, grammar, memo, aux, stack, phase, units>>
  PROVE  ParserInv'
<1>1. CASE Expect(s)
  <2>1. Succeed(s, state.position + Len(s))
    BY <1>1 DEF ParseText
  <2>2. state.position + Len(s) \in state.position..Len(input) /\ s \in Value
    BY <1>1, NowFacts, TextValue DEF Expect
  <2> QED BY <2>1, <2>2, SucceedInv
<1>2. CASE ~Expect(s)
  <2>1. control' = Return(None, state) /\ UNCHANGED state /\ None \in Result
    BY <1>2 DEF ParseText, Fail, Result
  <2> QED BY <2>1, StayInv DEF ParserInv, TypeOK
<1> QED BY <1>1, <1>2

\* Leaves: an identifier enters its rule, the others succeed, fail or throw.
LEMMA LeafInv ==
  ASSUME ParserInv, OperatorsTyped, ParseLeaf
  PROVE  ParserInv'
<1> DEFINE p == control.parser
<1>1. control.op = "parse" /\ phase \in {"shebang", "unit"} /\ p \in Parser
      /\ None \in Result /\ aux \in Aux
  BY NowFacts DEF ParseLeaf, ParseIdentifier, ParseLiteral, ParseBackref, ParseClass,
                  ParseDot, ParseAction, Leaves, Result, ParserInv, TypeOK
<1>2. ASSUME ParseIdentifier PROVE ParserInv'
  <2>1. p.rule \in Rule
    BY <1>1, <1>2, ParserAssumption DEF ParseIdentifier, Leaves
  <2>2. CASE Missing(p.rule)
    BY <1>2, <2>2, AbortInv DEF ParseIdentifier
  <2>3. CASE ~Missing(p.rule)
    <3>1. EnterRule(p.rule) /\ UNCHANGED <<input, grammar, aux, phase, units>>
      BY <1>2, <2>3 DEF ParseIdentifier
    <3> QED BY <1>1, <2>1, <3>1, EnterRuleInv
  <2> QED BY <2>2, <2>3
<1>3. ASSUME ParseLiteral PROVE ParserInv'
  <2>1. p.text \in Seq(Char)
    BY <1>1, <1>3, ParserAssumption DEF ParseLiteral, Leaves
  <2> QED BY <1>1, <1>3, <2>1, ParseTextInv DEF ParseLiteral
<1>4. ASSUME ParseBackref PROVE ParserInv'
  <2>1. p.number \in Nat
    BY <1>1, <1>4, ParserAssumption DEF ParseBackref, Leaves
  <2>2. CASE HasString(p.number)
    BY <1>1, <1>4, <2>1, <2>2, CaughtFacts, ParseTextInv DEF ParseBackref
  <2>3. CASE ~HasString(p.number)
    BY <1>4, <2>3, AbortInv DEF ParseBackref
  <2> QED BY <2>2, <2>3
<1>5. ASSUME ParseClass \/ ParseDot PROVE ParserInv'
  <2>1. \/ More /\ Succeed(<<Peek>>, state.position + 1)
        \/ control' = Return(None, state) /\ UNCHANGED state
    BY <1>5 DEF ParseClass, ParseDot, Fail
  <2>2. UNCHANGED <<input, grammar, memo, aux, stack, phase, units>>
    BY <1>5 DEF ParseClass, ParseDot
  <2>3. CASE More /\ Succeed(<<Peek>>, state.position + 1)
    <3>1. state.position + 1 \in state.position..Len(input) /\ Peek \in Char
      BY <2>3, NowFacts DEF More, Peek
    <3>2. <<Peek>> \in Value
      <4>1. Peek \in Symbol
        BY <3>1, ValueAssumption
      <4> QED BY <4>1 DEF Value
    <3> QED BY <1>1, <2>2, <2>3, <3>1, <3>2, SucceedInv
  <2>4. CASE control' = Return(None, state) /\ UNCHANGED state
    BY <1>1, <2>2, <2>4, StayInv
  <2> QED BY <2>1, <2>3, <2>4
<1>6. ASSUME ParseAction PROVE ParserInv'
  <2> DEFINE args == p.args
  <2> DEFINE vals == [i \in DOMAIN args |-> ArgValue(args[i])]
  <2>1. args \in Seq(Argument) /\ p.kind = "action"
    BY <1>1, <1>6, ParserAssumption DEF ParseAction, Leaves
  <2>2. CASE \A i \in DOMAIN args : Bound(args[i])
    <3>1. /\ control' = Return(Act(p.act, vals, aux), state)
          /\ aux' = ActAux(p.act, vals, aux)
          /\ UNCHANGED <<input, grammar, state, memo, stack, phase, units>>
      BY <1>6, <2>2 DEF ParseAction
    <3>2. ASSUME NEW a \in Argument, Bound(a) PROVE ArgValue(a) \in Value
      <4>1. CASE a.arg = "constant"
        BY <4>1 DEF Argument, ArgValue
      <4>2. CASE a.arg = "identifier"
        <5>1. a.name \in Name /\ state.variables.values \in Bindings
          BY <4>2, NowFacts DEF Argument, Variables
        <5>2. state.variables.values[a.name] \in Result /\ state.variables.values[a.name] # None
          BY <3>2, <4>2, <5>1 DEF Bound, Bindings
        <5> QED BY <4>2, <5>2 DEF ArgValue, Result
      <4>3. CASE a.arg = "backref"
        <5>1. a.number \in Nat /\ a.part \in {"string", "start", "end"} /\ HasString(a.number)
          BY <3>2, <4>3 DEF Argument, Bound
        <5>2. /\ Substring(Caught(a.number)) \in Value
              /\ PosValue(Caught(a.number)[1]) \in Value
              /\ PosValue(Caught(a.number)[2]) \in Value
          BY <5>1, CaughtFacts, TextValue DEF OperatorsTyped
        <5> QED BY <4>3, <5>1, <5>2 DEF ArgValue
      <4> QED BY <4>1, <4>2, <4>3 DEF Argument
    <3>3. vals \in Seq(Value) /\ Len(vals) = Len(args)
      <4>1. \A i \in DOMAIN args : vals[i] \in Value
        BY <2>1, <2>2, <3>2
      <4>2. DOMAIN args = 1..Len(args) /\ Len(args) \in Nat
        BY <2>1
      <4> HIDE DEF args
      <4>3. \A i \in 1..Len(args) : ArgValue(args[i]) \in Value
        BY <4>1, <4>2
      <4>4. vals = [i \in 1..Len(args) |-> ArgValue(args[i])]
        BY <4>2
      <4> HIDE DEF vals
      <4> QED BY <4>2, <4>3, <4>4
    <3> HIDE DEF vals
    <3>4. Act(p.act, vals, aux) \in Result /\ ActAux(p.act, vals, aux) \in Aux
      BY <1>1, <2>1, <3>3 DEF OperatorsTyped
    <3> QED BY <1>1, <3>1, <3>4, StayInv
  <2>3. CASE ~(\A i \in DOMAIN args : Bound(args[i]))
    BY <1>6, <2>3, AbortInv DEF ParseAction
  <2> QED BY <2>2, <2>3
<1> QED BY <1>2, <1>3, <1>4, <1>5, <1>6 DEF ParseLeaf

\* What stays when a step of the main loop leaves the context alone.
LEMMA LoopStepInv ==
  ASSUME ParserInv, stack = <<>>, phase' \in Phase \ {"run"},
         memo' \in {memo, <<>>}, control' \in {control, Idle},
         grammar' \in Grammar, units' \in Seq(Unit),
         UNCHANGED <<input, state, aux, stack>>
  PROVE  ParserInv'
<1>1. control' \in Control /\ (control' = control \/ control'.op # "return")
  BY ControlValues DEF ParserInv, TypeOK
<1>2. /\ DOMAIN memo' \subseteq Nat \X Rule
      /\ \A k \in DOMAIN memo' : memo'[k] \in Entry
      /\ MemoInv'
  <2>1. CASE memo' = memo
    BY <2>1 DEF ParserInv, TypeOK, MemoInv
  <2>2. CASE memo' = <<>>
    <3>1. DOMAIN memo' = {}
      BY <2>2
    <3> QED BY <3>1 DEF MemoInv
  <2> QED BY <2>1, <2>2
<1>3. TypeOK'
  BY <1>1, <1>2 DEF ParserInv, TypeOK
<1>4. Linked(stack, CallPoint, Len(input))'
  BY DEF Linked
<1>5. ReturnInv'
  BY <1>1 DEF ParserInv, ReturnInv
<1>6. PhaseInv'
  BY DEF PhaseInv
<1> QED BY <1>2, <1>3, <1>4, <1>5, <1>6 DEF ParserInv, Good

\* The parse of a rule for the main loop.
LEMMA BeginInv ==
  ASSUME ParserInv, stack = <<>>, NEW r \in {"unit", "shebang"}, NEW next \in {"shebang", "unit"},
         Begin(r, next)
  PROVE  ParserInv'
<1>1. r \in Rule
  BY GrammarAssumption
<1> QED BY <1>1, EnterRuleInv DEF Begin

\* The main loop.
LEMMA MainLoopInv ==
  ASSUME ParserInv, OperatorsTyped, MainLoop
  PROVE  ParserInv'
<1>1. grammar \in Grammar /\ units \in Seq(Unit) /\ phase \in Phase /\ stack \in Seq(ParserFrame \cup RuleFrame)
  BY DEF ParserInv, TypeOK
<1>2. ASSUME StartSource PROVE ParserInv'
  <2>1. stack = <<>>
    BY <1>2 DEF StartSource, ParserInv, PhaseInv
  <2>2. CASE Begin("shebang", "shebang")
    BY <2>1, <2>2, BeginInv
  <2>3. CASE phase' = "ready" /\ UNCHANGED <<input, grammar, ctxVars, units>>
    BY <1>1, <2>1, <2>3, LoopStepInv DEF ctxVars, Phase
  <2> QED BY <1>2, <2>2, <2>3 DEF StartSource
<1>3. ASSUME ShebangDone PROVE ParserInv'
  BY <1>1, <1>3, LoopStepInv DEF ShebangDone, Phase
<1>4. ASSUME ParseUnit PROVE ParserInv'
  <2>1. stack = <<>>
    BY <1>4 DEF ParseUnit, ParserInv, PhaseInv
  <2>2. CASE Abort
    BY <2>2, AbortInv
  <2>3. CASE Begin("unit", "unit")
    BY <2>1, <2>3, BeginInv
  <2> QED BY <1>4, <2>2, <2>3 DEF ParseUnit
<1>5. ASSUME UnitParsed PROVE ParserInv'
  <2>1. /\ stack = <<>> /\ control.op = "return" /\ memo' = <<>>
        /\ UNCHANGED <<input, grammar, state, aux, stack, control, units>>
    BY <1>5 DEF UnitParsed
  <2>2. CASE phase' # "run"
    <3>1. phase' \in {"error", "done"}
      BY <1>5, <2>2 DEF UnitParsed
    <3> QED BY <1>1, <2>1, <3>1, LoopStepInv DEF Phase
  <2>3. CASE phase' = "run"
    <3>1. control.res # None
      BY <1>5, <2>3 DEF UnitParsed
    <3>2. DOMAIN memo' = {}
      BY <2>1
    <3>3. TypeOK'
      BY <2>1, <2>3, <3>2 DEF ParserInv, TypeOK, Phase
    <3>4. Linked(stack, CallPoint, Len(input))'
      BY <2>1 DEF Linked
    <3>5. ReturnInv' /\ MemoInv' /\ PhaseInv' /\ Good(state, Len(input))'
      BY <2>1, <3>1, <3>2 DEF ParserInv, ReturnInv, MemoInv, PhaseInv, Good
    <3> QED BY <3>3, <3>4, <3>5 DEF ParserInv
  <2> QED BY <2>2, <2>3
<1>6. ASSUME RunUnit PROVE ParserInv'
  <2>1. stack = <<>> /\ control.op = "return" /\ control.res # None
    BY <1>6 DEF RunUnit, ParserInv, PhaseInv
  <2>2. control.res \in Value
    BY <2>1, NowFacts DEF Result
  <2>3. grammar' \in Grammar
    BY <1>1, <1>6, <2>2 DEF RunUnit, OperatorsTyped
  <2> DEFINE u == [grammar |-> grammar, from |-> control.from.position,
                   upto |-> state.position, res |-> control.res]
  <2>4. control.from.position \in Nat /\ state.position \in Nat
    BY <2>1, NowFacts DEF State
  <2>5. u \in Unit
    BY <1>1, <2>2, <2>4 DEF Unit
  <2>6. units' = Append(units, u)
    BY <1>6 DEF RunUnit
  <2> HIDE DEF u
  <2>7. units' \in Seq(Unit)
    BY <1>1, <2>5, <2>6
  <2> QED BY <1>6, <2>1, <2>3, <2>7, LoopStepInv DEF RunUnit, Phase
<1> QED BY <1>2, <1>3, <1>4, <1>5, <1>6 DEF MainLoop

\* No step breaks the invariant.
LEMMA NextInv ==
  ASSUME ParserInv, OperatorsTyped, [Next]_vars
  PROVE  ParserInv'
<1>1. CASE UNCHANGED vars
  BY <1>1 DEF vars, ctxVars, ParserInv, TypeOK, CallPoint, MemoInv, ReturnInv, PhaseInv, Good
<1>2. CASE Next
  <2>1. CASE ParseLeaf
    BY <2>1, LeafInv
  <2>2. CASE Enter
    BY <2>2, EnterInv
  <2>3. CASE KidReturn
    BY <2>3, ChoiceInv, SequenceInv, LookaheadInv, QuestionInv, RepeatInv,
       CatchVariableInv, CatchStringInv DEF KidReturn
  <2>4. CASE RuleStep
    BY <2>4, RuleReturnInv, GrowInv, GrownInv DEF RuleStep
  <2>5. CASE MainLoop
    BY <2>5, MainLoopInv
  <2>6. CASE Ended
    BY <1>1, <2>6 DEF Ended
  <2> QED BY <1>2, <2>1, <2>2, <2>3, <2>4, <2>5, <2>6 DEF Next
<1> QED BY <1>1, <1>2

(***************************************************************************)
(* The invariant: every activation was called with what its parser needs,   *)
(* and has called its kid with what it has gained besides.                  *)
(***************************************************************************)

\* The variables v of a rule contain what k says.
Has(v, k) == /\ \A n \in k.names : v.values[n] # None
             /\ k.strings <= Len(v.strings)

\* w is v with, at least, k added.
Grows(v, w, k) == /\ \A n \in Name : v.values[n] # None \/ n \in k.names => w.values[n] # None
                  /\ Len(v.strings) + k.strings <= Len(w.strings)

\* The parser that an activation has called or is about to call.
Kid(fr) == IF IsRule(fr) THEN fr.body ELSE fr.parser.kids[fr.i]

\* fr is an activation of what the one below it has called.
Runs(fr, p) == IF IsRule(fr) THEN p.kind = "identifier" ELSE fr.parser = p

\* What the kids before the running one have added for sure.
Gained(t, fr) ==
    IF IsRule(fr) THEN Nothing
    ELSE IF fr.parser.kind = "sequence" THEN t.gains[fr.parser][fr.i]
    ELSE IF fr.parser.kind = "plus" /\ fr.ret # None THEN t.gives[fr.parser.kids[1]]
    ELSE Nothing

\* An activation, while g is the grammar.
FrameScoped(t, g, fr) ==
    LET p == IF IsRule(fr) THEN fr.body ELSE fr.parser IN
    /\ p \in t.parsers[g]
    /\ Has(fr.start.variables, t.needs[p])
    /\ ~IsRule(fr) /\ p.kind \notin {"choice", "sequence"} => fr.i = 1

\* fr may have called its kid with the variables v.
CallScoped(t, fr, v) == Grows(fr.start.variables, v, Gained(t, fr))

\* The variables with which an activation was called.
CalledWith(fr) == IF IsRule(fr) THEN fr.saved ELSE fr.start.variables

\* The activations s, whose last one has called its kid with the variables v.
StackScoped(t, g, s, v) ==
    /\ \A i \in 1..Len(s) : FrameScoped(t, g, s[i])
    /\ \A i \in 1..(Len(s) - 1) :
         Runs(s[i + 1], Kid(s[i])) /\ CallScoped(t, s[i], CalledWith(s[i + 1]))
    /\ s # <<>> => CallScoped(t, s[Len(s)], v)

\* The variables with which the running parser was called.
CallVariables == IF control.op = "return" THEN control.from.variables ELSE state.variables

\* What a success returns with is what the parser's entry promises.
ScopeInv(t) ==
    /\ StackScoped(t, grammar, stack, CallVariables)
    /\ control.op = "parse" => stack # <<>> /\ control.parser = Kid(Top)
    /\ control.op = "return" /\ control.res # None /\ stack # <<>> =>
         Grows(control.from.variables, state.variables, t.gives[Kid(Top)])
    /\ NeverAborts

(***************************************************************************)
(* Scopes.                                                                  *)
(***************************************************************************)

\* The entries of a table.
LEMMA TableTypes ==
  ASSUME NEW t, Scoping(t)
  PROVE  /\ Nothing \in Scope /\ OneString \in Scope
         /\ \A n \in Name : OneName(n) \in Scope
         /\ \A g \in Grammar : RuleScope(g) \in Scope
         /\ \A p \in Parser : /\ t.needs[p] \in Scope /\ t.gives[p] \in Scope
                              /\ t.gains[p] \in Seq(Scope)
         /\ \A g \in Grammar : t.parsers[g] \subseteq Parser
<1>1. t \in ScopeTable
  BY DEF Scoping
<1>2. /\ t.needs \in [Parser -> Scope] /\ t.gives \in [Parser -> Scope]
      /\ t.gains \in [Parser -> Seq(Scope)] /\ t.parsers \in [Grammar -> SUBSET Parser]
  BY <1>1 DEF ScopeTable
<1>3. Nothing \in Scope /\ OneString \in Scope /\ (\A n \in Name : OneName(n) \in Scope)
  BY DEF Nothing, OneString, OneName, Scope
<1>4. \A g \in Grammar : RuleScope(g) \in Scope
  BY DEF RuleScope, Scope
<1> QED BY <1>2, <1>3, <1>4

\* The strings of a rule's variables can be counted.
LEMMA StringsCount ==
  ASSUME NEW v \in Variables
  PROVE  Len(v.strings) \in Nat
BY DEF Variables

\* Variables that stay as they are have gained nothing.
LEMMA GrowsNothing ==
  ASSUME NEW v \in Variables
  PROVE  Grows(v, v, Nothing)
BY StringsCount DEF Grows, Nothing

\* What is gained first stays when more is gained.
LEMMA GrowsMore ==
  ASSUME NEW v \in Variables, NEW w \in Variables, NEW x \in Variables,
         NEW a \in Scope, NEW b \in Scope, NEW k \in Scope,
         Grows(v, w, a), Grows(w, x, b), Within(k, a, b)
  PROVE  Grows(v, x, k)
<1>1. /\ Len(v.strings) \in Nat /\ Len(w.strings) \in Nat /\ Len(x.strings) \in Nat
      /\ a.strings \in Nat /\ b.strings \in Nat /\ k.strings \in Nat
  BY StringsCount DEF Scope
<1>2. Len(v.strings) + k.strings <= Len(x.strings)
  BY <1>1 DEF Grows, Within
<1>3. k.names \subseteq a.names \cup b.names
  BY DEF Within
<1>4. ASSUME NEW n \in Name, v.values[n] # None \/ n \in k.names PROVE x.values[n] # None
  BY <1>3, <1>4 DEF Grows
<1> QED BY <1>2, <1>4 DEF Grows

\* Less than what is gained is gained too.
LEMMA GrowsLess ==
  ASSUME NEW v \in Variables, NEW w \in Variables, NEW a \in Scope, NEW k \in Scope,
         Grows(v, w, a), Within(k, a, Nothing)
  PROVE  Grows(v, w, k)
<1>1. Grows(w, w, Nothing) /\ Nothing \in Scope
  BY GrowsNothing DEF Nothing, Scope
<1> QED BY <1>1, GrowsMore

\* What is needed is there when it was there or has been gained.
LEMMA HasMore ==
  ASSUME NEW v \in Variables, NEW w \in Variables,
         NEW a \in Scope, NEW b \in Scope, NEW k \in Scope,
         Has(v, a), Grows(v, w, b), Within(k, a, b)
  PROVE  Has(w, k)
<1>1. /\ Len(v.strings) \in Nat /\ Len(w.strings) \in Nat
      /\ a.strings \in Nat /\ b.strings \in Nat /\ k.strings \in Nat
  BY StringsCount DEF Scope
<1>2. k.strings <= Len(w.strings)
  BY <1>1 DEF Has, Grows, Within
<1>3. k.names \subseteq a.names \cup b.names /\ k.names \subseteq Name
  BY DEF Within, Scope
<1>4. ASSUME NEW n \in k.names PROVE w.values[n] # None
  BY <1>3, <1>4 DEF Has, Grows
<1> QED BY <1>2, <1>4 DEF Has

\* A rule finds the global values and string #0.
LEMMA RuleFinds ==
  ASSUME NEW g \in Grammar, NEW pos \in Nat
  PROVE  Has(Start(g, pos).variables, RuleScope(g))
<1>1. /\ Start(g, pos).variables.values = Globals[g]
      /\ Start(g, pos).variables.strings = <<<<pos, 0>>>>
  BY DEF Start
<1>2. Len(<<<<pos, 0>>>>) = 1
  OBVIOUS
<1>3. \A n \in RuleScope(g).names : Globals[g][n] # None
  BY DEF RuleScope
<1>4. RuleScope(g).strings = 1
  BY DEF RuleScope
<1> QED BY <1>1, <1>2, <1>3, <1>4 DEF Has

(***************************************************************************)
(* Calls and returns.                                                       *)
(***************************************************************************)

\* A call: the new activation goes on the stack.
LEMMA PushScoped ==
  ASSUME NEW t, NEW g, NEW s \in Seq(ParserFrame \cup RuleFrame), NEW v, NEW w,
         NEW fr \in ParserFrame \cup RuleFrame, StackScoped(t, g, s, v),
         s # <<>> => Runs(fr, Kid(s[Len(s)])), CalledWith(fr) = v,
         FrameScoped(t, g, fr), CallScoped(t, fr, w)
  PROVE  StackScoped(t, g, Append(s, fr), w)
<1> DEFINE u == Append(s, fr)
<1>0. PICK F : F = ParserFrame \cup RuleFrame
  OBVIOUS
<1>1. /\ u \in Seq(F) /\ Len(u) = Len(s) + 1 /\ u # <<>> /\ Len(s) \in Nat
      /\ (\A i \in 1..Len(s) : u[i] = s[i]) /\ u[Len(s) + 1] = fr
  BY <1>0
<1> HIDE DEF u
<1>2. \A i \in 1..Len(u) : FrameScoped(t, g, u[i])
  BY <1>1 DEF StackScoped
<1>3. ASSUME NEW i \in 1..(Len(u) - 1)
      PROVE  Runs(u[i + 1], Kid(u[i])) /\ CallScoped(t, u[i], CalledWith(u[i + 1]))
  <2>1. CASE i = Len(s)
    <3>1. s # <<>> /\ u[i] = s[Len(s)] /\ u[i + 1] = fr
      BY <1>1, <2>1
    <3> QED BY <3>1 DEF StackScoped
  <2>2. CASE i # Len(s)
    <3>1. i \in 1..(Len(s) - 1) /\ u[i] = s[i] /\ u[i + 1] = s[i + 1]
      BY <1>1, <2>2
    <3> QED BY <3>1 DEF StackScoped
  <2> QED BY <2>1, <2>2
<1>4. CallScoped(t, u[Len(u)], w)
  BY <1>1
<1> QED BY <1>2, <1>3, <1>4 DEF StackScoped, u

\* A return: the last activation leaves the stack.
LEMMA PopScoped ==
  ASSUME NEW t, NEW g, NEW s \in Seq(ParserFrame \cup RuleFrame), NEW v,
         StackScoped(t, g, s, v), s # <<>>,
         NEW u, u = SubSeq(s, 1, Len(s) - 1)
  PROVE  /\ StackScoped(t, g, u, CalledWith(s[Len(s)]))
         /\ u # <<>> => Runs(s[Len(s)], Kid(u[Len(u)]))
<1>1. u \in Seq(ParserFrame \cup RuleFrame) /\ Len(u) = Len(s) - 1
      /\ \A i \in 1..(Len(s) - 1) : u[i] = s[i]
  BY Shorter
<1>2. \A i \in 1..Len(u) : FrameScoped(t, g, u[i])
  BY <1>1 DEF StackScoped
<1>3. ASSUME NEW i \in 1..(Len(u) - 1)
      PROVE  Runs(u[i + 1], Kid(u[i])) /\ CallScoped(t, u[i], CalledWith(u[i + 1]))
  <2>1. i \in 1..(Len(s) - 1) /\ u[i] = s[i] /\ u[i + 1] = s[i + 1]
    BY <1>1
  <2> QED BY <2>1 DEF StackScoped
<1>4. ASSUME u # <<>>
      PROVE  /\ Runs(s[Len(s)], Kid(u[Len(u)]))
             /\ CallScoped(t, u[Len(u)], CalledWith(s[Len(s)]))
  <2>1. Len(u) \in 1..(Len(s) - 1) /\ u[Len(u)] = s[Len(u)] /\ Len(u) + 1 = Len(s)
    BY <1>1, <1>4, SMTT(30)
  <2> QED BY <2>1 DEF StackScoped
<1> QED BY <1>2, <1>3, <1>4 DEF StackScoped

\* A further call by the last activation.
LEMMA RetopScoped ==
  ASSUME NEW t, NEW g, NEW s \in Seq(ParserFrame \cup RuleFrame), NEW v, NEW w,
         NEW fr \in ParserFrame \cup RuleFrame, StackScoped(t, g, s, v), s # <<>>,
         CalledWith(fr) = CalledWith(s[Len(s)]),
         \A p : Runs(s[Len(s)], p) => Runs(fr, p),
         FrameScoped(t, g, fr), CallScoped(t, fr, w)
  PROVE  StackScoped(t, g, [s EXCEPT ![Len(s)] = fr], w)
<1> DEFINE u == [s EXCEPT ![Len(s)] = fr]
<1>1. u \in Seq(ParserFrame \cup RuleFrame) /\ Len(u) = Len(s) /\ Len(s) \in Nat \ {0}
      /\ (\A i \in 1..(Len(s) - 1) : u[i] = s[i]) /\ u[Len(s)] = fr
  OBVIOUS
<1> HIDE DEF u
<1>2. \A i \in 1..Len(u) : FrameScoped(t, g, u[i])
  BY <1>1 DEF StackScoped
<1>3. ASSUME NEW i \in 1..(Len(u) - 1)
      PROVE  Runs(u[i + 1], Kid(u[i])) /\ CallScoped(t, u[i], CalledWith(u[i + 1]))
  <2>1. CASE i + 1 = Len(s)
    <3>1. i \in 1..(Len(s) - 1) /\ u[i] = s[i] /\ u[i + 1] = fr
      BY <1>1, <2>1
    <3> QED BY <3>1, <2>1 DEF StackScoped
  <2>2. CASE i + 1 # Len(s)
    <3>1. i \in 1..(Len(s) - 1) /\ u[i] = s[i] /\ u[i + 1] = s[i + 1]
      BY <1>1, <2>2
    <3> QED BY <3>1 DEF StackScoped
  <2> QED BY <2>1, <2>2
<1>4. CallScoped(t, u[Len(u)], w)
  BY <1>1
<1> QED BY <1>2, <1>3, <1>4 DEF StackScoped, u

(***************************************************************************)
(* The steps, as the scoping sees them.                                     *)
(***************************************************************************)

\* The kid that an activation calls, and what it finds there.
LEMMA KidScoped ==
  ASSUME NEW t, Scoping(t), NEW g \in Grammar, NEW n \in Nat, NEW fr, FrameOK(fr, n),
         NEW v \in Variables, FrameScoped(t, g, fr), CallScoped(t, fr, v)
  PROVE  /\ Kid(fr) \in t.parsers[g] /\ Kid(fr) \in Parser
         /\ Gained(t, fr) \in Scope
         /\ Has(v, t.needs[Kid(fr)])
<1>1. fr \in ParserFrame \cup RuleFrame /\ fr.start.variables \in Variables
  BY FrameFields DEF FrameOK, State
<1>2. CASE IsRule(fr)
  <2>1. Kid(fr) = fr.body /\ fr.body \in Parser /\ Gained(t, fr) = Nothing
    BY <1>1, <1>2, FrameFields DEF Kid, Gained
  <2>2. fr.body \in t.parsers[g] /\ Has(fr.start.variables, t.needs[fr.body])
    BY <1>2 DEF FrameScoped
  <2>3. Grows(fr.start.variables, v, Nothing)
    BY <2>1 DEF CallScoped
  <2>4. t.needs[fr.body] \in Scope /\ Nothing \in Scope
    BY <2>1, TableTypes
  <2>5. Within(t.needs[fr.body], t.needs[fr.body], Nothing)
    BY <2>4 DEF Within, Nothing, Scope
  <2> QED BY <1>1, <2>1, <2>2, <2>3, <2>4, <2>5, HasMore
<1>3. CASE ~IsRule(fr)
  <2> DEFINE p == fr.parser
  <2> DEFINE k == p.kids[fr.i]
  <2>1. p \in Parser /\ p.kind \in Compound /\ fr.i \in 1..Len(p.kids) /\ Kid(fr) = k
    BY <1>1, <1>3, FrameFields DEF Kid, FrameOK
  <2>2. p.kids \in Seq(Parser) /\ p.kids # <<>>
    BY <2>1, ParserAssumption
  <2>3. k \in Parser /\ fr.i \in DOMAIN p.kids /\ p.kids[1] \in Parser
    BY <2>1, <2>2
  <2>4. p \in t.parsers[g] /\ Has(fr.start.variables, t.needs[p])
    BY <1>3 DEF FrameScoped
  <2>5. k \in t.parsers[g]
    BY <2>1, <2>3, <2>4 DEF Scoping, RulesCovered
  <2>6. KidsCovered(t, p)
    BY <2>1 DEF Scoping
  <2>7. /\ t.needs[p] \in Scope /\ t.needs[k] \in Scope /\ t.gains[p] \in Seq(Scope)
        /\ t.gives[p.kids[1]] \in Scope /\ Nothing \in Scope
    BY <2>1, <2>3, TableTypes
  <2>8. CASE p.kind = "sequence"
    <3>1. Len(t.gains[p]) = Len(p.kids) + 1 /\ Within(t.needs[k], t.needs[p], t.gains[p][fr.i])
      BY <2>3, <2>6, <2>8 DEF KidsCovered
    <3>2. t.gains[p][fr.i] \in Scope
      BY <2>1, <2>2, <2>7, <3>1
    <3>3. Gained(t, fr) = t.gains[p][fr.i]
      BY <1>3, <2>8 DEF Gained
    <3> HIDE DEF p, k
    <3> QED BY <1>1, <2>1, <2>3, <2>4, <2>5, <2>7, <3>1, <3>2, <3>3, HasMore DEF CallScoped
  <2>9. CASE p.kind # "sequence"
    <3>1. Within(t.needs[k], t.needs[p], Nothing)
      BY <2>1, <2>3, <2>6, <2>9 DEF KidsCovered
    <3>2. Gained(t, fr) \in {Nothing, t.gives[p.kids[1]]}
      BY <1>3, <2>9 DEF Gained
    <3>3. Gained(t, fr) \in Scope
      BY <2>7, <3>2
    <3> HIDE DEF p, k
    <3>4. Within(t.needs[k], t.needs[p], Gained(t, fr))
      BY <2>7, <3>1, <3>3 DEF Within, Nothing, Scope
    <3> QED BY <1>1, <2>1, <2>3, <2>4, <2>5, <2>7, <3>3, <3>4, HasMore DEF CallScoped
  <2> QED BY <2>8, <2>9
<1> QED BY <1>2, <1>3

\* What is known of the parser that is called.
LEMMA CallFacts ==
  ASSUME NEW t, Scoping(t), ParserInv, ScopeInv(t), control.op = "parse"
  PROVE  /\ control.parser \in t.parsers[grammar] /\ control.parser \in Parser
         /\ control.parser = Kid(Top) /\ stack # <<>>
         /\ Has(state.variables, t.needs[control.parser])
<1>1. stack # <<>> /\ control.parser = Kid(Top) /\ CallVariables = state.variables
  BY DEF ScopeInv, CallVariables
<1>2. grammar \in Grammar /\ Len(input) \in Nat /\ state.variables \in Variables
  BY NowFacts DEF ParserInv, TypeOK
<1>3. FrameOK(Top, Len(input)) /\ Len(stack) \in 1..Len(stack)
  BY <1>1, TopFacts
<1>4. FrameScoped(t, grammar, Top) /\ CallScoped(t, Top, state.variables)
  BY <1>1, <1>3 DEF ScopeInv, StackScoped, Top
<1> QED BY <1>1, <1>2, <1>3, <1>4, KidScoped

\* A leaf returns in a state whose variables are those it was called with.
LEMMA LeafScope ==
  ASSUME NEW t, Scoping(t), ParserInv, ScopeInv(t), control.op = "parse",
         control.parser.kind \in Leaf, NEW res, control' = Return(res, state),
         state'.variables = state.variables, phase' = phase, UNCHANGED <<grammar, stack>>
  PROVE  ScopeInv(t)'
<1>1. control'.op = "return" /\ control'.from = state
  BY DEF Return
<1>2. CallVariables' = state.variables /\ CallVariables = state.variables
  BY <1>1 DEF CallVariables
<1>3. StackScoped(t, grammar, stack, CallVariables)'
  BY <1>2 DEF ScopeInv
<1>4. control.parser = Kid(Top) /\ control.parser \in Parser
  BY CallFacts
<1>5. t.gives[Kid(Top)] = Nothing
  BY <1>4 DEF Scoping, GivesCovered
<1>6. Grows(state.variables, state'.variables, t.gives[Kid(Top)'])
  BY <1>5, NowFacts, GrowsNothing DEF Top
<1>7. NeverAborts'
  BY DEF ScopeInv, NeverAborts
<1> QED BY <1>1, <1>3, <1>6, <1>7 DEF ScopeInv

\* What is known of the activation that a kid has returned to.
LEMMA ReturnFacts ==
  ASSUME NEW t, Scoping(t), ParserInv, ScopeInv(t), control.op = "return", stack # <<>>
  PROVE  /\ FrameScoped(t, grammar, Top)
         /\ CallScoped(t, Top, control.from.variables)
         /\ Top.start.variables \in Variables /\ control.from.variables \in Variables
         /\ state.variables \in Variables
         /\ Gained(t, Top) \in Scope /\ Kid(Top) \in Parser /\ grammar \in Grammar
         /\ control.res # None =>
              Grows(control.from.variables, state.variables, t.gives[Kid(Top)])
<1>1. CallVariables = control.from.variables /\ grammar \in Grammar
  BY DEF CallVariables, ParserInv, TypeOK
<1>2. FrameOK(Top, Len(input)) /\ Len(stack) \in 1..Len(stack) /\ Len(input) \in Nat
  BY TopFacts
<1>3. FrameScoped(t, grammar, Top) /\ CallScoped(t, Top, control.from.variables)
  BY <1>1, <1>2 DEF ScopeInv, StackScoped, Top
<1>4. /\ Top.start.variables \in Variables /\ control.from.variables \in Variables
      /\ state.variables \in Variables
  BY <1>2, NowFacts, FrameFields DEF FrameOK, State
<1>5. Gained(t, Top) \in Scope /\ Kid(Top) \in Parser
  BY <1>1, <1>2, <1>3, <1>4, KidScoped
<1> QED BY <1>1, <1>3, <1>4, <1>5 DEF ScopeInv

\* What the success of a kid adds to what was gained before it.
LEMMA KidGrows ==
  ASSUME NEW t, Scoping(t), ParserInv, ScopeInv(t), control.op = "return", stack # <<>>,
         control.res # None, NEW k \in Scope, Within(k, Gained(t, Top), t.gives[Kid(Top)])
  PROVE  Grows(Top.start.variables, state.variables, k)
<1>1. t.gives[Kid(Top)] \in Scope
  BY ReturnFacts, TableTypes
<1> QED BY <1>1, ReturnFacts, GrowsMore DEF CallScoped

\* A parser returns to the activation that called it.
LEMMA FinishScope ==
  ASSUME NEW t, Scoping(t), ParserInv, ScopeInv(t),
         control.op = "return", stack # <<>>, ~IsRule(Top),
         NEW res \in Result, Finish(res), Frozen,
         res # None => Grows(Top.start.variables, state'.variables, t.gives[Top.parser])
  PROVE  ScopeInv(t)'
<1>1. /\ stack' = Pop /\ control' = Return(res, Top.start) /\ Top.start \in State
      /\ grammar' = grammar /\ phase' = phase
  BY KidFacts DEF Finish, Frozen
<1>2. control'.op = "return" /\ control'.res = res /\ control'.from = Top.start
  BY <1>1, ControlValues
<1>3. stack \in Seq(ParserFrame \cup RuleFrame) /\ CalledWith(Top) = Top.start.variables
  BY TopFacts DEF CalledWith
<1>4. /\ StackScoped(t, grammar, Pop, Top.start.variables)
      /\ Pop # <<>> => Runs(Top, Kid(Pop[Len(Pop)]))
  BY <1>3, PopScoped DEF ScopeInv, Pop, Top
<1>5. StackScoped(t, grammar, stack, CallVariables)'
  BY <1>1, <1>2, <1>4 DEF CallVariables
<1>6. stack' # <<>> => Kid(Top)' = Top.parser
  BY <1>1, <1>4 DEF Runs, Top
<1>7. NeverAborts'
  BY <1>1 DEF ScopeInv, NeverAborts
<1> QED BY <1>2, <1>5, <1>6, <1>7 DEF ScopeInv

\* The last activation calls a kid once more.
LEMMA AgainScope ==
  ASSUME NEW t, Scoping(t), ParserInv, ScopeInv(t), control.op = "return", stack # <<>>,
         NEW fr \in ParserFrame \cup RuleFrame, CalledWith(fr) = CalledWith(Top),
         IsRule(fr) <=> IsRule(Top), ~IsRule(fr) => fr.parser = Top.parser,
         FrameScoped(t, grammar, fr), CallScoped(t, fr, state'.variables),
         Kid(fr) \in Parser, stack' = SetTop(fr), control' = Parse(Kid(fr)),
         grammar' = grammar, phase' = phase
  PROVE  ScopeInv(t)'
<1>1. control'.op = "parse" /\ control'.parser = Kid(fr)
  BY ControlValues
<1>2. stack \in Seq(ParserFrame \cup RuleFrame) /\ Len(stack) \in Nat \ {0}
  BY TopFacts
<1>3. \A p : Runs(Top, p) => Runs(fr, p)
  BY DEF Runs
<1>4. StackScoped(t, grammar, SetTop(fr), state'.variables)
  BY <1>2, <1>3, RetopScoped DEF ScopeInv, SetTop, Top
<1>5. StackScoped(t, grammar, stack, CallVariables)'
  BY <1>1, <1>4 DEF CallVariables
<1>6. stack' # <<>> /\ Top' = fr
  BY <1>2 DEF SetTop, Top
<1>7. NeverAborts'
  BY DEF ScopeInv, NeverAborts
<1> QED BY <1>1, <1>5, <1>6, <1>7 DEF ScopeInv, Kid, IsRule

\* A compound parser calls its first kid with what it has been called with.
LEMMA EnterScope ==
  ASSUME NEW t, Scoping(t), ParserInv, ScopeInv(t), Enter
  PROVE  ScopeInv(t)'
<1> DEFINE p == control.parser
<1> DEFINE fr == [parser |-> p, start |-> state, i |-> 1,
                  ret |-> IF p.kind = "star" THEN Dummy ELSE None]
<1>1. /\ control.op = "parse" /\ p \in Parser /\ p.kind \in Compound
      /\ stack' = Push(fr) /\ control' = Parse(p.kids[1])
      /\ UNCHANGED <<input, grammar, state, memo, aux, phase, units>>
  BY NowFacts DEF Enter
<1>2. p.kids \in Seq(Parser) /\ p.kids # <<>>
  BY <1>1, ParserAssumption
<1>3. p.kids[1] \in Parser /\ 1 \in DOMAIN p.kids
  BY <1>2
<1>4. /\ p \in t.parsers[grammar] /\ p = Kid(Top) /\ stack # <<>>
      /\ Has(state.variables, t.needs[p])
  BY <1>1, CallFacts
<1> HIDE DEF p
<1>5. fr \in ParserFrame /\ ~IsRule(fr)
  BY <1>1, DummyValue, NowFacts, FrameKinds DEF ParserFrame, Result
<1>6. /\ fr.parser = p /\ fr.start = state /\ fr.i = 1
      /\ p.kind # "star" => fr.ret = None
  OBVIOUS
<1> HIDE DEF fr
<1>7. FrameScoped(t, grammar, fr)
  BY <1>4, <1>5, <1>6 DEF FrameScoped
<1>8. Gained(t, fr) = Nothing
  <2>1. CASE p.kind = "sequence"
    <3>1. t.gains[p][1] = Nothing
      BY <1>1, <2>1 DEF Scoping, KidsCovered
    <3> QED BY <1>5, <1>6, <2>1, <3>1 DEF Gained
  <2>2. CASE p.kind # "sequence"
    BY <1>5, <1>6, <2>2 DEF Gained
  <2> QED BY <2>1, <2>2
<1>9. CallScoped(t, fr, state.variables) /\ CalledWith(fr) = state.variables
  BY <1>5, <1>6, <1>8, NowFacts, GrowsNothing DEF CallScoped, CalledWith
<1>10. Runs(fr, Kid(stack[Len(stack)]))
  BY <1>4, <1>5, <1>6 DEF Runs, Top
<1>11. stack \in Seq(ParserFrame \cup RuleFrame) /\ StackScoped(t, grammar, stack, state.variables)
  BY <1>1 DEF ParserInv, TypeOK, ScopeInv, CallVariables
<1>12. StackScoped(t, grammar, stack', state.variables)
  BY <1>1, <1>5, <1>7, <1>9, <1>10, <1>11, PushScoped DEF Push
<1>13. control'.op = "parse" /\ control'.parser = p.kids[1]
  BY <1>1, <1>3, ControlValues
<1>14. StackScoped(t, grammar, stack, CallVariables)'
  BY <1>1, <1>12, <1>13 DEF CallVariables
<1>15. stack' # <<>> /\ Top' = fr
  BY <1>1, <1>5, <1>11 DEF Push, Top
<1>16. Kid(Top)' = p.kids[1]
  BY <1>5, <1>6, <1>15 DEF Kid, IsRule
<1>17. NeverAborts'
  BY <1>1 DEF ScopeInv, NeverAborts
<1> QED BY <1>13, <1>14, <1>15, <1>16, <1>17 DEF ScopeInv

\* A rule is called with the variables that its grammar gives to rules, and
\* its caller is told nothing of them.
LEMMA EnterRuleScope ==
  ASSUME NEW t, Scoping(t), ParserInv, ScopeInv(t), NEW r \in Rule, EnterRule(r),
         \/ control.op = "parse" /\ control.parser.kind = "identifier"
         \/ stack = <<>>,
         phase' # "abort", grammar' = grammar
  PROVE  ScopeInv(t)'
<1> DEFINE key == <<state.position, r>>
<1> DEFINE st == Start(grammar, state.position)
<1>1. /\ grammar \in Grammar /\ state \in State /\ state.position \in Nat
      /\ state.variables \in Variables /\ stack \in Seq(ParserFrame \cup RuleFrame)
  BY NowFacts DEF ParserInv, TypeOK, State
<1>2. stack # <<>> => /\ CallVariables = state.variables
                      /\ Kid(Top).kind = "identifier" /\ Kid(Top) \in Parser
  BY CallFacts DEF CallVariables
<1>3. StackScoped(t, grammar, stack, state.variables)
  BY <1>2 DEF ScopeInv, StackScoped
<1>4. CASE key \in DOMAIN memo
  <2>1. /\ control' = Return(memo[key].res, state) /\ stack' = stack
        /\ state' = [state EXCEPT !.position = memo[key].position]
    BY <1>4 DEF EnterRule
  <2>2. memo[key].res \in Result
    BY <1>4 DEF ParserInv, TypeOK, Entry
  <2>3. control'.op = "return" /\ control'.from = state
    BY <1>1, <2>1, <2>2, ControlValues
  <2>4. state'.variables = state.variables
    BY <1>1, <2>1 DEF State
  <2>5. StackScoped(t, grammar, stack, CallVariables)'
    BY <1>3, <2>1, <2>3 DEF CallVariables
  <2>6. stack # <<>> => t.gives[Kid(Top)] = Nothing
    BY <1>2 DEF Scoping, GivesCovered, Leaf
  <2>7. stack' # <<>> => Grows(state.variables, state'.variables, t.gives[Kid(Top)'])
    BY <1>1, <2>1, <2>4, <2>6, GrowsNothing DEF Top
  <2>8. NeverAborts'
    BY DEF NeverAborts
  <2> QED BY <2>3, <2>5, <2>7, <2>8 DEF ScopeInv
<1>5. CASE key \notin DOMAIN memo
  <2> DEFINE body == Parsers[grammar][r]
  <2> DEFINE fr == [rule |-> r, body |-> body, leftrec |-> r \in LeftRec[grammar],
                    start |-> st, saved |-> state.variables,
                    res |-> None, last |-> st.position]
  <2>1. /\ body # None /\ stack' = Push(fr) /\ state' = st /\ control' = Parse(body)
    BY <1>5 DEF EnterRule
  <2>2. body \in Parser
    BY <1>1, <2>1, GrammarAssumption
  <2>3. /\ body \in t.parsers[grammar] /\ Within(t.needs[body], RuleScope(grammar), Nothing)
    BY <1>1, <2>1 DEF Scoping, RulesCovered
  <2>4. /\ Has(st.variables, RuleScope(grammar)) /\ st.position = state.position
        /\ st \in State /\ st.variables \in Variables
    BY <1>1, RuleFinds, StartGood, NowFacts DEF Good, State
  <2> HIDE DEF body, st
  <2>5. Has(st.variables, t.needs[body])
    <3>1. /\ RuleScope(grammar) \in Scope /\ t.needs[body] \in Scope /\ Nothing \in Scope
      BY <1>1, <2>2, TableTypes
    <3> QED BY <2>3, <2>4, <3>1, GrowsNothing, HasMore
  <2>6. fr \in RuleFrame /\ IsRule(fr)
    <3>1. (r \in LeftRec[grammar]) \in BOOLEAN
      OBVIOUS
    <3> QED BY <1>1, <2>2, <2>4, <3>1, FrameKinds DEF RuleFrame, Result
  <2>7. fr.body = body /\ fr.start = st /\ fr.saved = state.variables
    OBVIOUS
  <2> HIDE DEF fr
  <2>8. FrameScoped(t, grammar, fr) /\ CalledWith(fr) = state.variables
    BY <2>3, <2>5, <2>6, <2>7 DEF FrameScoped, CalledWith
  <2>9. CallScoped(t, fr, st.variables)
    BY <2>4, <2>6, <2>7, GrowsNothing DEF CallScoped, Gained
  <2>10. stack # <<>> => Runs(fr, Kid(stack[Len(stack)]))
    BY <1>2, <2>6 DEF Runs, Top
  <2>11. StackScoped(t, grammar, stack', st.variables)
    BY <1>1, <1>3, <2>1, <2>6, <2>8, <2>9, <2>10, PushScoped DEF Push
  <2>12. control'.op = "parse" /\ control'.parser = body
    BY <2>1, <2>2, ControlValues
  <2>13. StackScoped(t, grammar, stack, CallVariables)'
    BY <2>1, <2>11, <2>12 DEF CallVariables
  <2>14. stack' # <<>> /\ Top' = fr
    BY <1>1, <2>1, <2>6 DEF Push, Top
  <2>15. Kid(Top)' = body
    BY <2>6, <2>7, <2>14 DEF Kid, IsRule
  <2>16. NeverAborts'
    BY DEF NeverAborts
  <2> QED BY <2>12, <2>13, <2>14, <2>15, <2>16 DEF ScopeInv
<1> QED BY <1>4, <1>5

\* The last activation as the scoping sees it when a kid has returned.
LEMMA KidScopes ==
  ASSUME NEW t, Scoping(t), ParserInv, ScopeInv(t), control.op = "return", stack # <<>>,
         ~IsRule(Top)
  PROVE  /\ Top.parser \in Parser /\ Top.parser.kids \in Seq(Parser)
         /\ Top.i \in DOMAIN Top.parser.kids /\ 1 \in DOMAIN Top.parser.kids
         /\ Kid(Top) = Top.parser.kids[Top.i]
         /\ Top.parser \in t.parsers[grammar] /\ Has(Top.start.variables, t.needs[Top.parser])
         /\ Top.parser.kind \notin {"choice", "sequence"} => Top.i = 1
         /\ Nothing \in Scope /\ t.gives[Top.parser] \in Scope /\ t.gives[Kid(Top)] \in Scope
         /\ t.gives[Top.parser.kids[1]] \in Scope
         /\ Grows(Top.start.variables, Top.start.variables, Nothing)
         /\ control.res = None => state = control.from
         /\ LeafCovered(t, Top.parser) /\ KidsCovered(t, Top.parser) /\ GivesCovered(t, Top.parser)
<1>1. /\ Top.parser \in Parser /\ Top.parser.kids \in Seq(Parser) /\ Top.parser.kids # <<>>
      /\ Top.i \in 1..Len(Top.parser.kids)
  BY KidFacts
<1>2. Top.i \in DOMAIN Top.parser.kids /\ 1 \in DOMAIN Top.parser.kids
  BY <1>1
<1>3. Kid(Top) = Top.parser.kids[Top.i] /\ Top.parser.kids[1] \in Parser
  BY <1>1 DEF Kid
<1>4. /\ Top.parser \in t.parsers[grammar] /\ Has(Top.start.variables, t.needs[Top.parser])
      /\ Top.parser.kind \notin {"choice", "sequence"} => Top.i = 1
  BY ReturnFacts DEF FrameScoped
<1>5. /\ Nothing \in Scope /\ t.gives[Top.parser] \in Scope /\ t.gives[Kid(Top)] \in Scope
      /\ t.gives[Top.parser.kids[1]] \in Scope
  BY <1>1, <1>3, ReturnFacts, TableTypes
<1>6. Grows(Top.start.variables, Top.start.variables, Nothing)
  BY ReturnFacts, GrowsNothing
<1>7. /\ LeafCovered(t, Top.parser) /\ KidsCovered(t, Top.parser) /\ GivesCovered(t, Top.parser)
  BY <1>1 DEF Scoping
<1> QED BY <1>1, <1>2, <1>3, <1>4, <1>5, <1>6, <1>7, NowFacts

\* A kid that is called later has at least what its activation has gained.
LEMMA NextKidScope ==
  ASSUME NEW t, Scoping(t), ParserInv, ScopeInv(t), control.op = "return", stack # <<>>,
         ~IsRule(Top), Top.parser.kind \in {"choice", "sequence"},
         Top.i # Len(Top.parser.kids), NextKid(Top), UNCHANGED state, Frozen,
         \A fr : fr.parser = Top.parser /\ fr.i = Top.i + 1 /\ ~IsRule(fr)
                   => Grows(Top.start.variables, state.variables, Gained(t, fr))
  PROVE  ScopeInv(t)'
<1> DEFINE fr == [Top EXCEPT !.i = @ + 1]
<1>1. /\ stack' = SetTop(fr) /\ control' = Parse(Top.parser.kids[Top.i + 1])
      /\ state' = state /\ grammar' = grammar /\ phase' = phase
  BY DEF NextKid, Frozen
<1>2. Len(Top.parser.kids) \in Nat /\ Top.i + 1 \in 1..Len(Top.parser.kids)
  BY KidFacts
<1>3. Top.parser.kids[Top.i + 1] \in Parser
  BY <1>2, KidFacts
<1>4. /\ fr \in ParserFrame /\ fr.parser = Top.parser /\ fr.start = Top.start
      /\ fr.i = Top.i + 1 /\ fr.ret = Top.ret
  BY <1>2, KidFacts DEF ParserFrame
<1> HIDE DEF fr
<1>5. ~IsRule(fr)
  BY <1>4, FrameKinds
<1>6. Kid(fr) = Top.parser.kids[Top.i + 1] /\ CalledWith(fr) = CalledWith(Top)
  BY <1>4, <1>5 DEF Kid, CalledWith
<1>7. FrameScoped(t, grammar, fr)
  BY <1>4, <1>5, KidScopes DEF FrameScoped
<1>8. CallScoped(t, fr, state'.variables)
  BY <1>1, <1>4, <1>5 DEF CallScoped
<1> QED BY <1>1, <1>3, <1>4, <1>5, <1>6, <1>7, <1>8, AgainScope

\* A choice gives what each of its kids gives.
LEMMA ChoiceScope ==
  ASSUME NEW t, Scoping(t), ParserInv, ScopeInv(t), ChoiceReturn
  PROVE  ScopeInv(t)'
<1>1. /\ control.op = "return" /\ stack # <<>> /\ ~IsRule(Top)
      /\ Top.parser.kind = "choice" /\ state' = state /\ Frozen
      /\ control.res \in Result
  BY NowFacts DEF ChoiceReturn, Returns
<1>2. Gained(t, Top) = Nothing
  BY <1>1 DEF Gained
<1>3. CASE control.res # None \/ Top.i = Len(Top.parser.kids)
  <2>1. Finish(control.res)
    BY <1>3 DEF ChoiceReturn
  <2>2. ASSUME control.res # None
        PROVE  Grows(Top.start.variables, state'.variables, t.gives[Top.parser])
    <3>1. Within(t.gives[Top.parser], t.gives[Kid(Top)], Nothing)
      BY <1>1, KidScopes DEF GivesCovered
    <3>2. Within(t.gives[Top.parser], Nothing, t.gives[Kid(Top)])
      BY <1>1, <3>1, KidScopes DEF Within, Nothing, Scope
    <3> QED BY <1>1, <1>2, <2>2, <3>2, KidScopes, KidGrows
  <2> QED BY <1>1, <2>1, <2>2, FinishScope
<1>4. CASE control.res = None /\ Top.i # Len(Top.parser.kids)
  <2>1. NextKid(Top)
    BY <1>4 DEF ChoiceReturn
  <2>2. Grows(Top.start.variables, state.variables, Nothing)
    BY <1>1, <1>2, <1>4, KidScopes, ReturnFacts DEF CallScoped
  <2>3. \A fr : fr.parser = Top.parser /\ fr.i = Top.i + 1 /\ ~IsRule(fr)
                  => Grows(Top.start.variables, state.variables, Gained(t, fr))
    BY <1>1, <2>2 DEF Gained
  <2> QED BY <1>1, <1>4, <2>1, <2>3, NextKidScope
<1> QED BY <1>3, <1>4

\* A sequence gives what all of its kids give, one after the other.
LEMMA SequenceScope ==
  ASSUME NEW t, Scoping(t), ParserInv, ScopeInv(t), SequenceReturn
  PROVE  ScopeInv(t)'
<1> DEFINE p == Top.parser
<1> DEFINE more == t.gains[p][Top.i + 1]
<1>1. /\ control.op = "return" /\ stack # <<>> /\ ~IsRule(Top)
      /\ p.kind = "sequence" /\ Frozen /\ control.res \in Result
  BY NowFacts DEF SequenceReturn, Returns
<1>2. CASE control.res = None
  <2>1. Finish(None) /\ None \in Result
    BY <1>2 DEF SequenceReturn, Result
  <2> QED BY <1>1, <2>1, FinishScope
<1>3. CASE control.res # None
  <2>1. Top.i \in 1..Len(p.kids) /\ Len(p.kids) \in Nat
    BY <1>1, KidFacts
  <2>2. /\ Len(t.gains[p]) = Len(p.kids) + 1 /\ t.gains[p] \in Seq(Scope)
        /\ Within(more, t.gains[p][Top.i], t.gives[Kid(Top)])
    BY <1>1, KidScopes, TableTypes DEF KidsCovered
  <2>3. more \in Scope
    BY <2>1, <2>2
  <2>4. Gained(t, Top) = t.gains[p][Top.i]
    BY <1>1 DEF Gained
  <2>5. Grows(Top.start.variables, state.variables, more)
    BY <1>1, <1>3, <2>2, <2>3, <2>4, KidGrows
  <2>6. CASE Top.i = Len(p.kids)
    <3>1. Finish(control.res) /\ state' = state
      BY <1>3, <2>6 DEF SequenceReturn
    <3>2. Within(t.gives[p], more, Nothing)
      BY <1>1, <2>6, KidScopes DEF GivesCovered
    <3>3. Grows(Top.start.variables, state'.variables, t.gives[p])
      BY <1>1, <2>3, <2>5, <3>1, <3>2, KidScopes, ReturnFacts, GrowsLess
    <3> QED BY <1>1, <3>1, <3>3, FinishScope
  <2>7. CASE Top.i # Len(p.kids)
    <3>1. NextKid(Top) /\ UNCHANGED state
      BY <1>3, <2>7 DEF SequenceReturn
    <3>2. \A fr : fr.parser = Top.parser /\ fr.i = Top.i + 1 /\ ~IsRule(fr)
                    => Grows(Top.start.variables, state.variables, Gained(t, fr))
      BY <1>1, <2>5 DEF Gained
    <3> QED BY <1>1, <2>7, <3>1, <3>2, NextKidScope
  <2> QED BY <2>6, <2>7
<1> QED BY <1>2, <1>3

\* A lookahead gives nothing: what its kid has bound is forgotten.
LEMMA LookaheadScope ==
  ASSUME NEW t, Scoping(t), ParserInv, ScopeInv(t), AndReturn \/ NotReturn
  PROVE  ScopeInv(t)'
<1>1. /\ control.op = "return" /\ stack # <<>> /\ ~IsRule(Top) /\ Frozen
      /\ state' = Top.start /\ Top.parser.kind \in {"and", "not"}
  BY DEF AndReturn, NotReturn, Returns
<1>2. PICK res \in Result : Finish(res)
  BY NowFacts, DummyValue, <1>1 DEF AndReturn, NotReturn, Result
<1>3. t.gives[Top.parser] = Nothing
  BY <1>1, KidScopes DEF GivesCovered
<1>4. Grows(Top.start.variables, state'.variables, t.gives[Top.parser])
  BY <1>1, <1>3, KidScopes
<1> QED BY <1>1, <1>2, <1>4, FinishScope

\* An option gives nothing: its kid may have failed.
LEMMA QuestionScope ==
  ASSUME NEW t, Scoping(t), ParserInv, ScopeInv(t), QuestionReturn
  PROVE  ScopeInv(t)'
<1> DEFINE res == IF control.res = None THEN Dummy ELSE control.res
<1>1. /\ control.op = "return" /\ stack # <<>> /\ ~IsRule(Top) /\ Frozen
      /\ state' = state /\ Finish(res) /\ Top.parser.kind = "question"
  BY DEF QuestionReturn, Returns
<1>2. res \in Result
  BY <1>1, NowFacts, DummyValue DEF Result
<1> HIDE DEF res
<1>3. t.gives[Top.parser] = Nothing /\ Gained(t, Top) = Nothing
  BY <1>1, KidScopes DEF GivesCovered, Gained
<1>4. Grows(Top.start.variables, state.variables, Nothing)
  <2>1. CASE control.res = None
    BY <1>1, <1>3, <2>1, KidScopes, ReturnFacts DEF CallScoped
  <2>2. CASE control.res # None
    <3>1. Within(Nothing, Nothing, t.gives[Kid(Top)])
      BY <1>1, KidScopes DEF Within, Nothing, Scope
    <3> QED BY <1>1, <1>3, <2>2, <3>1, KidScopes, KidGrows
  <2> QED BY <2>1, <2>2
<1> QED BY <1>1, <1>2, <1>3, <1>4, FinishScope

\* A star gives nothing, a plus what its kid has given at least once.
LEMMA RepeatScope ==
  ASSUME NEW t, Scoping(t), ParserInv, ScopeInv(t), RepeatReturn
  PROVE  ScopeInv(t)'
<1> DEFINE kid == Top.parser.kids[1]
<1>1. /\ control.op = "return" /\ stack # <<>> /\ ~IsRule(Top) /\ Frozen
      /\ state' = state /\ Top.parser.kind \in {"star", "plus"}
  BY DEF RepeatReturn, Returns
<1>2. Kid(Top) = kid /\ kid \in Parser
  BY <1>1, KidScopes, ReturnFacts
<1>3. CASE control.res = None
  <2>1. Finish(Top.ret) /\ Top.ret \in Result
    BY <1>1, <1>3, KidFacts DEF RepeatReturn
  <2>2. Grows(Top.start.variables, state.variables, Gained(t, Top))
    BY <1>1, <1>3, KidScopes, ReturnFacts DEF CallScoped
  <2>3. ASSUME Top.ret # None
        PROVE  Within(t.gives[Top.parser], Gained(t, Top), Nothing)
    <3>1. CASE Top.parser.kind = "star"
      <4>1. t.gives[Top.parser] = Nothing /\ Gained(t, Top) = Nothing
        BY <1>1, <3>1, KidScopes DEF GivesCovered, Gained
      <4> QED BY <4>1 DEF Within, Nothing
    <3>2. CASE Top.parser.kind = "plus"
      <4>1. Gained(t, Top) = t.gives[kid]
        BY <1>1, <2>3, <3>2 DEF Gained
      <4> QED BY <1>1, <3>2, <4>1, KidScopes DEF GivesCovered
    <3> QED BY <1>1, <3>1, <3>2
  <2>4. Top.ret # None => Grows(Top.start.variables, state'.variables, t.gives[Top.parser])
    BY <1>1, <2>2, <2>3, KidScopes, ReturnFacts, GrowsLess
  <2> QED BY <1>1, <2>1, <2>4, FinishScope
<1>4. CASE control.res # None
  <2> DEFINE fr == [Top EXCEPT !.ret = control.res]
  <2>1. stack' = SetTop(fr) /\ control' = Parse(kid)
    BY <1>4 DEF RepeatReturn
  <2>2. /\ fr \in ParserFrame /\ fr.parser = Top.parser /\ fr.start = Top.start
        /\ fr.i = Top.i /\ fr.ret = control.res
    BY <1>1, KidFacts, NowFacts DEF ParserFrame
  <2> HIDE DEF fr
  <2>3. ~IsRule(fr)
    BY <2>2, FrameKinds
  <2>4. Kid(fr) = kid /\ CalledWith(fr) = CalledWith(Top)
    BY <1>1, <1>2, <2>2, <2>3 DEF Kid, CalledWith
  <2>5. FrameScoped(t, grammar, fr)
    BY <1>1, <2>2, <2>3, KidScopes DEF FrameScoped
  <2>6. Gained(t, fr) = IF Top.parser.kind = "plus" THEN t.gives[kid] ELSE Nothing
    BY <1>1, <1>4, <2>2, <2>3 DEF Gained
  <2>7. Gained(t, fr) \in Scope /\ Within(Gained(t, fr), Gained(t, Top), t.gives[Kid(Top)])
    BY <1>1, <1>2, <2>6, KidScopes, ReturnFacts DEF Within, Nothing, Scope
  <2>8. CallScoped(t, fr, state'.variables)
    BY <1>1, <1>4, <2>2, <2>7, KidGrows DEF CallScoped
  <2>9. grammar' = grammar /\ phase' = phase
    BY <1>1 DEF Frozen
  <2> QED BY <1>1, <1>2, <2>1, <2>2, <2>3, <2>4, <2>5, <2>8, <2>9, AgainScope
<1> QED BY <1>3, <1>4

\* A caught value gives its variable besides what the kid gives.
LEMMA CatchVariableScope ==
  ASSUME NEW t, Scoping(t), ParserInv, ScopeInv(t), CatchVariableReturn
  PROVE  ScopeInv(t)'
<1> DEFINE name == Top.parser.name
<1>1. /\ control.op = "return" /\ stack # <<>> /\ ~IsRule(Top) /\ Frozen
      /\ Top.parser.kind = "variable" /\ Finish(control.res) /\ control.res \in Result
      /\ state' = IF control.res = None THEN state
                  ELSE [state EXCEPT !.variables.values[name] = control.res]
  BY NowFacts DEF CatchVariableReturn, Returns
<1>2. ASSUME control.res # None
      PROVE  Grows(Top.start.variables, state'.variables, t.gives[Top.parser])
  <2>1. PICK v : v = state.variables
    OBVIOUS
  <2>2. PICK w : w = [v EXCEPT !.values[name] = control.res]
    OBVIOUS
  <2>3. name \in Name /\ v \in Variables /\ Top.start.variables \in Variables
    BY <1>1, <2>1, KidScopes, ReturnFacts, ParserAssumption
  <2>4. v.values \in Bindings /\ v.strings \in Seq(Nat \X Nat)
    BY <2>3 DEF Variables
  <2>5. /\ w \in Variables /\ w.strings = v.strings
        /\ w.values = [v.values EXCEPT ![name] = control.res]
    BY <1>1, <2>2, <2>3, <2>4 DEF Variables, Bindings
  <2>6. /\ w.values[name] = control.res
        /\ \A n \in Name : n # name => w.values[n] = v.values[n]
    BY <2>3, <2>4, <2>5 DEF Bindings
  <2>7. state'.variables = w
    <3>1. state \in State
      BY NowFacts
    <3>2. state' = [state EXCEPT !.variables.values[name] = control.res]
      BY <1>1, <1>2
    <3> QED BY <2>1, <2>2, <3>1, <3>2 DEF State
  <2>8. Grows(v, w, OneName(name))
    BY <1>2, <2>3, <2>5, <2>6, StringsCount DEF Grows, OneName
  <2>9. Grows(Top.start.variables, v, t.gives[Kid(Top)])
    <3>1. Gained(t, Top) = Nothing
      BY <1>1 DEF Gained
    <3>2. Within(t.gives[Kid(Top)], Nothing, t.gives[Kid(Top)])
      BY <1>1, KidScopes DEF Within, Nothing, Scope
    <3> QED BY <1>1, <1>2, <2>1, <3>1, <3>2, KidScopes, KidGrows
  <2>10. Within(t.gives[Top.parser], t.gives[Kid(Top)], OneName(name))
    BY <1>1, KidScopes DEF GivesCovered
  <2>11. OneName(name) \in Scope
    BY <2>3, TableTypes
  <2> QED BY <1>1, <2>3, <2>5, <2>7, <2>8, <2>9, <2>10, <2>11, KidScopes, GrowsMore
<1> QED BY <1>1, <1>2, FinishScope

\* A caught string is one more.
LEMMA CatchStringScope ==
  ASSUME NEW t, Scoping(t), ParserInv, ScopeInv(t), CatchStringReturn
  PROVE  ScopeInv(t)'
<1> DEFINE span == <<Top.start.position, state.position>>
<1>1. /\ control.op = "return" /\ stack # <<>> /\ ~IsRule(Top) /\ Frozen
      /\ Top.parser.kind = "string" /\ Finish(control.res) /\ control.res \in Result
      /\ state' = IF control.res = None THEN state
                  ELSE [state EXCEPT !.variables.strings = Append(@, span)]
  BY NowFacts DEF CatchStringReturn, Returns
<1>2. ASSUME control.res # None
      PROVE  Grows(Top.start.variables, state'.variables, t.gives[Top.parser])
  <2>1. PICK v : v = state.variables
    OBVIOUS
  <2>2. PICK w : w = [v EXCEPT !.strings = Append(@, span)]
    OBVIOUS
  <2>3. v \in Variables /\ Top.start.variables \in Variables /\ span \in Nat \X Nat
    BY <1>1, <2>1, KidFacts, NowFacts, ReturnFacts DEF State
  <2>4. v.values \in Bindings /\ v.strings \in Seq(Nat \X Nat)
    BY <2>3 DEF Variables
  <2> HIDE DEF span
  <2>5. Append(v.strings, span) \in Seq(Nat \X Nat) /\ Len(Append(v.strings, span)) = Len(v.strings) + 1
    BY <2>3, <2>4
  <2>6. w \in Variables /\ w.values = v.values /\ w.strings = Append(v.strings, span)
    BY <2>2, <2>3, <2>4, <2>5 DEF Variables
  <2>7. state'.variables = w
    <3>1. state \in State
      BY NowFacts
    <3>2. state' = [state EXCEPT !.variables.strings = Append(@, span)]
      BY <1>1, <1>2
    <3> QED BY <2>1, <2>2, <3>1, <3>2 DEF State
  <2>8. Grows(v, w, OneString)
    BY <2>3, <2>5, <2>6, StringsCount DEF Grows, OneString
  <2>9. Grows(Top.start.variables, v, t.gives[Kid(Top)])
    <3>1. Gained(t, Top) = Nothing
      BY <1>1 DEF Gained
    <3>2. Within(t.gives[Kid(Top)], Nothing, t.gives[Kid(Top)])
      BY <1>1, KidScopes DEF Within, Nothing, Scope
    <3> QED BY <1>1, <1>2, <2>1, <3>1, <3>2, KidScopes, KidGrows
  <2>10. Within(t.gives[Top.parser], t.gives[Kid(Top)], OneString)
    BY <1>1, KidScopes DEF GivesCovered
  <2>11. OneString \in Scope
    BY TableTypes
  <2>12. t.gives[Top.parser] \in Scope /\ t.gives[Kid(Top)] \in Scope
    BY <1>1, KidScopes
  <2>13. Grows(Top.start.variables, w, t.gives[Top.parser])
    BY <2>3, <2>6, <2>8, <2>9, <2>10, <2>11, <2>12, GrowsMore
  <2> QED BY <2>7, <2>13
<1> QED BY <1>1, <1>2, FinishScope

\* A rule gives its caller a result and none of its variables.
LEMMA LeaveScope ==
  ASSUME NEW t, Scoping(t), ParserInv, ScopeInv(t),
         control.op = "return", stack # <<>>, IsRule(Top),
         NEW res \in Result, NEW pos, Leave(res, pos),
         UNCHANGED <<input, grammar, aux, phase, units>>
  PROVE  ScopeInv(t)'
<1> DEFINE back == [position |-> Top.start.position, variables |-> Top.saved]
<1>1. /\ stack' = Pop /\ control' = Return(res, back) /\ state'.variables = Top.saved
      /\ back \in State /\ back.variables = Top.saved /\ Top.saved \in Variables
  BY RuleFacts DEF Leave, Good
<1> HIDE DEF back
<1>2. control'.op = "return" /\ control'.res = res /\ control'.from = back
  BY <1>1, ControlValues
<1>3. /\ stack \in Seq(ParserFrame \cup RuleFrame) /\ CalledWith(Top) = Top.saved
      /\ Pop \in Seq(ParserFrame \cup RuleFrame)
  BY TopFacts DEF CalledWith
<1>4. /\ StackScoped(t, grammar, Pop, Top.saved)
      /\ Pop # <<>> => Runs(Top, Kid(Pop[Len(Pop)]))
  BY <1>3, PopScoped DEF ScopeInv, Pop, Top
<1>5. StackScoped(t, grammar, stack, CallVariables)'
  BY <1>1, <1>2, <1>4 DEF CallVariables
<1>6. ASSUME Pop # <<>> PROVE t.gives[Kid(Pop[Len(Pop)])] = Nothing
  <2> DEFINE fr == Pop[Len(Pop)]
  <2>1. Kid(fr).kind = "identifier"
    BY <1>4, <1>6 DEF Runs
  <2>2. FrameOK(fr, Len(input)) /\ Len(Pop) \in 1..Len(Pop)
    BY <1>3, <1>6, TopFacts DEF Linked
  <2>3. FrameScoped(t, grammar, fr) /\ CallScoped(t, fr, Top.saved)
    BY <1>4, <1>6, <2>2 DEF StackScoped
  <2>4. Kid(fr) \in Parser
    <3>1. grammar \in Grammar /\ Len(input) \in Nat
      BY NowFacts DEF ParserInv, TypeOK
    <3> QED BY <1>1, <2>2, <2>3, <3>1, KidScoped
  <2> QED BY <2>1, <2>4 DEF Scoping, GivesCovered, Leaf
<1>7. stack' # <<>> => Grows(control'.from.variables, state'.variables, t.gives[Kid(Top)'])
  BY <1>1, <1>2, <1>6, GrowsNothing DEF Top
<1>8. NeverAborts'
  BY DEF ScopeInv, NeverAborts
<1> QED BY <1>2, <1>5, <1>7, <1>8 DEF ScopeInv

\* A left-recursive rule is tried again with fresh variables.
LEMMA GrowScope ==
  ASSUME NEW t, Scoping(t), ParserInv, ScopeInv(t), GrowReturn
  PROVE  ScopeInv(t)'
<1> DEFINE fr == [Top EXCEPT !.res = control.res, !.last = state.position]
<1>1. /\ control.op = "return" /\ stack # <<>> /\ IsRule(Top)
      /\ stack' = SetTop(fr) /\ state' = Top.start /\ control' = Parse(Top.body)
      /\ grammar' = grammar /\ phase' = phase
  BY DEF GrowReturn, RuleReturns
<1>2. control.res \in Result /\ state.position \in Nat
  BY <1>1, NowFacts
<1>3. /\ fr \in RuleFrame /\ fr.start = Top.start /\ fr.saved = Top.saved /\ fr.body = Top.body
  BY <1>1, <1>2, RuleFacts DEF RuleFrame
<1> HIDE DEF fr
<1>4. IsRule(fr)
  BY <1>3, FrameKinds
<1>5. CalledWith(fr) = CalledWith(Top) /\ Kid(fr) = Top.body /\ Top.body \in Parser
  BY <1>1, <1>3, <1>4, RuleFacts DEF CalledWith, Kid
<1>6. FrameScoped(t, grammar, fr)
  BY <1>1, <1>3, <1>4, ReturnFacts DEF FrameScoped
<1>7. CallScoped(t, fr, state'.variables)
  BY <1>1, <1>3, <1>4, ReturnFacts, GrowsNothing DEF CallScoped, Gained
<1> QED BY <1>1, <1>3, <1>4, <1>5, <1>6, <1>7, AgainScope

\* The return of a rule.
LEMMA RuleScopeStep ==
  ASSUME NEW t, Scoping(t), ParserInv, ScopeInv(t), RuleStep
  PROVE  ScopeInv(t)'
<1>1. CASE RuleReturn
  <2>1. /\ control.op = "return" /\ stack # <<>> /\ IsRule(Top)
        /\ Leave(control.res, state.position) /\ control.res \in Result
        /\ UNCHANGED <<input, grammar, aux, phase, units>>
    BY <1>1, NowFacts DEF RuleReturn, RuleReturns
  <2> QED BY <2>1, LeaveScope
<1>2. CASE GrowReturn
  BY <1>2, GrowScope
<1>3. CASE GrownReturn
  <2>1. /\ control.op = "return" /\ stack # <<>> /\ IsRule(Top)
        /\ Leave(Top.res, Top.last)
        /\ UNCHANGED <<input, grammar, aux, phase, units>>
    BY <1>3 DEF GrownReturn, RuleReturns
  <2> QED BY <2>1, RuleFacts, LeaveScope
<1> QED BY <1>1, <1>2, <1>3 DEF RuleStep

\* No parser without kids asks for what is not there.
LEMMA LeavesScope ==
  ASSUME NEW t, Scoping(t), ParserInv, ScopeInv(t), ParseLeaf
  PROVE  ScopeInv(t)'
<1> DEFINE p == control.parser
<1>1. control.op = "parse" /\ phase \in {"shebang", "unit"} /\ p.kind \in Leaf
  BY DEF ParseLeaf, ParseIdentifier, ParseLiteral, ParseBackref, ParseClass, ParseDot,
         ParseAction, Leaves, Leaf
<1>2. /\ p \in Parser /\ p \in t.parsers[grammar] /\ Has(state.variables, t.needs[p])
      /\ LeafCovered(t, p) /\ state.variables \in Variables /\ state \in State
      /\ grammar \in Grammar
  BY <1>1, CallFacts, NowFacts DEF Scoping, ParserInv, TypeOK
<1>3. /\ t.needs[p] \in Scope /\ t.needs[p].strings \in Nat
      /\ Len(state.variables.strings) \in Nat
      /\ t.needs[p].strings <= Len(state.variables.strings)
  BY <1>2, TableTypes, StringsCount DEF Scope, Has
<1>4. \A pos : [state EXCEPT !.position = pos].variables = state.variables
  BY <1>2 DEF State
<1>5. ASSUME ParseIdentifier PROVE ScopeInv(t)'
  <2>1. p.kind = "identifier" /\ p.rule \in Rule
    BY <1>2, <1>5, ParserAssumption DEF ParseIdentifier, Leaves
  <2>2. Parsers[grammar][p.rule] # None
    BY <1>2, <2>1 DEF Scoping, RulesCovered
  <2>3. EnterRule(p.rule) /\ UNCHANGED <<input, grammar, aux, phase, units>>
    BY <1>5, <2>2 DEF ParseIdentifier, Missing
  <2> QED BY <1>1, <2>1, <2>3, EnterRuleScope
<1>6. ASSUME ParseLiteral PROVE ScopeInv(t)'
  <2>1. UNCHANGED <<input, grammar, memo, aux, stack, phase, units>>
    BY <1>6 DEF ParseLiteral
  <2>2. PICK res : control' = Return(res, state) /\ state'.variables = state.variables
    BY <1>4, <1>6 DEF ParseLiteral, ParseText, Succeed, Fail
  <2> QED BY <1>1, <2>1, <2>2, LeafScope
<1>7. ASSUME ParseBackref PROVE ScopeInv(t)'
  <2>1. p.kind = "backref" /\ p.number \in Nat
    BY <1>2, <1>7, ParserAssumption DEF ParseBackref, Leaves
  <2>2. p.number < t.needs[p].strings
    BY <1>2, <2>1 DEF LeafCovered
  <2>3. HasString(p.number)
    BY <1>3, <2>1, <2>2 DEF HasString
  <2>4. /\ ParseText(Substring(Caught(p.number)))
        /\ UNCHANGED <<input, grammar, memo, aux, stack, phase, units>>
    BY <1>7, <2>3 DEF ParseBackref
  <2>5. PICK res : control' = Return(res, state) /\ state'.variables = state.variables
    BY <1>4, <2>4 DEF ParseText, Succeed, Fail
  <2> QED BY <1>1, <2>4, <2>5, LeafScope
<1>8. ASSUME ParseClass \/ ParseDot PROVE ScopeInv(t)'
  <2>1. UNCHANGED <<input, grammar, memo, aux, stack, phase, units>>
    BY <1>8 DEF ParseClass, ParseDot
  <2>2. PICK res : control' = Return(res, state) /\ state'.variables = state.variables
    BY <1>4, <1>8 DEF ParseClass, ParseDot, Succeed, Fail
  <2> QED BY <1>1, <2>1, <2>2, LeafScope
<1>9. ASSUME ParseAction PROVE ScopeInv(t)'
  <2>1. p.kind = "action" /\ p.args \in Seq(Argument)
    BY <1>2, <1>9, ParserAssumption DEF ParseAction, Leaves
  <2>2. ASSUME NEW i \in DOMAIN p.args PROVE Bound(p.args[i])
    <3>1. p.args[i] \in Argument
      BY <2>1
    <3>2. CASE p.args[i].arg = "constant"
      BY <3>2 DEF Bound
    <3>3. CASE p.args[i].arg = "identifier"
      <4>1. p.args[i].name \in t.needs[p].names
        BY <1>2, <2>1, <3>3 DEF LeafCovered
      <4> QED BY <1>2, <3>3, <4>1 DEF Has, Bound
    <3>4. CASE p.args[i].arg = "backref"
      <4>1. p.args[i].number < t.needs[p].strings /\ p.args[i].number \in Nat
        BY <1>2, <2>1, <3>1, <3>4 DEF LeafCovered, Argument
      <4>2. HasString(p.args[i].number)
        BY <1>3, <4>1 DEF HasString
      <4> QED BY <3>4, <4>2 DEF Bound
    <3> QED BY <3>1, <3>2, <3>3, <3>4 DEF Argument
  <2>3. PICK res : /\ control' = Return(res, state)
                   /\ UNCHANGED <<input, grammar, state, memo, stack, phase, units>>
    BY <1>9, <2>2 DEF ParseAction
  <2> QED BY <1>1, <2>3, LeafScope
<1> QED BY <1>5, <1>6, <1>7, <1>8, <1>9 DEF ParseLeaf

\* Between units there are no activations.
LEMMA MainLoopScope ==
  ASSUME NEW t, Scoping(t), ParserInv, ScopeInv(t), MainLoop
  PROVE  ScopeInv(t)'
<1>1. ASSUME stack = <<>>, stack' = <<>>, control'.op # "parse", phase' # "abort"
      PROVE  ScopeInv(t)'
  BY <1>1 DEF ScopeInv, StackScoped, NeverAborts
<1>2. stack = <<>>
  BY DEF MainLoop, StartSource, ShebangDone, ParseUnit, UnitParsed, RunUnit, ParserInv, PhaseInv
<1>3. control.op # "parse" /\ grammar \in Grammar /\ {"unit", "shebang"} \subseteq Rule
  BY <1>2, GrammarAssumption DEF ScopeInv, ParserInv, TypeOK
<1>4. ASSUME NEW r \in {"unit", "shebang"}, NEW next \in {"shebang", "unit"}, Begin(r, next)
      PROVE  ScopeInv(t)'
  <2>1. EnterRule(r) /\ grammar' = grammar /\ phase' # "abort"
    BY <1>4 DEF Begin
  <2> QED BY <1>2, <1>3, <2>1, EnterRuleScope
<1>5. Parsers[grammar]["unit"] # None
  BY <1>3 DEF Scoping, RulesCovered
<1>6. CASE StartSource
  <2>1. \/ Begin("shebang", "shebang")
        \/ stack' = stack /\ control' = control /\ phase' = "ready"
    BY <1>6 DEF StartSource, ctxVars
  <2> QED BY <1>1, <1>2, <1>3, <1>4, <2>1
<1>7. CASE ShebangDone
  BY <1>1, <1>2, <1>7 DEF ShebangDone, Idle
<1>8. CASE ParseUnit
  BY <1>4, <1>5, <1>8 DEF ParseUnit, Missing
<1>9. CASE UnitParsed
  BY <1>1, <1>2, <1>3, <1>9 DEF UnitParsed
<1>10. CASE RunUnit
  BY <1>1, <1>2, <1>10 DEF RunUnit, Idle
<1> QED BY <1>6, <1>7, <1>8, <1>9, <1>10 DEF MainLoop

\* No step breaks the invariant.
LEMMA NextScope ==
  ASSUME NEW t, Scoping(t), ParserInv, ScopeInv(t), [Next]_vars
  PROVE  ScopeInv(t)'
<1>1. CASE UNCHANGED vars
  BY <1>1 DEF vars, ctxVars, ScopeInv, CallVariables, NeverAborts, Top
<1>2. CASE Next
  <2>1. CASE ParseLeaf
    BY <2>1, LeavesScope
  <2>2. CASE Enter
    BY <2>2, EnterScope
  <2>3. CASE KidReturn
    BY <2>3, ChoiceScope, SequenceScope, LookaheadScope, QuestionScope, RepeatScope,
       CatchVariableScope, CatchStringScope DEF KidReturn
  <2>4. CASE RuleStep
    BY <2>4, RuleScopeStep
  <2>5. CASE MainLoop
    BY <2>5, MainLoopScope
  <2>6. CASE Ended
    BY <1>1, <2>6 DEF Ended
  <2> QED BY <1>2, <2>1, <2>2, <2>3, <2>4, <2>5, <2>6 DEF Next
<1> QED BY <1>1, <1>2

(***************************************************************************)
(* The theorems.  OperatorsTyped is about the constant operators; it is a   *)
(* hypothesis, since TLC could not evaluate it as an assumption.            *)
(***************************************************************************)

\* ParserInv holds in every reachable state.
LEMMA Reachable == OperatorsTyped /\ Spec => []ParserInv
<1> SUFFICES ASSUME OperatorsTyped PROVE Spec => []ParserInv
  OBVIOUS
<1>1. Init => ParserInv
  BY Initially
<1>2. ParserInv /\ [Next]_vars => ParserInv'
  BY NextInv
<1> QED BY <1>1, <1>2, PTL DEF Spec

\* The parser's state is well-typed for every grammar: every activation that
\* is returned to is one of a parser or a rule with the fields its return uses.
THEOREM TypeCorrect == OperatorsTyped /\ Spec => []TypeOK
<1>1. ParserInv => TypeOK
  BY DEF ParserInv
<1> QED BY <1>1, Reachable, PTL

\* Whatever the grammar and its actions, a parser that fails leaves position
\* and variables as it found them (vpeg_parser.cpp relies on it in choices,
\* options, repetitions and in the callers of rules).
THEOREM FailureAlwaysRestores == OperatorsTyped /\ Spec => []FailureRestores
<1>1. ParserInv => FailureRestores
  BY DEF ParserInv, ReturnInv, FailureRestores
<1> QED BY <1>1, Reachable, PTL

\* Whatever the grammar and its actions, the strings take_string copies lie
\* inside the source, also those that lookahead, backtracking, the memo and the
\* growth of left-recursive rules have restored.
THEOREM CaughtAlwaysInside == OperatorsTyped /\ Spec => []StringsInside
<1>1. ParserInv => StringsInside
  BY NowFacts DEF Good, StringsInside
<1> QED BY <1>1, Reachable, PTL

\* A grammar that has a scoping never makes the parser ask for a variable that
\* is not bound, a string that is not caught or a rule that is not there,
\* whatever the source and whatever its actions return: values.at and
\* parsers.at never throw.
THEOREM ScopedNeverAborts == OperatorsTyped /\ WellScoped /\ Spec => []NeverAborts
<1> SUFFICES ASSUME OperatorsTyped, WellScoped PROVE Spec => []NeverAborts
  OBVIOUS
<1>1. PICK t : Scoping(t)
  BY DEF WellScoped
<1>2. Init => ScopeInv(t)
  BY DEF Init, ScopeInv, StackScoped, Idle, NeverAborts
<1>3. ParserInv /\ ScopeInv(t) /\ [Next]_vars => ScopeInv(t)'
  BY <1>1, NextScope
<1>4. ScopeInv(t) => NeverAborts
  BY DEF ScopeInv
<1> QED BY <1>2, <1>3, <1>4, Reachable, PTL DEF Spec

=============================================================================
