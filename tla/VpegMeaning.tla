---------------------------- MODULE VpegMeaning ----------------------------
(***************************************************************************)
(* What a grammar means: the result of a parser at a place, by recursion on *)
(* the parser, with neither a memo nor a stack.  A left-recursive rule is   *)
(* the limit of its bounded expansions: inside the n-th, the rule at the    *)
(* same position yields what the (n-1)-th did.  VpegParser must agree with  *)
(* it for every unit and the grammar in force.  Actions run wherever the    *)
(* text makes them, each with what the one before left of aux: a choice     *)
(* that is given up undoes nothing of it.                                   *)
(***************************************************************************)
EXTENDS VpegParser, TLC

At(pos, values, strings) ==
    [position |-> pos, variables |-> [values |-> values, strings |-> strings]]
Outcome(res, st, ax) == [res |-> res, state |-> st, aux |-> ax]

\* The characters s at st.
Text(s, st, ax) ==
    IF /\ st.position + Len(s) <= Len(input)
       /\ SubSeq(input, st.position + 1, st.position + Len(s)) = s
    THEN Outcome(s, [st EXCEPT !.position = @ + Len(s)], ax) ELSE Outcome(None, st, ax)

StringAt(k, st) == LET v == st.variables.strings[k + 1]
                   IN IF k = 0 THEN <<v[1], st.position>> ELSE v

ArgMeaning(a, st) ==
    CASE a.arg = "constant" -> a.value
      [] a.arg = "identifier" -> st.variables.values[a.name]
      [] a.arg = "backref" /\ a.part = "string" -> Substring(StringAt(a.number, st))
      [] a.arg = "backref" /\ a.part = "start" -> PosValue(StringAt(a.number, st)[1])
      [] a.arg = "backref" /\ a.part = "end" -> PosValue(StringAt(a.number, st)[2])

\* seeds[<<pos, r>>]: the result, and the position after it, that stand for
\* rule r at pos while one of its expansions is being computed.
RECURSIVE Meaning(_, _, _, _, _), RuleMeaning(_, _, _, _, _), Expansion(_, _, _, _, _, _)
RECURSIVE FirstOf(_, _, _, _, _), InOrder(_, _, _, _, _, _), Repeat(_, _, _, _, _, _)

Meaning(g, p, st, ax, seeds) ==
    CASE p.kind = "choice" -> FirstOf(g, p.kids, st, ax, seeds)
      [] p.kind = "sequence" ->
           LET out == InOrder(g, p.kids, st, Dummy, ax, seeds)
           IN IF out.res = None THEN Outcome(None, st, out.aux) ELSE out
      [] p.kind = "and" ->
           LET out == Meaning(g, p.kids[1], st, ax, seeds) IN Outcome(out.res, st, out.aux)
      [] p.kind = "not" ->
           LET out == Meaning(g, p.kids[1], st, ax, seeds)
           IN Outcome(IF out.res = None THEN Dummy ELSE None, st, out.aux)
      [] p.kind = "question" ->
           LET out == Meaning(g, p.kids[1], st, ax, seeds)
           IN IF out.res = None THEN Outcome(Dummy, st, out.aux) ELSE out
      [] p.kind = "star" -> Repeat(g, p.kids[1], st, Dummy, ax, seeds)
      [] p.kind = "plus" -> Repeat(g, p.kids[1], st, None, ax, seeds)
      [] p.kind = "variable" ->
           LET out == Meaning(g, p.kids[1], st, ax, seeds)
           IN IF out.res = None THEN out
              ELSE [out EXCEPT !.state.variables.values[p.name] = out.res]
      [] p.kind = "string" ->
           LET out == Meaning(g, p.kids[1], st, ax, seeds)
           IN IF out.res = None THEN out
              ELSE [out EXCEPT !.state.variables.strings =
                       Append(@, <<st.position, out.state.position>>)]
      [] p.kind = "identifier" ->
           LET out == RuleMeaning(g, p.rule, st.position, ax, seeds)
           IN Outcome(out.res, [st EXCEPT !.position = out.position], out.aux)
      [] p.kind = "literal" -> Text(p.text, st, ax)
      [] p.kind = "backref" -> Text(Substring(StringAt(p.number, st)), st, ax)
      [] p.kind = "class" ->
           IF st.position < Len(input) /\ input[st.position + 1] \in p.chars
           THEN Text(<<input[st.position + 1]>>, st, ax) ELSE Outcome(None, st, ax)
      [] p.kind = "dot" ->
           IF st.position < Len(input)
           THEN Text(<<input[st.position + 1]>>, st, ax) ELSE Outcome(None, st, ax)
      [] p.kind = "action" ->
           LET args == [i \in DOMAIN p.args |-> ArgMeaning(p.args[i], st)]
           IN Outcome(Act(p.act, args, ax), st, ActAux(p.act, args, ax))

FirstOf(g, ps, st, ax, seeds) ==
    IF ps = <<>> THEN Outcome(None, st, ax)
    ELSE LET out == Meaning(g, Head(ps), st, ax, seeds)
         IN IF out.res # None THEN out ELSE FirstOf(g, Tail(ps), st, out.aux, seeds)

InOrder(g, ps, st, res, ax, seeds) ==
    IF ps = <<>> \/ res = None THEN Outcome(res, st, ax)
    ELSE LET out == Meaning(g, Head(ps), st, ax, seeds)
         IN InOrder(g, Tail(ps), out.state, out.res, out.aux, seeds)

Repeat(g, p, st, res, ax, seeds) ==
    LET out == Meaning(g, p, st, ax, seeds)
    IN IF out.res = None THEN Outcome(res, st, out.aux)
       ELSE Repeat(g, p, out.state, out.res, out.aux, seeds)

RuleMeaning(g, r, pos, ax, seeds) ==
    IF <<pos, r>> \in DOMAIN seeds
    THEN [res |-> seeds[<<pos, r>>].res, position |-> seeds[<<pos, r>>].position, aux |-> ax]
    ELSE IF r \in LeftRec[g]
    THEN Expansion(g, r, pos, ax, seeds, [res |-> None, position |-> pos])
    ELSE LET out == Meaning(g, Parsers[g][r], At(pos, Globals[g], <<<<pos, 0>>>>), ax, seeds)
         IN [res |-> out.res, position |-> out.state.position, aux |-> out.aux]

\* The longest expansion, seed being the one before.
Expansion(g, r, pos, ax, seeds, seed) ==
    LET out == Meaning(g, Parsers[g][r], At(pos, Globals[g], <<<<pos, 0>>>>), ax,
                       (<<pos, r>> :> seed) @@ seeds)
    IN IF out.state.position <= seed.position
       THEN [res |-> seed.res, position |-> seed.position, aux |-> out.aux]
       ELSE Expansion(g, r, pos, out.aux, seeds,
                      [res |-> out.res, position |-> out.state.position])

(***************************************************************************)
(* Properties.                                                              *)
(***************************************************************************)

\* Each call of parse_unit returns what the grammar then in force means at the
\* place where it began, and leaves the context behind it: no result remembered
\* for another grammar, another place or a seed that has grown since is used.
\* Where the memo answers, the actions of a rule do not run again: a unit that
\* is read leaves what they keep as if they had, and is the same tree.
UnitMeansItself ==
    phase \in {"run", "done", "error"} =>
        LET unit == RuleMeaning(grammar, "unit", control.from.position, InitAux, <<>>)
        IN /\ unit.res = control.res
           /\ unit.position = state.position
           /\ control.res # None => unit.aux = aux

=============================================================================
