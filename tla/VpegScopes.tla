----------------------------- MODULE VpegScopes -----------------------------
(***************************************************************************)
(* The scoping of grammars that are given, by recursion on their parsers:   *)
(* what a parser gives at most and needs at least.                          *)
(***************************************************************************)
EXTENDS VpegScoping, SequencesExt

RECURSIVE PartsOf(_)
PartsOf(p) == {p} \cup IF p.kind \in Compound
                       THEN UNION {PartsOf(p.kids[i]) : i \in DOMAIN p.kids} ELSE {}

Both(a, b) == [names |-> a.names \cup b.names, strings |-> a.strings + b.strings]
Either(a, b) == [names |-> a.names \cap b.names,
                 strings |-> IF a.strings < b.strings THEN a.strings ELSE b.strings]
Most(a, b) == [names |-> a.names \cup b.names,
               strings |-> IF a.strings < b.strings THEN b.strings ELSE a.strings]
Without(a, b) == [names |-> a.names \ b.names,
                  strings |-> IF a.strings < b.strings THEN 0 ELSE a.strings - b.strings]

RECURSIVE Gives(_)
Gives(p) ==
    CASE p.kind = "choice" -> FoldLeft(LAMBDA s, k : Either(s, Gives(k)), Gives(p.kids[1]), p.kids)
      [] p.kind = "sequence" -> FoldLeft(LAMBDA s, k : Both(s, Gives(k)), Nothing, p.kids)
      [] p.kind = "plus" -> Gives(p.kids[1])
      [] p.kind = "variable" -> Both(Gives(p.kids[1]), OneName(p.name))
      [] p.kind = "string" -> Both(Gives(p.kids[1]), OneString)
      [] OTHER -> Nothing

\* What the first n kids of a sequence give.
Gain(p, n) == FoldLeft(LAMBDA s, k : Both(s, Gives(k)), Nothing, SubSeq(p.kids, 1, n))

ArgNeeds(a) == CASE a.arg = "identifier" -> OneName(a.name)
                 [] a.arg = "backref" -> [names |-> {}, strings |-> a.number + 1]
                 [] a.arg = "constant" -> Nothing

RECURSIVE Needs(_)
Needs(p) ==
    CASE p.kind = "action" -> FoldLeft(LAMBDA s, a : Most(s, ArgNeeds(a)), Nothing, p.args)
      [] p.kind = "backref" -> [names |-> {}, strings |-> p.number + 1]
      [] p.kind = "sequence" ->
           FoldLeft(LAMBDA s, i : Most(s, Without(Needs(p.kids[i]), Gain(p, i - 1))), Nothing,
                    [i \in DOMAIN p.kids |-> i])
      [] p.kind \in Compound \ {"sequence"} ->
           FoldLeft(LAMBDA s, k : Most(s, Needs(k)), Nothing, p.kids)
      [] OTHER -> Nothing

Inferred ==
    [parsers |-> [g \in Grammar |->
                    UNION {PartsOf(Parsers[g][r]) : r \in {r \in Rule : Parsers[g][r] # None}}],
     needs |-> [p \in Parser |-> Needs(p)],
     gives |-> [p \in Parser |-> Gives(p)],
     gains |-> [p \in Parser |-> IF p.kind = "sequence"
                                 THEN [n \in 1..(Len(p.kids) + 1) |-> Gain(p, n - 1)]
                                 ELSE <<>>]]

\* The grammars that are checked have one.
ASSUME ScopingAssumption == Scoping(Inferred)

=============================================================================
