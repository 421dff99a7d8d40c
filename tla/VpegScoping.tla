---------------------------- MODULE VpegScoping ----------------------------
(***************************************************************************)
(* When does a grammar never ask for what is not there?  The parsers of     *)
(* stage0 find variables, caught strings and rules at run time, and a       *)
(* missing one is an exception that nobody catches.  A scoping is a table   *)
(* of what every parser needs to find bound when it is called, and of what  *)
(* it adds when it succeeds, such that the needs of every part are covered  *)
(* by what stands before it.  It is a judgement about grammars alone: none  *)
(* of it depends on a source or on what actions do.                         *)
(***************************************************************************)
EXTENDS VpegParser

\* Variables that are bound, and the least number of strings that are caught.
Scope == [names: SUBSET Name, strings: Nat]
Nothing == [names |-> {}, strings |-> 0]
OneName(n) == [names |-> {n}, strings |-> 0]
OneString == [names |-> {}, strings |-> 1]

\* k is no more than a and b together.
Within(k, a, b) == /\ k.names \subseteq a.names \cup b.names
                   /\ k.strings <= a.strings + b.strings

\* What a rule of g finds: the global values and string #0.
RuleScope(g) == [names |-> {n \in Name : Globals[g][n] # None}, strings |-> 1]

(***************************************************************************)
(* A table: the parsers each grammar can come to, what a parser needs, what *)
(* it gives, and what a sequence has gained before each of its kids, and    *)
(* after the last.                                                          *)
(***************************************************************************)
ScopeTable == [parsers: [Grammar -> SUBSET Parser], needs: [Parser -> Scope],
               gives: [Parser -> Scope], gains: [Parser -> Seq(Scope)]]

\* The arguments of an action, and the string of a backref, are there.
LeafCovered(t, p) ==
    /\ p.kind = "backref" => p.number < t.needs[p].strings
    /\ p.kind = "action" =>
         \A i \in DOMAIN p.args :
            /\ p.args[i].arg = "identifier" => p.args[i].name \in t.needs[p].names
            /\ p.args[i].arg = "backref" => p.args[i].number < t.needs[p].strings

\* Every kid finds what it needs.
KidsCovered(t, p) ==
    /\ p.kind \in Compound \ {"sequence"} =>
         \A i \in DOMAIN p.kids : Within(t.needs[p.kids[i]], t.needs[p], Nothing)
    /\ p.kind = "sequence" =>
         /\ Len(t.gains[p]) = Len(p.kids) + 1
         /\ t.gains[p][1] = Nothing
         /\ \A i \in DOMAIN p.kids :
              /\ Within(t.needs[p.kids[i]], t.needs[p], t.gains[p][i])
              /\ Within(t.gains[p][i + 1], t.gains[p][i], t.gives[p.kids[i]])

\* A parser gives no more than its success has bound.
GivesCovered(t, p) ==
    /\ p.kind \in Leaf \cup {"and", "not", "question", "star"} => t.gives[p] = Nothing
    /\ p.kind = "choice" =>
         \A i \in DOMAIN p.kids : Within(t.gives[p], t.gives[p.kids[i]], Nothing)
    /\ p.kind = "sequence" => Within(t.gives[p], t.gains[p][Len(p.kids) + 1], Nothing)
    /\ p.kind = "plus" => Within(t.gives[p], t.gives[p.kids[1]], Nothing)
    /\ p.kind = "variable" => Within(t.gives[p], t.gives[p.kids[1]], OneName(p.name))
    /\ p.kind = "string" => Within(t.gives[p], t.gives[p.kids[1]], OneString)

\* The rules of g are there, and need no more than a rule finds.
RulesCovered(t, g) ==
    /\ Parsers[g]["unit"] # None
    /\ \A r \in Rule : Parsers[g][r] # None =>
         /\ Parsers[g][r] \in t.parsers[g]
         /\ Within(t.needs[Parsers[g][r]], RuleScope(g), Nothing)
    /\ \A p \in t.parsers[g] :
         /\ p.kind \in Compound => \A i \in DOMAIN p.kids : p.kids[i] \in t.parsers[g]
         /\ p.kind = "identifier" => Parsers[g][p.rule] # None

Scoping(t) ==
    /\ t \in ScopeTable
    /\ \A p \in Parser : LeafCovered(t, p) /\ KidsCovered(t, p) /\ GivesCovered(t, p)
    /\ \A g \in Grammar : RulesCovered(t, g)

\* What the proofs assume of the grammars: they have a scoping.
WellScoped == \E t \in ScopeTable : Scoping(t)

=============================================================================
