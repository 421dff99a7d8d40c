----------------------------- MODULE VpegEnding -----------------------------
(***************************************************************************)
(* Why parsing ends with the grammars that are given, whatever the source:  *)
(* nothing is repeated without moving, and no rule enters itself where it   *)
(* began, unless it is marked as left-recursive and does so directly.       *)
(***************************************************************************)
EXTENDS VpegScopes

Defined(g) == {r \in Rule : Parsers[g][r] # None}

\* May p succeed without moving, when the rules of still may?
RECURSIVE Stays(_, _)
Stays(p, still) ==
    CASE p.kind = "choice" -> \E i \in DOMAIN p.kids : Stays(p.kids[i], still)
      [] p.kind = "sequence" -> \A i \in DOMAIN p.kids : Stays(p.kids[i], still)
      [] p.kind \in {"plus", "variable", "string"} -> Stays(p.kids[1], still)
      [] p.kind \in {"and", "not", "question", "star", "backref", "action"} -> TRUE
      [] p.kind = "identifier" -> p.rule \in still
      [] p.kind = "literal" -> p.text = <<>>
      [] p.kind \in {"class", "dot"} -> FALSE

\* The rules that may: those of which it follows from the ones known already.
RECURSIVE StillFrom(_, _)
StillFrom(g, known) ==
    LET more == {r \in Defined(g) : Stays(Parsers[g][r], known)}
    IN  IF more = known THEN known ELSE StillFrom(g, more)
Still(g) == StillFrom(g, {})

\* The rules that p may enter where it began itself.
RECURSIVE Enters(_, _)
Enters(p, still) ==
    CASE p.kind = "sequence" ->
           UNION {Enters(p.kids[i], still) :
                    i \in {i \in DOMAIN p.kids : \A j \in 1 .. i - 1 : Stays(p.kids[j], still)}}
      [] p.kind \in Compound \ {"sequence"} ->
           UNION {Enters(p.kids[i], still) : i \in DOMAIN p.kids}
      [] p.kind = "identifier" -> {p.rule}
      [] OTHER -> {}

Entered(g) ==
    LET still == Still(g)
    IN  [r \in Defined(g) |-> Enters(Parsers[g][r], still) \cap Defined(g)]

\* The rules that those of known may enter where they began, and known.
RECURSIVE Reached(_, _)
Reached(entered, known) ==
    LET more == known \cup UNION {entered[r] : r \in known}
    IN  IF more = known THEN known ELSE Reached(entered, more)

\* A star or plus moves each time that it goes on.
RepeatsMove(g) ==
    LET still == Still(g)
    IN  \A p \in UNION {PartsOf(Parsers[g][r]) : r \in Defined(g)} :
            p.kind \in {"star", "plus"} => ~Stays(p.kids[1], still)

\* A rule that may enter itself where it began is marked, and enters only those
\* rules in between that do not lead back to it.
CirclesGrow(g) ==
    LET entered == Entered(g)
        reached == [r \in Defined(g) |-> Reached(entered, entered[r])]
    IN  \A r, s \in Defined(g) :
            s \in reached[r] /\ r \in reached[s] => r = s /\ r \in LeftRec[g]

\* The grammars that are checked are of this kind.
ASSUME EndingAssumption == \A g \in Grammar : RepeatsMove(g) /\ CirclesGrow(g)

=============================================================================
