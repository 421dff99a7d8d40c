---------------------------- MODULE MCImportScope ----------------------------
(***************************************************************************)
(* Source trees for ImportScope: a program and three files, b and c below   *)
(* a, with diamonds, repeated and re-exported imports; in some of them b    *)
(* imports a again, or c itself.                                            *)
(***************************************************************************)
EXTENDS ScopeMeaning, TLC

MCNames == {"x"}
MCThings == {"a", "b", "c", "main"}
MCEfforts == {"a", "b", "c"}
MCBeneath == ("a" :> {"b", "c"}) @@ ("b" :> {"c"}) @@ ("c" :> {})

add(f) == [op |-> "add", name |-> "x", thing |-> f]
export(f) == [op |-> "export", name |-> "x", thing |-> f]
add_effort(f) == [op |-> "add_effort", effort |-> f]
export_effort(f) == [op |-> "export_effort", effort |-> f]
v_import(f) == [op |-> "v_import", file |-> f]
v_export_import(f) == [op |-> "v_export_import", file |-> f]

Of(n, calls) == [1..n -> calls]

SourceTrees ==
    {("main" :> m) @@ ("a" :> a) @@ ("b" :> b) @@ ("c" :> c) :
        m \in Of(2, {v_import("a"), v_import("b"), v_export_import("c"), add("main")})
                \cup {<<v_import("a"), v_import("b"), v_export_import("c")>>,
                      <<v_import("b"), v_import("c"), v_import("b")>>,
                      <<v_import("c"), v_import("a"), add("main")>>},
        a \in Of(2, {export("a"), export_effort("a"), v_import("b"),
                     v_export_import("b"), v_import("c"), v_export_import("c")}),
        b \in Of(2, {export("b"), v_import("c"), v_export_import("c"),
                     v_import("a"), v_export_import("a")}),
        c \in {<<export("c"), export_effort("c")>>, <<add("c"), add_effort("c")>>,
               <<export_effort("c"), export("c"), add("a")>>,
               <<export("c"), v_import("c"), export_effort("c")>>}}

MCTrees == SourceTrees
=============================================================================
