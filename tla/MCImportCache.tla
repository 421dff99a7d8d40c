---------------------------- MODULE MCImportCache ----------------------------
(***************************************************************************)
(* Values of the constants of ImportCache for TLC.                          *)
(***************************************************************************)
EXTENDS ImportProgress, TLC

CONSTANTS a, b, c, p1, p2

\* a imports b and c, b imports c: c is reached along two paths.
MCTriangle == (a :> {b, c}) @@ (b :> {c}) @@ (c :> {})

\* a and b import each other, a imports c as well.
MCCircle == (a :> {b, c}) @@ (b :> {a}) @@ (c :> {})

\* a and b import each other.
MCPair == (a :> {b}) @@ (b :> {a})

\* Every program that imports something.
MCPrograms == (SUBSET Files) \ {{}}

\* Programs that import one file.
MCSingles == {{f} : f \in Files}
=============================================================================
