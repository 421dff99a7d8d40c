----------------------------- MODULE MCJitSymbols -----------------------------
(***************************************************************************)
(* Values of the constants of JitSymbols for TLC.                           *)
(***************************************************************************)
EXTENDS JitSymbols

CONSTANTS x, y

\* x is a name of the program; y is one that the executable defines as well.
MCNames == {x, y}
MCExternal == {y}

\* A definition, one that replaces a name of the executable and needs the
\* other, and one that needs what it replaces itself.
MCObjects == {[defs |-> {x}, refs |-> {}], [defs |-> {y}, refs |-> {x}],
              [defs |-> {x}, refs |-> {x, y}]}
MCUnits == {{}, {x, y}}
=============================================================================
