--------------------------- MODULE MCCompileState ---------------------------
(***************************************************************************)
(* The instance of CompileState that is checked: one name, so that every    *)
(* declaration hides the one before it.                                     *)
(***************************************************************************)
EXTENDS CompileState

CONSTANT intrinsic

MCNames == {intrinsic}

=============================================================================
