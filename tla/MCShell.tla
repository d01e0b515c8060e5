------------------------------- MODULE MCShell -------------------------------
(***************************************************************************)
(* A small shell: words of one or two letters, one colour command.         *)
(***************************************************************************)
EXTENDS Shell

MCTyped == {"a", " ", NL, TABCHAR, BS}
MCCLEAR == <<"a", "a">>
MCCOLOR == <<"a">>
MCColorArg == [w \in {<<"a">>} |-> "red"]
MCOutputs == {<<>>, <<"a", NL>>}
=============================================================================
