------------------------------ MODULE MCTuiApp ------------------------------
(* TuiApp for TLC: two providers, one of which comes, goes and moves. *)
EXTENDS TuiApp

LayoutsMC == {<<>>, <<"claude">>, <<"codex", "claude">>}
PrimariesMC == {"none", "codex"}
=============================================================================
