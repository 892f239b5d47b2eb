--------------------------- MODULE MCAnthropicFetch ---------------------------
(* AnthropicFetch for TLC. *)
EXTENDS AnthropicFetch, TLC

Symmetry == Permutations(Procs)
=============================================================================
