---------------------------- MODULE MCCodexSwitch ----------------------------
(* CodexSwitch for TLC: two accounts beside the default slot. *)
EXTENDS CodexSwitch, TLC

CONSTANTS home, work

TwoAccounts == {home, work}
TwoAccountOrder == <<Default, home, work>>

UnnamedAndHome == {Default, home}

Symmetry == Permutations(Ids) \cup Permutations(Switchers)
=============================================================================
