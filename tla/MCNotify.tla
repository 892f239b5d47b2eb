------------------------------ MODULE MCNotify ------------------------------
(***************************************************************************)
(* Notify for TLC: percentages 0 to 3, re-armed below 2, announced from 3. *)
(* One entry has the windows; another has the credit.                      *)
(***************************************************************************)
EXTENDS Notify

LevelsMC == {0, 2, 3}
StartMC == [w \in Windows |-> IF w = "session" THEN 3 ELSE 0]
EntryMC == [k \in Windows \cup Credits |-> IF k \in Windows THEN "claude" ELSE "codex"]
=============================================================================
