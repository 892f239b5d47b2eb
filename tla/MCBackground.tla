---------------------------- MODULE MCBackground ----------------------------
(***************************************************************************)
(* Two things done behind the user's back, for TLC: the refresh of a login *)
(* shared with the Kimi Code CLI (KimiRefresh) and the update worker of    *)
(* the trays (SelfUpdate).  They share no state, so each runs while the    *)
(* other rests: part says which.                                           *)
(***************************************************************************)
EXTENDS KimiRefresh, SelfUpdate

ASSUME UpdateAssumption

VARIABLE part

BinariesMC == <<"tray", "cli", "tui">>

RefreshRests ==
  /\ flock = NoOne /\ dir = NoDir /\ holder = NoOne /\ beats = {}
  /\ disk = [rt |-> 1, usable |-> TRUE] /\ issued = 1
  /\ pc = [c \in Clients |-> "idle"] /\ copy = [c \in Clients |-> 0]
  /\ lost = FALSE /\ mishap = FALSE /\ deaths = 0

UpdateRests ==
  /\ platform = "none" /\ running = 0 /\ latest = [version |-> 0, ships |-> {}]
  /\ installed = [b \in Names |-> 0] /\ old = [b \in Names |-> 0]
  /\ mode = "off" /\ state = [handed |-> 0, snoozed |-> 0] /\ saved = state
  /\ offered = Nothing /\ fact = "none" /\ job = Idle
  /\ leaving = "no" /\ scoop = 0
  /\ handoffs = [v \in Versions |-> 0] /\ mishaps = {} /\ troubles = 0

BackgroundInit ==
  \/ part = "refresh" /\ Init /\ UpdateRests
  \/ part = "update" /\ UpdateInit /\ RefreshRests

MoveRefresh == part = "refresh" /\ Next /\ UNCHANGED <<part, updateVars>>

MoveUpdate == part = "update" /\ UpdateNext /\ UNCHANGED <<part, vars>>

(***************************************************************************)
(* The fairness of both: KimiRefresh!FairSpec, FairUpdateSpec.         *)
(***************************************************************************)
BackgroundSpec ==
  /\ BackgroundInit /\ [][MoveRefresh \/ MoveUpdate]_<<part, vars, updateVars>>
  /\ \A p \in Procs : WF_vars(part = "refresh" /\ Start(p)) /\ WF_vars(part = "refresh" /\ Step(p))
  /\ WF_vars(part = "refresh" /\ Tick)
  /\ WF_updateVars(part = "update" /\ (Answer \/ Install \/ Swap))
=============================================================================
