--------------------------- MODULE MCClaudeSwitch ---------------------------
(***************************************************************************)
(* Two changes that are tried and taken back when they fail, for TLC: the  *)
(* switch of the Claude CLI's login (ClaudeSwitch) and the check of a key  *)
(* beside the other writers of config.toml (KeyCheck).  They share no      *)
(* state, so each runs while the other rests: part says which.             *)
(***************************************************************************)
EXTENDS ClaudeSwitch, KeyCheck, TLC

VARIABLE part

Symmetry == Permutations(Procs) \cup Permutations(Accounts)

SwitchRests ==
  /\ slot = [s \in Slots |-> Absent] /\ marker = None /\ own = [a \in Accounts |-> None]
  /\ issued = [i \in Ids |-> 1] /\ lock = None
  /\ pc = [p \in Procs |-> "idle"] /\ job = [p \in Procs |-> NoJob] /\ ref = NoRefresh
  /\ faults = 0 /\ owed = {} /\ unrestored = {}
  /\ cut = FALSE /\ torn = FALSE /\ misled = FALSE

CheckRests ==
  /\ doc = [section |-> FALSE, key |-> "none", on |-> "none", primary |-> "none"]
  /\ draft = [w \in Writers |-> NoDraft] /\ thread = [s \in Sends |-> NoThread]
  /\ fact = [seq |-> 0, state |-> "checking"] /\ sent = 0 /\ overlay = Closed
  /\ tray = [pc |-> "idle", to |-> "no"]
  /\ catalog = [rows |-> RowsOf(doc), generation |-> 0, due |-> FALSE]
  /\ reader = [pc |-> "idle", rows |-> RowsOf(doc), generation |-> 0]
  /\ used = 0 /\ held = "none"

TriedInit ==
  \/ part = "switch" /\ Init /\ CheckRests
  \/ part = "check" /\ KeyInit /\ SwitchRests

MoveSwitch == part = "switch" /\ Next /\ UNCHANGED <<part, keyVars>>

MoveCheck == part = "check" /\ KeyNext /\ UNCHANGED <<part, vars>>

(***************************************************************************)
(* The checks come to an end when the sends and saves are used up, the     *)
(* switches never do: a deadlock is one of the switch.                     *)
(***************************************************************************)
NoMoreChecks == part = "check" /\ UNCHANGED <<part, vars, keyVars>>

TriedSpec ==
  TriedInit /\ [][MoveSwitch \/ MoveCheck \/ NoMoreChecks]_<<part, vars, keyVars>>
=============================================================================
