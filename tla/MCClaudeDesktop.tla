--------------------------- MODULE MCClaudeDesktop ---------------------------
(***************************************************************************)
(* The two halves of a Claude Desktop switch for TLC: the logins           *)
(* (DesktopSwitch) and the history (DesktopHistory).  They share the order *)
(* of the steps and no file, so each runs while the other rests: part says *)
(* which.                                                                  *)
(***************************************************************************)
EXTENDS DesktopSwitch, DesktopHistory, TLC

VARIABLE part

ASSUME HistoryAssumption

LoginsRest ==
  /\ live = NoLogin /\ browser = None /\ app = "up"
  /\ saved = [a \in Accounts |-> NoProfile] /\ registered = {} /\ prelogin = None
  /\ issued = <<>> /\ alive = {}
  /\ op = NoOp /\ fetch = NoFetch
  /\ excused = {} /\ misfiled = {} /\ mishaps = {} /\ closed = "no" /\ troubles = 0

NoRoutineYet == tasks = [a \in Owners |-> [r \in Routines |-> Absent]]

HistoryRests ==
  /\ NoRoutineYet
  /\ chats = [a \in Owners |-> [c \in Chats |-> 0]]
  /\ synced = [a \in Owners |-> Absent]
  /\ active = Absent /\ merge = NoMerge /\ edits = 0
  /\ latest = [r \in Routines |-> Absent]
  /\ deleted = {} /\ gone = {} /\ conflicted = {} /\ spoilt = {} /\ setbacks = 0

(***************************************************************************)
(* What the history has in play: the routines, the chats, or both.  Both   *)
(* together have one edit or turn in all, each alone has MaxEdits.         *)
(***************************************************************************)
InPlay ==
  \/ part = "routines" /\ UNCHANGED chats
  \/ part = "chats" /\ UNCHANGED tasks
  \/ part = "both" /\ edits' \in {0, 1}

DesktopInit ==
  \/ part = "logins" /\ Init /\ HistoryRests
  \/ part \in {"routines", "both"} /\ MergeInit /\ LoginsRest
  \/ part = "chats" /\ MergeInit /\ NoRoutineYet /\ LoginsRest

MoveLogins == part = "logins" /\ Next /\ UNCHANGED <<part, mergeVars>>

MoveHistory == part # "logins" /\ MergeNext /\ InPlay /\ UNCHANGED <<part, vars>>

DesktopNext == MoveLogins \/ MoveHistory

DesktopSpec == DesktopInit /\ [][DesktopNext]_<<part, vars, mergeVars>>

Symmetry == Permutations(Accounts)
=============================================================================
