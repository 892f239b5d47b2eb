---------------------------- MODULE DesktopHistory ----------------------------
(***************************************************************************)
(* The history a Claude Desktop switch carries along: plan_scheduled_merge,*)
(* plan_session_merge, deletion_candidates and plan_deletion_sweep of      *)
(* src/src/claude_desktop/merge.rs, in the order apply_switch of           *)
(* src/src/claude_desktop/mod.rs applies them.                             *)
(*                                                                         *)
(* Every account has its own registry of routines and its own index of     *)
(* chats.  A switch brings the target up to date with all of them by a     *)
(* three-way merge against synced.json, which records what each account    *)
(* held when the last merge ended and the definition they agreed on.  The  *)
(* switch is planned while the application still runs, and applied once it *)
(* has stopped.                                                            *)
(*                                                                         *)
(* A definition is its creation time, its name and the rest of it; edits   *)
(* are numbered in the order the user makes them.  What else the switch    *)
(* replaces is in DesktopSwitch.  The _Bug forms are plausible mistakes;   *)
(* no specification uses them.                                             *)
(***************************************************************************)
EXTENDS Integers, FiniteSets, FiniteSetsExt

CONSTANTS Owners,
          Routines,
          Chats,
          Absent,      \* nothing there
          Unknown,     \* recorded by an older version, without its definition
          MaxEdits,    \* bound: edits of routines and turns in chats
          MaxSetbacks  \* bound: failing steps and crashes

Numbers == 0 .. MaxEdits
Written == [made : {1, 2}, name : Numbers, rest : Numbers]
Definitions == Written \cup {Absent}
LedgerRows == [tasks : [Routines -> Definitions \cup {Unknown}], canon : [Routines -> Definitions],
               chats : SUBSET Chats]

HistoryAssumption ==
  /\ IsFiniteSet(Owners)
  /\ Routines \cap Chats = {}
  /\ Absent # Unknown /\ {Absent, Unknown} \cap Written = {} /\ Absent \notin LedgerRows
  /\ MaxEdits \in Nat /\ MaxSetbacks \in Nat

VARIABLES
  tasks,      \* each account's registry: a definition for each routine
  chats,      \* each account's chats: the number of the latest turn, 0 for no chat
  synced,     \* the ledger's row for each account
  active,     \* the account the application runs as
  merge,      \* the switch in progress
  edits,      \* how many edits and turns there have been
  latest,     \* history: what the user's last edit made of each routine
  deleted,    \* history: what the user deleted where, and has not come back
  gone,       \* history: what the user had deleted everywhere
  conflicted, \* history: routines a plan reported in conflict, not edited since
  spoilt,     \* history: the routines a named exception has spoilt
  setbacks    \* how many steps have failed

asideVars == <<latest, deleted, gone, conflicted, spoilt>>
mergeVars == <<tasks, chats, synced, active, merge, edits, asideVars, setbacks>>

NoRow == Absent
NoMerge == [pc |-> "idle", target |-> Absent, tasks |-> Absent, resolved |-> {},
         chats |-> Absent, doomed |-> {}, old |-> Absent]

Items == Routines \cup Chats
Holds(a, x) == IF x \in Routines THEN tasks[a][x] # Absent ELSE chats[a][x] # 0
Holders(x) == {a \in Owners : Holds(a, x)}

(***************************************************************************)
(* No ledger yet, or an older version's.                                   *)
(***************************************************************************)
MergeInit ==
  /\ tasks \in [Owners -> [Routines -> {Absent} \cup [made : {1, 2}, name : {0}, rest : {0}]]]
  /\ chats \in [Owners -> [Chats -> {0}]]
  /\ \/ synced = [a \in Owners |-> NoRow]
     \/ synced = [a \in Owners |->
          [tasks |-> [r \in Routines |-> IF tasks[a][r] = Absent THEN Absent ELSE Unknown],
           canon |-> [r \in Routines |-> Absent], chats |-> {}]]
  /\ active \in Owners
  /\ merge = NoMerge
  /\ edits = 0
  /\ latest = [r \in Routines |-> Absent]
  /\ deleted = {}
  /\ gone = {}
  /\ conflicted = {}
  /\ spoilt = {}
  /\ setbacks = 0

Setback == setbacks < MaxSetbacks /\ setbacks' = setbacks + 1
Proceed(pc) == merge' = [merge EXCEPT !.pc = pc]

-----------------------------------------------------------------------------
(* The merge, from what the files hold when it is planned. *)

Rows == {a \in Owners : synced[a] # NoRow}

(***************************************************************************)
(* task_changed: since the ledger's row, or "unknown" without one.         *)
(***************************************************************************)
Change(a, r) ==
  IF synced[a] = NoRow \/ (a \in Rows /\ synced[a].tasks[r] = Unknown) THEN "unknown"
  ELSE IF synced[a].tasks[r] # tasks[a][r] THEN "yes" ELSE "no"

(***************************************************************************)
(* The definition every row agrees on.                                     *)
(***************************************************************************)
Canonical(r) ==
  LET recorded == {synced[a].canon[r] : a \in Rows} IN
    IF Cardinality(recorded) = 1 THEN CHOOSE d \in recorded : TRUE ELSE Absent

CopiesOf(r) == {tasks[a][r] : a \in Holders(r)}
ChangedCopies(r) == {tasks[a][r] : a \in {b \in Holders(r) : Change(b, r) = "yes"}}
Diverged(r) == \E a \in Holders(r) : Change(a, r) = "unknown" /\ tasks[a][r] # Canonical(r)
NewestCopies(r) == {d \in CopiesOf(r) : \A e \in CopiesOf(r) : e.made <= d.made}

Winners_Newest_Bug(r) == NewestCopies(r)

(***************************************************************************)
(* The candidates among which the merge is not in doubt when it is one.    *)
(***************************************************************************)
Winners(r) ==
  IF Canonical(r) # Absent
  THEN IF Diverged(r) THEN {}
       ELSE IF ChangedCopies(r) = {} THEN {Canonical(r)} ELSE ChangedCopies(r)
  ELSE IF ChangedCopies(r) = {} THEN NewestCopies(r) ELSE ChangedCopies(r)

Resolved(r) == Cardinality(Winners(r)) = 1

(***************************************************************************)
(* In doubt the target keeps its copy; without one it takes another's.     *)
(***************************************************************************)
Selected_OwnFirst_Bug(t, r) ==
  IF Holders(r) = {} THEN {Absent}
  ELSE IF Holds(t, r) THEN {tasks[t][r]}
  ELSE IF Resolved(r) THEN Winners(r)
  ELSE CopiesOf(r)

Selected(t, r) ==
  IF Holders(r) = {} THEN {Absent}
  ELSE IF Resolved(r) THEN Winners(r)
  ELSE IF Holds(t, r) THEN {tasks[t][r]}
  ELSE CopiesOf(r)

NewestTurn(c) == Max({chats[a][c] : a \in Owners})

Listed(a, x) ==
  IF x \in Routines THEN synced[a].tasks[x] # Absent ELSE x \in synced[a].chats

(***************************************************************************)
(* What an account had when the ledger was written, has no longer, and     *)
(* others still have.                                                      *)
(***************************************************************************)
Candidates ==
  {c \in Rows \X Items : Listed(c[1], c[2]) /\ ~Holds(c[1], c[2]) /\ Holders(c[2]) # {}}

-----------------------------------------------------------------------------
(* The user, in the running application. *)

AppRuns == merge.pc \in {"idle", "prompt"}

(***************************************************************************)
(* An edit made while a switch waits for its answer is not in its plan.    *)
(***************************************************************************)
Unplanned(r) == IF merge.pc = "prompt" THEN spoilt \cup {r} ELSE spoilt

(***************************************************************************)
(* Until the ledger has a routine's definitions, edits cannot be told from *)
(* old copies, and the newest creation time decides.                       *)
(***************************************************************************)
Recorded(r) == \A a \in Holders(r) : Change(a, r) # "unknown"

(***************************************************************************)
(* Identifiers are not used twice.                                         *)
(***************************************************************************)
New(x) == Holders(x) = {} /\ \A a \in Owners : <<a, x>> \notin deleted

EditRoutine ==
  /\ AppRuns
  /\ edits < MaxEdits
  /\ edits' = edits + 1
  /\ \E r \in Routines :
       /\ \/ /\ New(r)
             /\ tasks' = [tasks EXCEPT ![active][r] = [made |-> 2, name |-> edits', rest |-> edits']]
          \/ /\ tasks[active][r] # Absent
             /\ \/ tasks' = [tasks EXCEPT ![active][r].name = edits']
                \/ tasks' = [tasks EXCEPT ![active][r].rest = edits']
       /\ latest' = [latest EXCEPT ![r] = IF Recorded(r) THEN tasks'[active][r] ELSE Absent]
       /\ conflicted' = conflicted \ {r}
       /\ spoilt' = Unplanned(r)
  /\ UNCHANGED <<chats, synced, active, merge, deleted, gone, setbacks>>

TakeTurn ==
  /\ AppRuns
  /\ edits < MaxEdits
  /\ edits' = edits + 1
  /\ \E c \in Chats :
       /\ Holds(active, c) \/ New(c)
       /\ chats' = [chats EXCEPT ![active][c] = edits']
  /\ UNCHANGED <<tasks, synced, active, merge, asideVars, setbacks>>

Delete ==
  /\ AppRuns
  /\ \E x \in Items :
       /\ Holds(active, x)
       /\ IF x \in Routines
          THEN /\ tasks' = [tasks EXCEPT ![active][x] = Absent]
               /\ latest' = [latest EXCEPT ![x] = Absent]
               /\ spoilt' = Unplanned(x)
               /\ UNCHANGED chats
          ELSE /\ chats' = [chats EXCEPT ![active][x] = 0]
               /\ UNCHANGED <<tasks, latest, spoilt>>
       /\ deleted' = deleted \cup {<<active, x>>}
  /\ UNCHANGED <<synced, active, merge, edits, gone, conflicted, setbacks>>

(***************************************************************************)
(* The user signs in as another account, in the application and by no      *)
(* switch: nothing is merged.                                              *)
(***************************************************************************)
SignIn ==
  /\ AppRuns
  /\ active' \in Owners \ {active}
  /\ UNCHANGED <<tasks, chats, synced, merge, edits, asideVars, setbacks>>

-----------------------------------------------------------------------------
(* The switch. *)

(***************************************************************************)
(* Planned under the lock; the plan is shown with its conflicts, and the   *)
(* user confirms some of the deletions.                                    *)
(***************************************************************************)
Plan ==
  /\ merge.pc = "idle"
  /\ \E t \in Owners, doomed \in SUBSET {c[2] : c \in Candidates},
        chosen \in [Routines -> UNION {CopiesOf(r) \cup {Canonical(r), Absent} : r \in Routines}] :
       /\ \A r \in Routines : chosen[r] \in Selected(t, r)
       /\ merge' = [pc |-> "prompt", target |-> t, tasks |-> chosen,
                 resolved |-> {r \in Routines : Holders(r) # {} /\ Resolved(r)},
                 chats |-> [c \in Chats |-> NewestTurn(c)], doomed |-> doomed, old |-> Absent]
  /\ conflicted' = conflicted \cup {r \in Routines : Holders(r) # {} /\ ~Resolved(r)}
  /\ UNCHANGED <<tasks, chats, synced, active, edits, latest, deleted, gone, spoilt, setbacks>>

Decline ==
  /\ merge.pc = "prompt"
  /\ merge' = NoMerge
  /\ UNCHANGED <<tasks, chats, synced, active, edits, asideVars, setbacks>>

(***************************************************************************)
(* The application has stopped and the registries are archived.            *)
(***************************************************************************)
Stop ==
  /\ merge.pc = "prompt"
  /\ merge' = [merge EXCEPT !.pc = "chats", !.old = tasks]
  /\ UNCHANGED <<tasks, chats, synced, active, edits, asideVars, setbacks>>

CopyChats ==
  /\ merge.pc = "chats"
  /\ chats' = [chats EXCEPT ![merge.target] =
                 [c \in Chats |-> IF merge.chats[c] > @[c] THEN merge.chats[c] ELSE @[c]]]
  /\ deleted' = deleted \ {<<merge.target, c>> : c \in {d \in Chats : merge.chats[d] # 0}}
  /\ Proceed("registry")
  /\ UNCHANGED <<tasks, synced, active, edits, latest, gone, conflicted, spoilt, setbacks>>

WriteRegistry ==
  /\ merge.pc = "registry"
  /\ tasks' = [tasks EXCEPT ![merge.target] = merge.tasks]
  /\ deleted' = deleted \ {<<merge.target, r>> : r \in {q \in Routines : merge.tasks[q] # Absent}}
  /\ Proceed("sweep")
  /\ UNCHANGED <<chats, synced, active, edits, latest, gone, conflicted, spoilt, setbacks>>

(***************************************************************************)
(* What was confirmed leaves every account whose files can be written; the *)
(* others are only noted.                                                  *)
(***************************************************************************)
SweepFrom(as) ==
  /\ tasks' = [a \in Owners |-> [r \in Routines |->
                 IF a \in as /\ r \in merge.doomed THEN Absent ELSE tasks[a][r]]]
  /\ chats' = [a \in Owners |-> [c \in Chats |->
                 IF a \in as /\ c \in merge.doomed THEN 0 ELSE chats[a][c]]]
  /\ deleted' = deleted \cup (as \X merge.doomed)
  /\ latest' = [r \in Routines |-> IF r \in merge.doomed THEN Absent ELSE latest[r]]

Sweep ==
  /\ merge.pc = "sweep"
  /\ \/ SweepFrom(Owners) /\ gone' = gone \cup merge.doomed /\ UNCHANGED setbacks
     \/ /\ Setback /\ merge.doomed # {} /\ UNCHANGED gone
        /\ \E a \in Owners : SweepFrom(Owners \ {a})
  /\ Proceed("names")
  /\ UNCHANGED <<synced, active, edits, conflicted, spoilt>>

(***************************************************************************)
(* Every copy gets the name the plan chose, those of a conflict too, in    *)
(* the registries that can be written.                                     *)
(***************************************************************************)
Named(a, r) == IF tasks[a][r] # Absent /\ merge.tasks[r] # Absent
               THEN [tasks[a][r] EXCEPT !.name = merge.tasks[r].name] ELSE tasks[a][r]

NameIn(as) ==
  tasks' = [a \in Owners |-> [r \in Routines |->
              IF a \in as THEN Named(a, r) ELSE tasks[a][r]]]

ConvergeNames ==
  /\ merge.pc = "names"
  /\ \/ NameIn(Owners) /\ UNCHANGED setbacks
     \/ Setback /\ \E as \in SUBSET Owners : NameIn(as)
  /\ Proceed("ledger")
  /\ UNCHANGED <<chats, synced, active, edits, asideVars>>

Row_ChatsOfAll_Bug(a) ==
  [tasks |-> tasks[a],
   canon |-> [r \in Routines |->
               IF r \in merge.resolved \ merge.doomed /\ Holders(r) # {}
               THEN merge.tasks[r] ELSE Absent],
   chats |-> {c \in Chats : \E b \in Owners : chats[b][c] # 0}]

Row(a) ==
  [tasks |-> tasks[a],
   canon |-> [r \in Routines |->
               IF r \in merge.resolved \ merge.doomed /\ Holders(r) # {}
               THEN merge.tasks[r] ELSE Absent],
   chats |-> {c \in Chats : chats[a][c] # 0}]

SaveLedger ==
  /\ merge.pc = "ledger"
  /\ synced' = [a \in Owners |-> Row(a)]
  /\ Proceed("login")
  /\ UNCHANGED <<tasks, chats, active, edits, asideVars, setbacks>>

(***************************************************************************)
(* Without the ledger a copy that was only given its new name looks edited.*)
(***************************************************************************)
TakenForEdited ==
  {r \in Routines : \E a \in Holders(r) : Change(a, r) = "yes" /\ tasks[a][r] # merge.tasks[r]}

LedgerNotSaved ==
  /\ merge.pc = "ledger"
  /\ Setback
  /\ spoilt' = spoilt \cup TakenForEdited
  /\ Proceed("login")
  /\ UNCHANGED <<tasks, chats, synced, active, edits, latest, deleted, gone, conflicted>>

(***************************************************************************)
(* The login is swapped, and the application opens as the target.          *)
(***************************************************************************)
Complete ==
  /\ merge.pc = "login"
  /\ active' = merge.target
  /\ merge' = NoMerge
  /\ UNCHANGED <<tasks, chats, synced, edits, asideVars, setbacks>>

(***************************************************************************)
(* A failure before or during the swap unpacks the archive, which has the  *)
(* registries and not the ledger.                                          *)
(***************************************************************************)
Abort ==
  /\ merge.pc \in {"chats", "registry", "login"}
  /\ Setback
  /\ tasks' = merge.old
  /\ spoilt' = IF merge.pc = "login"
               THEN spoilt \cup {r \in Routines : \E a \in Owners : tasks[a][r] # merge.old[a][r]}
               ELSE spoilt
  /\ gone' = gone \ {r \in Routines : \E a \in Owners : merge.old[a][r] # Absent}
  /\ merge' = NoMerge
  /\ UNCHANGED <<chats, synced, active, edits, latest, deleted, conflicted>>

CommandDies ==
  /\ merge.pc # "idle"
  /\ Setback
  /\ merge' = NoMerge
  /\ active' \in IF merge.pc = "login" THEN {active, merge.target} ELSE {active}
  /\ spoilt' = IF merge.pc = "ledger" THEN spoilt \cup TakenForEdited ELSE spoilt
  /\ UNCHANGED <<tasks, chats, synced, edits, latest, deleted, gone, conflicted>>

MergeNext ==
  \/ EditRoutine \/ TakeTurn \/ Delete \/ SignIn
  \/ Plan \/ Decline \/ Stop \/ CopyChats \/ WriteRegistry \/ Sweep \/ ConvergeNames
  \/ SaveLedger \/ LedgerNotSaved \/ Complete \/ Abort \/ CommandDies

MergeSpec == MergeInit /\ [][MergeNext]_mergeVars

-----------------------------------------------------------------------------
MergeTypeOK ==
  /\ tasks \in [Owners -> [Routines -> Definitions]]
  /\ chats \in [Owners -> [Chats -> Numbers]]
  /\ synced \in [Owners -> LedgerRows \cup {NoRow}]
  /\ active \in Owners
  /\ merge.target \in Owners \cup {Absent}
  /\ merge.resolved \subseteq Routines /\ merge.doomed \subseteq Items
  /\ edits \in Numbers
  /\ latest \in [Routines -> Definitions]
  /\ deleted \subseteq Owners \X Items
  /\ gone \subseteq Items /\ conflicted \subseteq Routines /\ spoilt \subseteq Routines
  /\ setbacks \in 0 .. MaxSetbacks

(***************************************************************************)
(* What the user last made of a routine is still in some account, through  *)
(* sign-ins, merges, sweeps, roll-backs and crashes: the three-way merge   *)
(* takes the edited copy over a stale one, whichever account it was edited *)
(* in, or reports a conflict.  Named exceptions: an edit made while a      *)
(* switch waits for its answer is missing from its plan and yet recorded   *)
(* as seen; a switch that fails after the ledger was written takes the     *)
(* registries back and not the ledger; and a copy that was given its new   *)
(* name before the ledger could not be written looks edited.               *)
(***************************************************************************)
NoEditIsLost ==
  \A r \in Routines \ (spoilt \cup conflicted) : latest[r] # Absent => latest[r] \in CopiesOf(r)

(***************************************************************************)
(* When a switch is complete the account it switched to shows the user's   *)
(* last edit of every routine, unless it reported a conflict for it (same  *)
(* exceptions).                                                            *)
(***************************************************************************)
TheNewestIsShown ==
  [][Complete =>
       \A r \in Routines \ (spoilt \cup conflicted) : latest[r] # Absent =>
         tasks'[active'][r] = latest[r]]_mergeVars

(***************************************************************************)
(* The switch asks about the deletion of what the user did delete in that  *)
(* account, and of nothing else: a routine or a chat that merely never     *)
(* arrived, or that another account has deleted since, is no candidate     *)
(* (same exceptions).                                                      *)
(***************************************************************************)
NoPhantomDeletions ==
  \A c \in Candidates : c \in deleted \/ c[2] \in spoilt

(***************************************************************************)
(* What was confirmed to be deleted, and left every account, never comes   *)
(* back from one of them.                                                  *)
(***************************************************************************)
DeletionsStay == \A x \in gone : Holders(x) = {}

(***************************************************************************)
(* A routine or chat leaves an account by the user's deletion only, and by *)
(* it for good: the two together.                                          *)
(***************************************************************************)
DeletionsAreTheUsers == NoPhantomDeletions /\ DeletionsStay
=============================================================================
