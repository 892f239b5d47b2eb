------------------------------ MODULE SelfUpdate ------------------------------
(***************************************************************************)
(* How the Windows and macOS trays update themselves: the worker of        *)
(* src/src/tray/updates.rs, the install of src/src/tray/update_flow.rs and *)
(* the swap of src/src/update.rs, with the restart of the tray around it   *)
(* and the hand-off to Scoop, which installs in the tray's place.          *)
(*                                                                         *)
(* The binaries are replaced one after the other: the old one is renamed   *)
(* aside, the new one moved in; a failure undoes what was done.  The tray  *)
(* deletes what was put aside when it next starts.  Versions are numbers;  *)
(* 0 is no file, no process, no version.  The hour between checks is left  *)
(* out: a check may come at any time.  The _Bug forms are plausible        *)
(* mistakes; no specification uses them.                                   *)
(***************************************************************************)
EXTENDS Integers, Sequences, SequencesExt

CONSTANTS Binaries,    \* the binaries of a release, the tray first
          Platforms,   \* "windows", "macos", "scoop"
          MaxVersion,  \* bound: releases
          MaxTroubles  \* bound: failing steps and killed trays

UpdateAssumption ==
  /\ Binaries \in Seq(ToSet(Binaries)) /\ Binaries # <<>>
  /\ \A i, j \in DOMAIN Binaries : Binaries[i] = Binaries[j] => i = j
  /\ Platforms \subseteq {"windows", "macos", "scoop"}
  /\ MaxVersion \in Nat \ {0} /\ MaxTroubles \in Nat

VARIABLES
  platform,  \* where the tray runs, and who installed it
  installed, \* the version of each binary
  old,       \* the version put aside as <binary>.old
  running,   \* the version of the running tray
  latest,    \* the latest release and the binaries it ships
  mode,      \* "off", "notify" or "auto"
  state,     \* the worker's UpdateState
  saved,     \* update.json
  offered,   \* pending: the release found, and whether it can be installed
  fact,      \* what the popover says of updates
  job,       \* the worker's step
  leaving,   \* what the worker told the host to restart as: "no", "exe", "scoop"
  scoop,     \* the version the hand-off script is to install
  handoffs,  \* history: background hand-offs of each version
  mishaps,   \* history: "killed", "stuck", "swept"
  troubles   \* how many steps have failed

files == <<installed, old>>
worker == <<state, saved, offered, fact, job, leaving>>
updateVars == <<platform, files, running, latest, mode, worker, scoop, handoffs, mishaps, troubles>>

Names == ToSet(Binaries)
Positions == DOMAIN Binaries
Tray == Binaries[1]
Versions == 1 .. MaxVersion
Nothing == [version |-> 0, ships |-> {}, ok |-> FALSE]

(***************************************************************************)
(* What the worker does: its step, whether the user asked for it, which    *)
(* binaries (their positions) the swap has before and behind it, those it  *)
(* put aside, and what was installed when it began.                        *)
(***************************************************************************)
Job(pc, manual, todo, done, aside, was) ==
  [pc |-> pc, manual |-> manual, todo |-> todo, done |-> done, aside |-> aside, was |-> was]
Begun(pc, manual) == Job(pc, manual, {}, {}, {}, [b \in Names |-> 0])
Idle == Begun("idle", FALSE)

UpdateInit ==
  /\ platform \in Platforms
  /\ installed \in [Names -> {0, 1}] /\ installed[Tray] = 1
  /\ platform # "macos" => \A b \in Names : installed[b] = 1
  /\ old = [b \in Names |-> 0]
  /\ running = 1
  /\ latest = [version |-> 1, ships |-> Names]
  /\ mode \in {"off", "notify", "auto"}
  /\ state = [handed |-> 0, snoozed |-> 0]
  /\ saved = state
  /\ offered = Nothing
  /\ fact = "none"
  /\ job = Idle
  /\ leaving = "no"
  /\ scoop = 0
  /\ handoffs = [v \in Versions |-> 0]
  /\ mishaps = {}
  /\ troubles = 0

Trouble == troubles < MaxTroubles /\ troubles' = troubles + 1
Fine == UNCHANGED troubles
Ready == running # 0 /\ job.pc = "idle"
Go(pc) == job' = [job EXCEPT !.pc = pc]
Proceed(pc, todo, done, aside) == job' = Job(pc, job.manual, todo, done, aside, job.was)

(***************************************************************************)
(* update.json is written whole, and perhaps not at all.                   *)
(***************************************************************************)
Persist == \/ saved' = state' /\ Fine
           \/ saved' = saved /\ Trouble

-----------------------------------------------------------------------------
(* The world. *)

Publish ==
  /\ latest.version < MaxVersion
  /\ \E ships \in SUBSET Names : latest' = [version |-> latest.version + 1, ships |-> ships]
  /\ UNCHANGED <<platform, files, running, mode, worker, scoop, handoffs, mishaps, troubles>>

(***************************************************************************)
(* A starting tray deletes what an update put aside, and reads in          *)
(* update.json what it left to Scoop.                                      *)
(***************************************************************************)
Sweep ==
  /\ old' \in {old, [b \in Names |-> 0]}
  /\ mishaps' = mishaps \cup
       IF \E b \in Names : installed'[b] = 0 /\ old[b] # 0 /\ old'[b] = 0 THEN {"swept"} ELSE {}

Arrived == saved.handed <= running'

Begins ==
  /\ running' = installed'[Tray]
  /\ Sweep
  /\ state' = IF Arrived THEN [saved EXCEPT !.handed = 0] ELSE saved
  /\ saved' = state'
  /\ fact' = IF Arrived THEN "none" ELSE "failed"
  /\ offered' = Nothing
  /\ job' = Idle
  /\ leaving' = "no"

UserStarts ==
  /\ running = 0
  /\ installed[Tray] # 0
  /\ UNCHANGED installed
  /\ Begins
  /\ UNCHANGED <<platform, latest, mode, scoop, handoffs, troubles>>

(***************************************************************************)
(* Killed, or quit by the user or for a restart: nobody waits for the      *)
(* worker.                                                                 *)
(***************************************************************************)
Swapping == job.pc \in {"swap", "place", "undo"}

Ends ==
  /\ running' = 0
  /\ state' = saved
  /\ offered' = Nothing
  /\ fact' = "none"
  /\ job' = Idle
  /\ leaving' = "no"
  /\ mishaps' = mishaps \cup IF Swapping THEN {"killed"} ELSE {}

Killed ==
  /\ running # 0
  /\ Trouble
  /\ Ends
  /\ UNCHANGED <<platform, files, latest, mode, saved, scoop, handoffs>>

(***************************************************************************)
(* The host starts the new tray, if it is there, and exits.                *)
(***************************************************************************)
Restart ==
  /\ leaving = "exe"
  /\ IF Swapping
     THEN Ends /\ UNCHANGED <<files, saved>>
     ELSE UNCHANGED installed /\ Begins
  /\ UNCHANGED <<platform, latest, mode, scoop, handoffs, troubles>>

LeaveToScoop ==
  /\ leaving = "scoop"
  /\ Ends
  /\ UNCHANGED <<platform, files, latest, mode, saved, scoop, handoffs, troubles>>

(***************************************************************************)
(* The hand-off script: Scoop installs all binaries of the newest version  *)
(* its bucket has, or nothing yet; the tray is started in any case.        *)
(***************************************************************************)
ScoopRuns ==
  /\ scoop # 0
  /\ running = 0
  /\ \/ UNCHANGED installed
     \/ \E v \in installed[Tray] .. latest.version : installed' = [b \in Names |-> v]
  /\ scoop' = 0
  /\ Begins
  /\ UNCHANGED <<platform, latest, mode, handoffs, troubles>>

-----------------------------------------------------------------------------
(* The worker: check. *)

BeginCheck(manual) ==
  /\ job' = Begun("asking", manual)
  /\ fact' = IF manual THEN "checking" ELSE fact
  /\ UNCHANGED state
  /\ Persist

Check ==
  /\ Ready
  /\ \E manual \in BOOLEAN :
       /\ manual \/ mode # "off"
       /\ BeginCheck(manual)
  /\ UNCHANGED <<platform, files, running, latest, mode, offered, leaving, scoop, handoffs, mishaps>>

CanInstall(release) == platform = "scoop" \/ Tray \in release.ships

MayHandOff_Again_Bug(manual, release) == release.ok
MayHandOff(manual, release) == release.ok /\ (manual \/ state.handed # release.version)

FoundNewer ==
  /\ job.pc = "asking"
  /\ running < latest.version
  /\ offered' = [version |-> latest.version, ships |-> latest.ships, ok |-> CanInstall(latest)]
  /\ fact' = IF ~job.manual /\ state.snoozed = latest.version THEN "none" ELSE "available"
  /\ IF mode = "auto" /\ MayHandOff(job.manual, offered') THEN Go("install") ELSE job' = Idle
  /\ UNCHANGED <<platform, files, running, latest, mode, state, saved, leaving, scoop, handoffs,
                 mishaps, troubles>>

UpToDate_Silent_Bug ==
  /\ job.pc = "asking"
  /\ running >= latest.version
  /\ offered' = Nothing
  /\ job' = Idle
  /\ UNCHANGED <<platform, files, running, latest, mode, state, saved, fact, leaving, scoop, handoffs,
                 mishaps, troubles>>

UpToDate ==
  /\ job.pc = "asking"
  /\ running >= latest.version
  /\ offered' = Nothing
  /\ fact' = "none"
  /\ job' = Idle
  /\ UNCHANGED <<platform, files, running, latest, mode, state, saved, leaving, scoop, handoffs,
                 mishaps, troubles>>

(***************************************************************************)
(* A check in the background stays quiet.                                  *)
(***************************************************************************)
CheckFails ==
  /\ job.pc = "asking"
  /\ fact' = IF job.manual THEN "failed" ELSE fact
  /\ job' = Idle
  /\ UNCHANGED <<platform, files, running, latest, mode, state, saved, offered, leaving, scoop,
                 handoffs, mishaps, troubles>>

(***************************************************************************)
(* The user's commands.                                                    *)
(***************************************************************************)
InstallOrCheck ==
  /\ Ready
  /\ IF offered = Nothing
     THEN BeginCheck(TRUE)
     ELSE /\ job' = Begun("install", TRUE)
          /\ UNCHANGED <<state, saved, fact, troubles>>
  /\ UNCHANGED <<platform, files, running, latest, mode, offered, leaving, scoop, handoffs, mishaps>>

Snooze ==
  /\ Ready
  /\ IF offered = Nothing
     THEN UNCHANGED <<state, saved, troubles>>
     ELSE state' = [state EXCEPT !.snoozed = offered.version] /\ Persist
  /\ fact' = "none"
  /\ UNCHANGED <<platform, files, running, latest, mode, offered, job, leaving, scoop, handoffs,
                 mishaps>>

SetMode ==
  /\ Ready
  /\ \E m \in {"off", "notify", "auto"} \ {mode} :
       /\ mode' = m
       /\ \/ /\ m = "auto" /\ MayHandOff(FALSE, offered)
             /\ job' = Begun("install", FALSE)
             /\ UNCHANGED <<state, saved, fact, troubles>>
          \/ m # "off" /\ ~(m = "auto" /\ MayHandOff(FALSE, offered)) /\ BeginCheck(FALSE)
          \/ /\ ~(m = "auto" /\ MayHandOff(FALSE, offered))
             /\ UNCHANGED <<state, saved, fact, job, troubles>>
  /\ UNCHANGED <<platform, files, running, latest, offered, leaving, scoop, handoffs, mishaps>>

-----------------------------------------------------------------------------
(* The worker: install. *)

NotHere ==
  /\ job.pc = "install"
  /\ ~offered.ok
  /\ job' = Idle
  /\ UNCHANGED <<platform, files, running, latest, mode, state, saved, offered, fact, leaving, scoop,
                 handoffs, mishaps, troubles>>

(***************************************************************************)
(* What is handed to Scoop is on disk before Scoop is started.             *)
(***************************************************************************)
HandOff ==
  /\ job.pc = "install" /\ offered.ok
  /\ platform = "scoop"
  /\ state' = [state EXCEPT !.handed = offered.version]
  /\ saved' = state'
  /\ fact' = "installing"
  /\ Go("spawn")
  /\ UNCHANGED <<platform, files, running, latest, mode, offered, leaving, scoop, handoffs, mishaps,
                 troubles>>

(***************************************************************************)
(* Either write of update.json may fail.                                   *)
(***************************************************************************)
CannotHandOff ==
  /\ \/ job.pc = "install" /\ offered.ok /\ platform = "scoop"
     \/ job.pc = "spawn"
  /\ Trouble
  /\ state' = [state EXCEPT !.handed = 0]
  /\ saved' \in {saved, state'}
  /\ handoffs' = [handoffs EXCEPT ![offered.version] = 0]
  /\ fact' = "failed"
  /\ job' = Idle
  /\ UNCHANGED <<platform, files, running, latest, mode, offered, leaving, scoop, mishaps>>

SpawnScoop ==
  /\ job.pc = "spawn"
  /\ scoop' = offered.version
  /\ leaving' = "scoop"
  /\ handoffs' = IF job.manual THEN handoffs ELSE [handoffs EXCEPT ![offered.version] = @ + 1]
  /\ job' = Idle
  /\ UNCHANGED <<platform, files, running, latest, mode, state, saved, offered, fact, mishaps, troubles>>

(***************************************************************************)
(* Off Windows, only what is installed already is replaced.                *)
(***************************************************************************)
Chosen(there) ==
  {i \in Positions : /\ Binaries[i] \in offered.ships
                     /\ platform = "windows" \/ Binaries[i] = Tray \/ there[Binaries[i]] # 0}

Download ==
  /\ job.pc = "install" /\ offered.ok
  /\ platform # "scoop"
  /\ fact' = "downloading"
  /\ job' = Job("swap", job.manual, Chosen(installed), {}, {}, installed)
  /\ UNCHANGED <<platform, files, running, latest, mode, state, saved, offered, leaving, scoop,
                 handoffs, mishaps, troubles>>

DownloadFails ==
  /\ job.pc = "install" /\ offered.ok
  /\ platform # "scoop"
  /\ fact' = "failed"
  /\ job' = Idle
  /\ UNCHANGED <<platform, files, running, latest, mode, state, saved, offered, leaving, scoop,
                 handoffs, mishaps, troubles>>

-----------------------------------------------------------------------------
(* stage_swap. *)

Swapped == Binaries[Min(job.todo)]

PutAside_Removes_Bug ==
  /\ job.pc = "swap" /\ job.todo # {}
  /\ installed' = [installed EXCEPT ![Swapped] = 0]
  /\ Go("place")
  /\ UNCHANGED <<platform, old, running, latest, mode, state, saved, offered, fact, leaving, scoop,
                 handoffs, mishaps, troubles>>

PutAside ==
  /\ job.pc = "swap" /\ job.todo # {}
  /\ IF installed[Swapped] # 0
     THEN /\ old' = [old EXCEPT ![Swapped] = installed[Swapped]]
          /\ installed' = [installed EXCEPT ![Swapped] = 0]
          /\ Proceed("place", job.todo, job.done, job.aside \cup {Swapped})
     ELSE /\ UNCHANGED files
          /\ Go("place")
  /\ UNCHANGED <<platform, running, latest, mode, state, saved, offered, fact, leaving, scoop,
                 handoffs, mishaps, troubles>>

(***************************************************************************)
(* The stale file put aside earlier goes first, and may be all that goes.  *)
(***************************************************************************)
CannotPutAside ==
  /\ job.pc = "swap" /\ job.todo # {}
  /\ installed[Swapped] # 0
  /\ Trouble
  /\ old' \in {old, [old EXCEPT ![Swapped] = 0]}
  /\ Go("undo")
  /\ UNCHANGED <<platform, installed, running, latest, mode, state, saved, offered, fact, leaving,
                 scoop, handoffs, mishaps>>

Place ==
  /\ job.pc = "place"
  /\ installed' = [installed EXCEPT ![Swapped] = offered.version]
  /\ Proceed("swap", job.todo \ {Min(job.todo)}, job.done \cup {Min(job.todo)}, job.aside)
  /\ UNCHANGED <<platform, old, running, latest, mode, state, saved, offered, fact, leaving, scoop,
                 handoffs, mishaps, troubles>>

(***************************************************************************)
(* What was put aside comes back, if that can be renamed.                  *)
(***************************************************************************)
ComesBack(b) ==
  \/ /\ installed' = [installed EXCEPT ![b] = IF b \in job.aside THEN old[b] ELSE 0]
     /\ old' = IF b \in job.aside THEN [old EXCEPT ![b] = 0] ELSE old
     /\ UNCHANGED mishaps
  \/ /\ b \in job.aside
     /\ installed' = [installed EXCEPT ![b] = 0]
     /\ mishaps' = mishaps \cup {"stuck"}
     /\ UNCHANGED old

CannotPlace_KeepsOthers_Bug ==
  /\ job.pc = "place"
  /\ Trouble
  /\ ComesBack(Swapped)
  /\ Proceed("undo", job.todo, {}, job.aside)
  /\ UNCHANGED <<platform, running, latest, mode, state, saved, offered, fact, leaving, scoop, handoffs>>

CannotPlace ==
  /\ job.pc = "place"
  /\ Trouble
  /\ ComesBack(Swapped)
  /\ Go("undo")
  /\ UNCHANGED <<platform, running, latest, mode, state, saved, offered, fact, leaving, scoop, handoffs>>

(***************************************************************************)
(* rollback, newest first.                                                 *)
(***************************************************************************)
Undo ==
  /\ job.pc = "undo" /\ job.done # {}
  /\ ComesBack(Binaries[Max(job.done)])
  /\ Proceed("undo", job.todo, job.done \ {Max(job.done)}, job.aside)
  /\ UNCHANGED <<platform, running, latest, mode, state, saved, offered, fact, leaving, scoop,
                 handoffs, troubles>>

InstallFailed ==
  /\ job.pc = "undo" /\ job.done = {}
  /\ fact' = "failed"
  /\ job' = Idle
  /\ UNCHANGED <<platform, files, running, latest, mode, state, saved, offered, leaving, scoop,
                 handoffs, mishaps, troubles>>

Installed ==
  /\ job.pc = "swap" /\ job.todo = {}
  /\ fact' = "installing"
  /\ leaving' = "exe"
  /\ job' = Idle
  /\ UNCHANGED <<platform, files, running, latest, mode, state, saved, offered, scoop, handoffs,
                 mishaps, troubles>>

Answer == FoundNewer \/ UpToDate \/ CheckFails
Install == NotHere \/ HandOff \/ CannotHandOff \/ SpawnScoop \/ Download \/ DownloadFails
Swap == PutAside \/ CannotPutAside \/ Place \/ CannotPlace \/ Undo \/ InstallFailed \/ Installed
World == Publish \/ UserStarts \/ Killed \/ Restart \/ LeaveToScoop \/ ScoopRuns

UpdateNext == World \/ Check \/ InstallOrCheck \/ Snooze \/ SetMode \/ Answer \/ Install \/ Swap

UpdateSpec == UpdateInit /\ [][UpdateNext]_updateVars
FairUpdateSpec == UpdateSpec /\ WF_updateVars(Answer \/ Install \/ Swap)
-----------------------------------------------------------------------------
Updates == [handed : 0 .. MaxVersion, snoozed : 0 .. MaxVersion]
Releases == [version : 0 .. MaxVersion, ships : SUBSET Names, ok : BOOLEAN]
Jobs ==
  {j \in [pc : {"idle", "asking", "install", "spawn", "swap", "place", "undo"}, manual : BOOLEAN,
          todo : SUBSET Positions, done : SUBSET Positions, aside : SUBSET Names,
          was : [Names -> 0 .. MaxVersion]] : j.pc = "place" => j.todo # {}}

UpdateTypeOK ==
  /\ platform \in Platforms
  /\ installed \in [Names -> 0 .. MaxVersion] /\ old \in [Names -> 0 .. MaxVersion]
  /\ running \in 0 .. MaxVersion
  /\ latest \in [version : Versions, ships : SUBSET Names]
  /\ mode \in {"off", "notify", "auto"}
  /\ state \in Updates /\ saved \in Updates /\ scoop \in 0 .. MaxVersion
  /\ offered \in Releases
  /\ fact \in {"none", "checking", "available", "downloading", "installing", "failed"}
  /\ job \in Jobs
  /\ leaving \in {"no", "exe", "scoop"}
  /\ handoffs \in [Versions -> Nat]
  /\ mishaps \subseteq {"killed", "stuck", "swept"}
  /\ troubles \in 0 .. MaxTroubles

(***************************************************************************)
(* An install that succeeds has put the new version under every name it    *)
(* chose and left the rest alone, and one that fails, at whichever binary, *)
(* has left all names as they were: stage_swap never ends half way.  Named *)
(* exceptions: a tray killed or quit in the middle, since nobody waits for *)
(* the worker, and a roll-back that cannot rename.                         *)
(***************************************************************************)
WholeOrAsBefore ==
  mishaps = {} =>
    /\ job.pc = "swap" /\ job.todo = {} =>
         installed = [b \in Names |-> IF \E i \in Chosen(job.was) : Binaries[i] = b
                                     THEN offered.version ELSE job.was[b]]
    /\ job.pc = "undo" /\ job.done = {} => installed = job.was

Somewhere(b) == installed[b] # 0 \/ old[b] # 0

(***************************************************************************)
(* No step leaves a binary without a file: what is replaced is there under *)
(* its name or as <binary>.old until the new one is in place, through      *)
(* failures, roll-backs and kills, unless the failing install has itself   *)
(* put it there.  Named exception: the next start takes the .old of a      *)
(* binary that never came back for a leftover, and deletes the last copy.  *)
(***************************************************************************)
NothingIsLost ==
  [][\A b \in Names : Somewhere(b) /\ ~Somewhere(b)' =>
       "swept" \in mishaps' \/ (Swapping /\ job.was[b] = 0)]_updateVars

(***************************************************************************)
(* In automatic mode a version is handed to Scoop once: while Scoop's      *)
(* bucket lags behind, the tray is not quit for it again by every hourly   *)
(* check, whatever restarts lie between.  A hand-off of it that failed     *)
(* since does not count.                                                   *)
(***************************************************************************)
HandedOffOnce == \A v \in Versions : handoffs[v] <= 1

(***************************************************************************)
(* The dialog that reads "Checking" always gets an answer, also when the   *)
(* check turns into an install or the network fails.                       *)
(***************************************************************************)
CheckIsAnswered == fact = "checking" ~> fact # "checking"
=============================================================================
