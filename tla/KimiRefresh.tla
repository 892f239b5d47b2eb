----------------------------- MODULE KimiRefresh -----------------------------
(***************************************************************************)
(* Refreshing the login that ai-usagebar shares with the Kimi Code CLI:    *)
(* bearer_token of src/src/kimi/fetch.rs and the lock of                   *)
(* src/src/kimi/lock.rs, run by ai-usagebar processes next to the CLI.     *)
(*                                                                         *)
(* The lock is the CLI's own: a directory, taken by mkdir, abandoned when  *)
(* its mtime is older than STALE, kept young by its holder's heartbeat.    *)
(* ai-usagebar puts a marker in it that names the acquisition.  Among      *)
(* themselves the ai-usagebar processes are serialised by the flock of     *)
(* their cache directory, which fetch_snapshot holds all along.            *)
(*                                                                         *)
(* Time is the age of the lock directory, in ticks.  The _Bug forms are    *)
(* plausible mistakes; no specification uses them.                         *)
(***************************************************************************)
EXTENDS Naturals

CONSTANTS Procs,      \* ai-usagebar processes
          Clis,       \* running Kimi Code CLIs
          NoOne,      \* no process
          Stale,      \* STALE, in ticks
          Heartbeat,  \* HEARTBEAT, in ticks
          MaxDeaths,  \* bound: clients that die
          MaxTokens   \* bound: refresh tokens issued

ASSUME KimiAssumption ==
  /\ NoOne \notin Procs \cup Clis
  /\ Procs \cap Clis = {}
  /\ Heartbeat \in Nat /\ Stale \in Nat /\ Heartbeat <= Stale
  /\ MaxDeaths \in Nat
  /\ MaxTokens \in Nat \ {0}

VARIABLES
  flock,   \* the ai-usagebar process that holds the cache's flock
  dir,     \* the lock directory: whether it is there, its marker, its age
  holder,  \* history: whose mkdir made the directory that is there
  beats,   \* the clients whose heartbeat task runs
  disk,    \* the credential file: its refresh token, and whether it is usable
  issued,  \* the refresh token the server accepts
  pc,      \* where each client is
  copy,    \* the refresh token each client read
  lost,    \* history: a rotated token never reached the file
  mishap,  \* history: a death, a late heartbeat, a marker that was not written
  deaths   \* how many clients have died

vars == <<flock, dir, holder, beats, disk, issued, pc, copy, lost, mishap, deaths>>

Clients == Procs \cup Clis

NoDir == [there |-> FALSE, owner |-> NoOne, age |-> 0]
NewDir == [there |-> TRUE, owner |-> NoOne, age |-> 0]
IsStale == dir.there /\ dir.age > Stale

(***************************************************************************)
(* From a successful mkdir to the end of the drop.                         *)
(***************************************************************************)
Critical == {"mark", "reread", "refresh", "save", "drop", "unlink"}

Init ==
  /\ flock = NoOne
  /\ dir = NoDir
  /\ holder = NoOne
  /\ beats = {}
  /\ disk \in [rt : {1}, usable : BOOLEAN]
  /\ issued = 1
  /\ pc = [c \in Clients |-> "idle"]
  /\ copy = [c \in Clients |-> 0]
  /\ lost = FALSE
  /\ mishap = FALSE
  /\ deaths = 0

tokens == <<disk, issued, lost>>
world == <<mishap, deaths>>

Goto(c, label) == pc' = [pc EXCEPT ![c] = label]

Return(p) ==
  /\ Goto(p, "idle")
  /\ flock' = IF flock = p THEN NoOne ELSE flock
  /\ copy' = [copy EXCEPT ![p] = 0]

-----------------------------------------------------------------------------
(* The lock directory. *)

Mkdir_NoHeartbeat_Bug(c) ==
  /\ ~dir.there
  /\ dir' = NewDir
  /\ holder' = c
  /\ UNCHANGED beats

Mkdir(c) ==
  /\ ~dir.there
  /\ dir' = NewDir
  /\ holder' = c
  /\ beats' = beats \cup {c}

Rmdir == dir' = NoDir /\ holder' = NoOne

(***************************************************************************)
(* One round of acquire_with: make the directory, or go and remove a stale *)
(* one, or wait for the next round unless the deadline has passed.         *)
(***************************************************************************)
Acquire(p) ==
  /\ pc[p] = "acquire"
  /\ \/ Mkdir(p) /\ Goto(p, "mark") /\ UNCHANGED <<flock, copy>>
     \/ IsStale /\ Goto(p, "steal") /\ UNCHANGED <<flock, dir, holder, beats, copy>>
     \/ dir.there /\ ~IsStale /\ Return(p) /\ UNCHANGED <<dir, holder, beats>>
  /\ UNCHANGED <<tokens, world>>

Steal_NotRecursive_Bug(p) ==
  /\ pc[p] = "steal"
  /\ IF dir.owner = NoOne THEN Rmdir ELSE UNCHANGED <<dir, holder>>
  /\ \/ Goto(p, "acquire") /\ UNCHANGED <<flock, copy>>
     \/ Return(p)
  /\ UNCHANGED <<beats, tokens, world>>

(***************************************************************************)
(* remove_dir_all of whatever is there by now.                             *)
(***************************************************************************)
Steal(p) ==
  /\ pc[p] = "steal"
  /\ Rmdir
  /\ \/ Goto(p, "acquire") /\ UNCHANGED <<flock, copy>>
     \/ Return(p)
  /\ UNCHANGED <<beats, tokens, world>>

(***************************************************************************)
(* hold: the marker goes into the directory of that name, best effort.     *)
(***************************************************************************)
Mark(p) ==
  /\ pc[p] = "mark"
  /\ \/ dir.there /\ dir' = [dir EXCEPT !.owner = p] /\ UNCHANGED mishap
     \/ mishap' = TRUE /\ UNCHANGED dir
  /\ Goto(p, "reread")
  /\ UNCHANGED <<flock, holder, beats, tokens, copy, deaths>>

Owns(p) == dir.there /\ dir.owner = p

(***************************************************************************)
(* The heartbeat task touches a directory that is its own and stops for    *)
(* good at one that is not.                                                *)
(***************************************************************************)
Beat(p) ==
  /\ p \in beats
  /\ pc[p] \in Critical \ {"mark"}
  /\ IF Owns(p) THEN dir' = [dir EXCEPT !.age = 0] /\ UNCHANGED beats
     ELSE beats' = beats \ {p} /\ UNCHANGED dir
  /\ UNCHANGED <<flock, holder, tokens, pc, copy, world>>

(***************************************************************************)
(* The drop looks at the marker and then removes the directory.            *)
(***************************************************************************)
Drop(p) ==
  /\ pc[p] = "drop"
  /\ IF Owns(p) THEN Goto(p, "unlink") /\ UNCHANGED <<flock, copy>> ELSE Return(p)
  /\ beats' = beats \ {p}
  /\ UNCHANGED <<dir, holder, tokens, world>>

Unlink(p) ==
  /\ pc[p] = "unlink"
  /\ Rmdir
  /\ Return(p)
  /\ UNCHANGED <<beats, tokens, world>>

-----------------------------------------------------------------------------
(* bearer_token. *)

Start(p) ==
  /\ pc[p] = "idle"
  /\ flock = NoOne
  /\ flock' = p
  /\ Goto(p, "read")
  /\ UNCHANGED <<dir, holder, beats, tokens, copy, world>>

Read(p) ==
  /\ pc[p] = "read"
  /\ IF disk.usable THEN Return(p)
     ELSE Goto(p, "acquire") /\ copy' = [copy EXCEPT ![p] = disk.rt] /\ UNCHANGED flock
  /\ UNCHANGED <<dir, holder, beats, tokens, world>>

Reread_KeepsItsCopy_Bug(p) ==
  /\ pc[p] = "reread"
  /\ Goto(p, "refresh")
  /\ UNCHANGED <<flock, dir, holder, beats, tokens, copy, world>>

(***************************************************************************)
(* The file is read again under the lock: the copy of before may be spent. *)
(***************************************************************************)
Reread(p) ==
  /\ pc[p] = "reread"
  /\ Goto(p, IF disk.usable THEN "drop" ELSE "refresh")
  /\ copy' = [copy EXCEPT ![p] = disk.rt]
  /\ UNCHANGED <<flock, dir, holder, beats, tokens, world>>

(***************************************************************************)
(* The server rotates the token, refuses a spent one, or its answer never  *)
(* arrives.                                                                *)
(***************************************************************************)
Refresh(p) ==
  /\ pc[p] = "refresh"
  /\ \/ /\ copy[p] = issued
        /\ issued < MaxTokens
        /\ issued' = issued + 1
        /\ \/ copy' = [copy EXCEPT ![p] = issued + 1] /\ Goto(p, "save") /\ UNCHANGED lost
           \/ lost' = TRUE /\ Goto(p, "drop") /\ UNCHANGED copy
     \/ Goto(p, "drop") /\ UNCHANGED <<issued, copy, lost>>
  /\ UNCHANGED <<flock, dir, holder, beats, disk, world>>

Save(p) ==
  /\ pc[p] = "save"
  /\ \/ disk' = [rt |-> copy[p], usable |-> TRUE] /\ UNCHANGED lost
     \/ lost' = TRUE /\ UNCHANGED disk
  /\ Goto(p, "drop")
  /\ UNCHANGED <<flock, dir, holder, beats, issued, copy, world>>

-----------------------------------------------------------------------------
(* The Kimi Code CLI, which speaks the same protocol without a marker, and *)
(* the rest of the world.                                                  *)

CliAcquires(c) ==
  /\ pc[c] = "idle"
  /\ ~disk.usable
  /\ \/ Mkdir(c) /\ Goto(c, "reread")
     \/ IsStale /\ Goto(c, "steal") /\ UNCHANGED <<dir, holder, beats>>
  /\ UNCHANGED <<flock, tokens, copy, world>>

CliSteals(c) ==
  /\ pc[c] = "steal"
  /\ Rmdir
  /\ Goto(c, "idle")
  /\ UNCHANGED <<flock, beats, tokens, copy, world>>

CliRereads(c) ==
  /\ pc[c] = "reread"
  /\ Goto(c, IF disk.usable THEN "drop" ELSE "refresh")
  /\ copy' = [copy EXCEPT ![c] = disk.rt]
  /\ UNCHANGED <<flock, dir, holder, beats, tokens, world>>

CliRefreshes(c) ==
  /\ pc[c] = "refresh"
  /\ IF copy[c] = issued /\ issued < MaxTokens
     THEN issued' = issued + 1 /\ disk' = [rt |-> issued + 1, usable |-> TRUE]
     ELSE UNCHANGED <<issued, disk>>
  /\ Goto(c, "drop")
  /\ UNCHANGED <<flock, dir, holder, beats, copy, lost, world>>

(***************************************************************************)
(* proper-lockfile tells a lock that was taken from it by its mtime.       *)
(***************************************************************************)
CliReleases(c) ==
  /\ pc[c] = "drop"
  /\ IF holder = c THEN Rmdir ELSE UNCHANGED <<dir, holder>>
  /\ beats' = beats \ {c}
  /\ Goto(c, "idle")
  /\ UNCHANGED <<flock, tokens, copy, world>>

CliBeats(c) ==
  /\ c \in beats
  /\ holder = c
  /\ dir.age > 0
  /\ dir' = [dir EXCEPT !.age = 0]
  /\ UNCHANGED <<flock, holder, beats, tokens, pc, copy, world>>

Crash(c) ==
  /\ deaths < MaxDeaths
  /\ deaths' = deaths + 1
  /\ mishap' = TRUE
  /\ pc[c] # "idle"
  /\ Goto(c, "idle")
  /\ flock' = IF flock = c THEN NoOne ELSE flock
  /\ beats' = beats \ {c}
  /\ copy' = [copy EXCEPT ![c] = 0]
  /\ lost' = (lost \/ pc[c] = "save")
  /\ UNCHANGED <<dir, holder, disk, issued>>

(***************************************************************************)
(* A heartbeat that comes too late (a suspended machine), or a removal     *)
(* that comes longer than one after the last.                              *)
(***************************************************************************)
Overdue ==
  /\ dir.age >= Heartbeat
  /\ \/ holder \in beats
     \/ holder \in Clients /\ pc[holder] = "unlink"

Tick ==
  /\ dir.there
  /\ dir.age <= Stale
  /\ dir' = [dir EXCEPT !.age = @ + 1]
  /\ mishap' = (mishap \/ Overdue)
  /\ UNCHANGED <<flock, holder, beats, tokens, pc, copy, deaths>>

TokenExpires ==
  /\ disk.usable
  /\ disk' = [disk EXCEPT !.usable = FALSE]
  /\ UNCHANGED <<flock, dir, holder, beats, issued, pc, copy, lost, world>>

Step(p) ==
  \/ Read(p) \/ Acquire(p) \/ Steal(p) \/ Mark(p) \/ Reread(p)
  \/ Refresh(p) \/ Save(p) \/ Drop(p) \/ Unlink(p)

Next ==
  \/ \E p \in Procs : Start(p) \/ Step(p) \/ Beat(p)
  \/ \E c \in Clis : \/ CliAcquires(c) \/ CliSteals(c) \/ CliRereads(c)
                      \/ CliRefreshes(c) \/ CliReleases(c) \/ CliBeats(c)
  \/ \E c \in Clients : Crash(c)
  \/ Tick
  \/ TokenExpires

Spec == Init /\ [][Next]_vars

(***************************************************************************)
(* A running process is scheduled, the bar keeps polling, time passes.     *)
(***************************************************************************)
FairSpec ==
  /\ Spec
  /\ \A p \in Procs : WF_vars(Start(p)) /\ WF_vars(Step(p))
  /\ WF_vars(Tick)

-----------------------------------------------------------------------------
(* Properties. *)

(***************************************************************************)
(* The shape of the lock directory, the credential file and each client's  *)
(* progress.                                                               *)
(***************************************************************************)
TypeOK ==
  /\ flock \in Procs \cup {NoOne}
  /\ dir \in [there : BOOLEAN, owner : Procs \cup {NoOne}, age : 0 .. Stale + 1]
  /\ holder \in Clients \cup {NoOne}
  /\ beats \subseteq Clients
  /\ disk \in [rt : 1 .. MaxTokens, usable : BOOLEAN]
  /\ issued \in 1 .. MaxTokens
  /\ pc \in [Clients -> {"idle", "read", "acquire", "steal"} \cup Critical]
  /\ copy \in [Clients -> 0 .. MaxTokens]
  /\ lost \in BOOLEAN
  /\ mishap \in BOOLEAN
  /\ deaths \in 0 .. MaxDeaths

(***************************************************************************)
(* What the protocol relies on: the clients of the directory are the       *)
(* ai-usagebar processes alone, whom the flock keeps apart, or none has    *)
(* died, been late or left the directory unmarked.  Otherwise two clients  *)
(* may find one directory abandoned, and the slower one removes what the   *)
(* quicker one has made meanwhile.                                         *)
(***************************************************************************)
KeptApart == Clis = {} \/ ~mishap

(***************************************************************************)
(* At most one client is between its mkdir and its release: two            *)
(* ai-usagebar processes never both, whatever dies, is late or goes        *)
(* unmarked; one of them and a CLI only after such a mishap.               *)
(***************************************************************************)
LockExclusive ==
  \A c, d \in Clients :
    pc[c] \in Critical /\ pc[d] \in Critical =>
      c = d \/ (~KeptApart /\ (c \in Clis \/ d \in Clis))

(***************************************************************************)
(* The token a client is about to send is the one in the file: nobody      *)
(* burns a token that another client has already exchanged.                *)
(***************************************************************************)
SendsWhatTheFileHolds ==
  KeptApart => \A c \in Clients : pc[c] = "refresh" => copy[c] = disk.rt

(***************************************************************************)
(* The token in the file is one the server accepts, unless an answer or a  *)
(* write was lost.                                                         *)
(***************************************************************************)
FileTokenIsLive ==
  KeptApart =>
    lost \/ disk.rt = issued \/ \E p \in Procs : pc[p] = "save" /\ copy[p] = issued

(***************************************************************************)
(* A directory left behind by a dead client does not keep the others from  *)
(* refreshing an unusable token for good.                                  *)
(***************************************************************************)
Abandoned == dir.there /\ \A c \in Clients : pc[c] \notin Critical

AbandonedLockGoes == Abandoned /\ ~disk.usable ~> ~Abandoned \/ disk.usable

(***************************************************************************)
(* The login shared with the CLI rotates as the provider asks: only the    *)
(* stored token is sent, by one client at a time, and the new one is       *)
(* stored before anyone asks again, whatever waits, steals and rereads lie *)
(* between.  What breaks it is a token lost, or a mishap next to a CLI.    *)
(***************************************************************************)
Sending == {c \in Clients : pc[c] = "refresh"}

Rotation == INSTANCE TokenRotation
  WITH stored <- disk.rt, accepted <- issued,
       asking <- {copy[c] : c \in Sending},
       inFlight <- \E p \in Procs : pc[p] = "save",
       broken <- lost \/ ~KeptApart

RotatesInTurn == Rotation!Spec
=============================================================================
