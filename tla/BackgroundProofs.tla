-------------------------- MODULE BackgroundProofs --------------------------
(***************************************************************************)
(* What holds of the two things done behind the user's back.               *)
(*                                                                         *)
(* KimiRefresh, for every number of processes and CLIs, any bounds and     *)
(* whatever goes wrong: the flock of the cache directory serialises the    *)
(* ai-usagebar processes, so the weaknesses of the lock directory cannot   *)
(* show among them; next to a CLI the directory does the same until the    *)
(* first death, late heartbeat or unwritten marker.  On this rest the      *)
(* theorems about the tokens.                                              *)
(*                                                                         *)
(* SelfUpdate, for any binaries, releases, failing steps and killed trays. *)
(***************************************************************************)
EXTENDS KimiRefresh, SelfUpdate, FiniteSetTheorems, WellFoundedInduction, TLAPS

-----------------------------------------------------------------------------
(* The refresh of the Kimi login. *)

(***************************************************************************)
(* Every step keeps the types.                                             *)
(***************************************************************************)
Labels == {"idle", "read", "acquire", "steal"} \cup Critical

LEMMA ReturnType ==
  ASSUME TypeOK, NEW p \in Procs, Return(p)
  PROVE  /\ flock' \in Procs \cup {NoOne}
         /\ pc' \in [Clients -> Labels]
         /\ copy' \in [Clients -> 0 .. MaxTokens]
<1>0. Procs \subseteq Clients
  BY DEF Clients
<1>1. pc' \in [Clients -> Labels]
  BY <1>0 DEF TypeOK, Return, Goto, Labels
<1>2. copy' \in [Clients -> 0 .. MaxTokens]
  <2>1. 0 \in 0 .. MaxTokens
    BY KimiAssumption
  <2>2. copy \in [Clients -> 0 .. MaxTokens] /\ copy' = [copy EXCEPT ![p] = 0]
    BY DEF TypeOK, Return
  <2> QED BY <2>1, <2>2
<1>3. flock' \in Procs \cup {NoOne}
  BY DEF TypeOK, Return
<1> QED BY <1>1, <1>2, <1>3

LEMMA SavedType ==
  ASSUME NEW rt \in 1 .. MaxTokens
  PROVE  [rt |-> rt, usable |-> TRUE] \in [rt : 1 .. MaxTokens, usable : BOOLEAN]
OBVIOUS

LEMMA DirTypes ==
  /\ NoDir \in [there : BOOLEAN, owner : Procs \cup {NoOne}, age : 0 .. Stale + 1]
  /\ NewDir \in [there : BOOLEAN, owner : Procs \cup {NoOne}, age : 0 .. Stale + 1]
BY KimiAssumption DEF NoDir, NewDir

(***************************************************************************)
(* TypeOK alone is not inductive: a token that was never read could be     *)
(* saved.                                                                  *)
(***************************************************************************)
SavesAToken == \A p \in Procs : pc[p] = "save" => copy[p] \in 1 .. MaxTokens

TypeInv == TypeOK /\ SavesAToken

LEMMA TypeInit == Init => TypeInv
<1> SUFFICES ASSUME Init PROVE TypeInv
  OBVIOUS
<1>1. dir \in [there : BOOLEAN, owner : Procs \cup {NoOne}, age : 0 .. Stale + 1]
  BY DirTypes DEF Init
<1>2. disk \in [rt : 1 .. MaxTokens, usable : BOOLEAN] /\ issued \in 1 .. MaxTokens
  BY KimiAssumption DEF Init
<1>3. /\ pc \in [Clients -> {"idle", "read", "acquire", "steal"} \cup Critical]
      /\ copy \in [Clients -> 0 .. MaxTokens]
      /\ deaths \in 0 .. MaxDeaths
  BY KimiAssumption DEF Init
<1> QED BY <1>1, <1>2, <1>3 DEF Init, TypeInv, TypeOK, SavesAToken, Clients

LEMMA TypeStep == TypeInv /\ [Next]_vars => TypeOK'
<1> SUFFICES ASSUME TypeOK, SavesAToken, [Next]_vars PROVE TypeOK'
  BY DEF TypeInv
<1> USE KimiAssumption DEF TypeOK, tokens, world, Goto, Critical
<1>0. Procs \subseteq Clients /\ Clis \subseteq Clients
  BY DEF Clients
<1>1. ASSUME NEW p \in Procs, Start(p) \/ Step(p) \/ Beat(p)
      PROVE  TypeOK'
  <2>1. CASE Start(p)     BY <1>0, <2>1 DEF Start
  <2>2. CASE Read(p)      BY <1>0, <2>2, ReturnType DEF Read, Labels
  <2>3. CASE Acquire(p)   BY <1>0, <2>3, ReturnType, DirTypes DEF Acquire, Mkdir, Labels
  <2>4. CASE Steal(p)     BY <1>0, <2>4, ReturnType, DirTypes DEF Steal, Rmdir, Labels
  <2>5. CASE Mark(p)
    <3>1. mishap' \in BOOLEAN
      BY <2>5 DEF Mark
    <3>2. dir' \in [there : BOOLEAN, owner : Procs \cup {NoOne}, age : 0 .. Stale + 1]
      BY <2>5 DEF Mark
    <3> QED BY <1>0, <2>5, <3>1, <3>2 DEF Mark
  <2>6. CASE Reread(p)    BY <1>0, <2>6 DEF Reread
  <2>7. CASE Refresh(p)
    <3>1. issued' \in 1 .. MaxTokens /\ copy' \in [Clients -> 0 .. MaxTokens]
      BY <1>0, <2>7 DEF Refresh
    <3>2. lost' \in BOOLEAN
      BY <2>7 DEF Refresh
    <3>3. pc' \in [Clients -> {"idle", "read", "acquire", "steal"} \cup Critical]
      BY <1>0, <2>7 DEF Refresh
    <3> QED BY <2>7, <3>1, <3>2, <3>3 DEF Refresh
  <2>8. CASE Save(p)
    <3>1. copy[p] \in 1 .. MaxTokens
      BY <2>8 DEF Save, SavesAToken
    <3>2. disk' \in [rt : 1 .. MaxTokens, usable : BOOLEAN]
      <4>1. disk' = [rt |-> copy[p], usable |-> TRUE] \/ disk' = disk
        BY <2>8 DEF Save
      <4> QED BY <3>1, <4>1, SavedType, Zenon
    <3> QED BY <1>0, <2>8, <3>2 DEF Save
  <2>9. CASE Drop(p)      BY <1>0, <2>9, ReturnType DEF Drop, Labels
  <2>10. CASE Unlink(p)   BY <1>0, <2>10, ReturnType, DirTypes DEF Unlink, Rmdir, Labels
  <2>11. CASE Beat(p)     BY <1>0, <2>11 DEF Beat
  <2> QED BY <1>1, <2>1, <2>2, <2>3, <2>4, <2>5, <2>6, <2>7, <2>8, <2>9, <2>10, <2>11 DEF Step
<1>2. ASSUME NEW c \in Clis, \/ CliAcquires(c) \/ CliSteals(c) \/ CliRereads(c)
                              \/ CliRefreshes(c) \/ CliReleases(c) \/ CliBeats(c)
      PROVE  TypeOK'
  <2>1. CASE CliAcquires(c)   BY <1>0, <2>1, DirTypes DEF CliAcquires, Mkdir
  <2>2. CASE CliSteals(c)     BY <1>0, <2>2, DirTypes DEF CliSteals, Rmdir
  <2>3. CASE CliRereads(c)    BY <1>0, <2>3 DEF CliRereads
  <2>4. CASE CliRefreshes(c)
    <3>1. issued' \in 1 .. MaxTokens
      BY <2>4 DEF CliRefreshes
    <3>2. disk' \in [rt : 1 .. MaxTokens, usable : BOOLEAN]
      <4>1. \/ issued + 1 \in 1 .. MaxTokens /\ disk' = [rt |-> issued + 1, usable |-> TRUE]
            \/ disk' = disk
        BY <2>4 DEF CliRefreshes
      <4> QED BY <4>1, SavedType, Zenon
    <3> QED BY <1>0, <2>4, <3>1, <3>2 DEF CliRefreshes
  <2>5. CASE CliReleases(c)   BY <1>0, <2>5, DirTypes DEF CliReleases, Rmdir
  <2>6. CASE CliBeats(c)      BY <1>0, <2>6 DEF CliBeats
  <2> QED BY <1>2, <2>1, <2>2, <2>3, <2>4, <2>5, <2>6
<1>3. ASSUME NEW c \in Clients, Crash(c)
      PROVE  TypeOK'
  BY <1>3 DEF Crash
<1>4. CASE Tick           BY <1>4 DEF Tick
<1>5. CASE TokenExpires   BY <1>5 DEF TokenExpires
<1>6. CASE UNCHANGED vars BY <1>6 DEF vars
<1> QED BY <1>1, <1>2, <1>3, <1>4, <1>5, <1>6 DEF Next

LEMMA SavesStep == TypeOK /\ SavesAToken /\ [Next]_vars => SavesAToken'
<1> SUFFICES ASSUME TypeOK, SavesAToken, [Next]_vars PROVE SavesAToken'
  OBVIOUS
<1> USE KimiAssumption DEF TypeOK, SavesAToken, Goto
<1>0. Procs \subseteq Clients /\ Clis \subseteq Clients /\ Procs \cap Clis = {}
  BY DEF Clients
<1>1. ASSUME NEW p \in Procs, Start(p) \/ Step(p) \/ Beat(p)
      PROVE  SavesAToken'
  <2>1. CASE Refresh(p)
    <3>1. CASE pc'[p] = "save"
      BY <1>0, <2>1, <3>1 DEF Refresh
    <3>2. CASE pc'[p] # "save"
      BY <1>0, <2>1, <3>2 DEF Refresh
    <3> QED BY <3>1, <3>2
  <2>2. CASE ~Refresh(p)
    BY <1>0, <1>1, <2>2 DEF Start, Step, Beat, Read, Acquire, Steal, Mark, Reread, Save, Drop,
                       Unlink, Return
  <2> QED BY <2>1, <2>2
<1>2. ASSUME NEW c \in Clis, \/ CliAcquires(c) \/ CliSteals(c) \/ CliRereads(c)
                              \/ CliRefreshes(c) \/ CliReleases(c) \/ CliBeats(c)
      PROVE  SavesAToken'
  BY <1>0, <1>2 DEF CliAcquires, CliSteals, CliRereads, CliRefreshes, CliReleases, CliBeats
<1>3. ASSUME NEW c \in Clients, Crash(c)
      PROVE  SavesAToken'
  BY <1>0, <1>3 DEF Crash
<1>4. CASE Tick           BY <1>4 DEF Tick
<1>5. CASE TokenExpires   BY <1>5 DEF TokenExpires
<1>6. CASE UNCHANGED vars BY <1>6 DEF vars
<1> QED BY <1>1, <1>2, <1>3, <1>4, <1>5, <1>6 DEF Next

(***************************************************************************)
(* The lock directory, the credential file and every client keep their     *)
(* shape, with any number of clients and whatever goes wrong.              *)
(***************************************************************************)
THEOREM KimiTypes == Spec => []TypeOK
<1>1. TypeInv => TypeOK
  BY DEF TypeInv
<1>2. TypeInv /\ [Next]_vars => TypeInv'
  BY TypeStep, SavesStep DEF TypeInv
<1> QED BY TypeInit, <1>1, <1>2, PTL DEF Spec

-----------------------------------------------------------------------------
(***************************************************************************)
(* Our own processes: the flock is enough among them.  Whoever is not idle *)
(* holds it, with any number of CLIs around.                               *)
(***************************************************************************)
FlockHeld == \A p \in Procs : pc[p] # "idle" => flock = p

LEMMA FlockStep == TypeOK /\ FlockHeld /\ [Next]_vars => FlockHeld'
<1> SUFFICES ASSUME TypeOK, FlockHeld, [Next]_vars PROVE FlockHeld'
  OBVIOUS
<1> USE DEF TypeOK, FlockHeld, Goto
<1>0. Procs \subseteq Clients /\ Clis \subseteq Clients /\ Procs \cap Clis = {}
  BY KimiAssumption DEF Clients
<1>1. ASSUME NEW p \in Procs, Start(p) \/ Step(p) \/ Beat(p)
      PROVE  FlockHeld'
  BY <1>0, <1>1, KimiAssumption DEF Start, Step, Beat, Read, Acquire, Steal, Mark, Reread, Refresh,
                    Save, Drop, Unlink, Return
<1>2. ASSUME NEW c \in Clis, \/ CliAcquires(c) \/ CliSteals(c) \/ CliRereads(c)
                              \/ CliRefreshes(c) \/ CliReleases(c) \/ CliBeats(c)
      PROVE  FlockHeld'
  BY <1>0, <1>2 DEF CliAcquires, CliSteals, CliRereads, CliRefreshes, CliReleases, CliBeats
<1>3. ASSUME NEW c \in Clients, Crash(c)
      PROVE  FlockHeld'
  BY <1>0, <1>3 DEF Crash
<1>4. CASE Tick           BY <1>4 DEF Tick
<1>5. CASE TokenExpires   BY <1>5 DEF TokenExpires
<1>6. CASE UNCHANGED vars BY <1>6 DEF vars
<1> QED BY <1>1, <1>2, <1>3, <1>4, <1>5, <1>6 DEF Next

(***************************************************************************)
(* Two ai-usagebar processes are never both between their mkdir and their  *)
(* release, next to any number of CLIs and whatever heartbeats are late,   *)
(* markers unwritten or processes killed: the flock of fetch_snapshot      *)
(* keeps them apart where the lock directory would not.                    *)
(***************************************************************************)
THEOREM ProcessesExclude ==
  Spec => [](\A p, q \in Procs : pc[p] \in Critical /\ pc[q] \in Critical => p = q)
<1>1. Init => FlockHeld
  BY DEF Init, FlockHeld, Clients
<1>2. FlockHeld => \A p, q \in Procs : pc[p] \in Critical /\ pc[q] \in Critical => p = q
  BY DEF FlockHeld, Critical
<1> QED BY <1>1, <1>2, FlockStep, KimiTypes, PTL DEF Spec

-----------------------------------------------------------------------------
(***************************************************************************)
(* The lock directory, until the first mishap: it is there while somebody  *)
(* is between its mkdir and its release, and is that client's; it carries  *)
(* the marker of a process that is past writing it; its holder's heartbeat *)
(* runs until it is about to remove the directory, so it is never old      *)
(* enough to be taken for abandoned, and nobody is about to steal it.      *)
(***************************************************************************)
DirKept ==
  /\ \A c \in Clients : pc[c] \in Critical => dir.there /\ holder = c
  /\ dir.there => /\ holder \in Clients /\ pc[holder] \in Critical
                  /\ dir.age <= Heartbeat
  /\ \A c \in Clients : pc[c] # "steal"
  /\ \A c \in Clients : pc[c] \in Critical \ {"unlink"} => c \in beats
  /\ \A p \in Procs : pc[p] \in Critical \ {"mark"} => dir.owner = p

DirInv == ~mishap => DirKept

LEMMA MishapStays ==
  ASSUME TypeOK, [Next]_vars
  PROVE  mishap => mishap'
<1>1. ASSUME NEW p \in Procs, Start(p) \/ Step(p) \/ Beat(p)
      PROVE  mishap => mishap'
  BY <1>1 DEF Start, Step, Beat, Read, Acquire, Steal, Mark, Reread, Refresh, Save, Drop,
              Unlink, world
<1>2. ASSUME NEW c \in Clis, \/ CliAcquires(c) \/ CliSteals(c) \/ CliRereads(c)
                              \/ CliRefreshes(c) \/ CliReleases(c) \/ CliBeats(c)
      PROVE  mishap => mishap'
  BY <1>2 DEF CliAcquires, CliSteals, CliRereads, CliRefreshes, CliReleases, CliBeats, world
<1> QED BY <1>1, <1>2 DEF Next, Crash, Tick, TokenExpires, world, vars

LEMMA DirInit == Init => DirInv
  BY DEF Init, DirInv, DirKept, Critical, NoDir, Clients

LEMMA DirStep ==
  ASSUME TypeOK, DirInv, [Next]_vars
  PROVE  DirInv'
<1> SUFFICES ASSUME ~mishap' PROVE DirKept'
  BY DEF DirInv
<1>0. DirKept /\ ~mishap
  BY MishapStays DEF DirInv
<1>1. Procs \subseteq Clients /\ Clis \subseteq Clients /\ Procs \cap Clis = {}
  BY KimiAssumption DEF Clients
<1>2. /\ Heartbeat \in Nat /\ Stale \in Nat /\ Heartbeat <= Stale
      /\ dir.age \in Nat /\ pc \in [Clients -> Labels]
      /\ dir \in [there : BOOLEAN, owner : Procs \cup {NoOne}, age : 0 .. Stale + 1]
  BY KimiAssumption DEF TypeOK, Labels
<1>3. ~IsStale
  BY <1>0, <1>2 DEF IsStale, DirKept
<1> USE DEF DirKept, Goto, Critical
<1>4. ASSUME NEW p \in Procs, Start(p) \/ Step(p) \/ Beat(p)
      PROVE  DirKept'
  <2>0. p \in Clients
    BY <1>1
  <2>1. CASE Start(p)     BY <1>0, <1>2, <2>0, <2>1 DEF Start
  <2>2. CASE Read(p)
    <3>1. /\ UNCHANGED <<dir, holder, beats>> /\ pc[p] = "read"
          /\ pc'[p] \in {"idle", "acquire"} /\ \A d \in Clients : d # p => pc'[d] = pc[d]
      BY <1>2, <2>0, <2>2 DEF Read, Return
    <3> QED BY <1>0, <1>1, <2>0, <3>1
  <2>3. CASE Acquire(p)
    <3>1. CASE Mkdir(p) /\ Goto(p, "mark")
      BY <1>0, <1>1, <1>2, <2>0, <3>1 DEF Mkdir, NewDir
    <3>2. CASE Return(p) /\ UNCHANGED <<dir, holder, beats>>
      BY <1>0, <1>2, <2>0, <2>3, <3>2 DEF Acquire, Return
    <3> QED BY <1>3, <2>3, <3>1, <3>2 DEF Acquire
  <2>4. CASE Steal(p)     BY <1>0, <2>0, <2>4 DEF Steal
  <2>5. CASE Mark(p)
    <3>1. dir.there /\ dir' = [dir EXCEPT !.owner = p] /\ holder' = holder /\ beats' = beats
      BY <2>5 DEF Mark
    <3>2. pc[p] = "mark" /\ pc' = [pc EXCEPT ![p] = "reread"] /\ holder = p
      BY <1>0, <2>0, <2>5 DEF Mark
    <3>3. dir'.there = dir.there /\ dir'.owner = p /\ dir'.age = dir.age
      BY <1>2, <3>1
    <3> QED BY <1>0, <1>1, <1>2, <2>0, <3>1, <3>2, <3>3
  <2>6. CASE Reread(p)    BY <1>0, <1>2, <2>0, <2>6 DEF Reread
  <2>7. CASE Refresh(p)
    <3>1. /\ UNCHANGED <<dir, holder, beats>> /\ pc[p] = "refresh"
          /\ pc'[p] \in {"save", "drop"} /\ \A d \in Clients : d # p => pc'[d] = pc[d]
      BY <1>2, <2>0, <2>7 DEF Refresh
    <3> QED BY <1>0, <1>1, <2>0, <3>1
  <2>8. CASE Save(p)      BY <1>0, <1>2, <2>0, <2>8 DEF Save
  <2>9. CASE Drop(p)
    <3>1. Owns(p)
      BY <1>0, <2>0, <2>9 DEF Drop, Owns
    <3> QED BY <1>0, <1>1, <1>2, <2>0, <2>9, <3>1 DEF Drop
  <2>10. CASE Unlink(p)
    BY <1>0, <1>1, <1>2, <2>0, <2>10 DEF Unlink, Rmdir, Return, NoDir
  <2>11. CASE Beat(p)
    <3>1. Owns(p)
      BY <1>0, <2>0, <2>11 DEF Beat, Owns
    <3>2. dir' = [dir EXCEPT !.age = 0] /\ UNCHANGED <<holder, beats, pc>>
      BY <2>11, <3>1 DEF Beat
    <3>3. dir'.there = dir.there /\ dir'.owner = dir.owner /\ dir'.age = 0
      BY <1>2, <3>2
    <3> QED BY <1>0, <1>2, <3>2, <3>3
  <2> QED BY <1>4, <2>1, <2>2, <2>3, <2>4, <2>5, <2>6, <2>7, <2>8, <2>9, <2>10, <2>11 DEF Step
<1>5. ASSUME NEW c \in Clis, \/ CliAcquires(c) \/ CliSteals(c) \/ CliRereads(c)
                              \/ CliRefreshes(c) \/ CliReleases(c) \/ CliBeats(c)
      PROVE  DirKept'
  <2>0. c \in Clients /\ c \notin Procs
    BY <1>1
  <2>1. CASE CliAcquires(c)
    <3>1. Mkdir(c) /\ pc' = [pc EXCEPT ![c] = "reread"]
      BY <1>3, <2>1 DEF CliAcquires
    <3> QED BY <1>0, <1>1, <1>2, <2>0, <3>1 DEF Mkdir, NewDir
  <2>2. CASE CliSteals(c)     BY <1>0, <2>0, <2>2 DEF CliSteals
  <2>3. CASE CliRereads(c)    BY <1>0, <1>2, <2>0, <2>3 DEF CliRereads
  <2>4. CASE CliRefreshes(c)  BY <1>0, <1>2, <2>0, <2>4 DEF CliRefreshes
  <2>5. CASE CliReleases(c)
    BY <1>0, <1>1, <1>2, <2>0, <2>5 DEF CliReleases, Rmdir, NoDir
  <2>6. CASE CliBeats(c)
    <3>1. dir' = [dir EXCEPT !.age = 0] /\ UNCHANGED <<holder, beats, pc>>
      BY <2>6 DEF CliBeats
    <3>2. dir'.there = dir.there /\ dir'.owner = dir.owner /\ dir'.age = 0
      BY <1>2, <3>1
    <3> QED BY <1>0, <1>2, <3>1, <3>2
  <2> QED BY <1>5, <2>1, <2>2, <2>3, <2>4, <2>5, <2>6
<1>6. ASSUME NEW c \in Clients, Crash(c)
      PROVE  DirKept'
  BY <1>6 DEF Crash
<1>7. CASE Tick
  <2>1. dir.there /\ dir' = [dir EXCEPT !.age = @ + 1] /\ UNCHANGED <<holder, beats, pc>>
    BY <1>7 DEF Tick
  <2>2. dir'.there = dir.there /\ dir'.owner = dir.owner /\ dir'.age = dir.age + 1
    BY <1>2, <2>1
  <2>3. ~Overdue
    BY <1>7 DEF Tick
  <2>4. holder \in beats \/ (holder \in Clients /\ pc[holder] = "unlink")
    BY <1>0, <2>1
  <2>5. dir.age < Heartbeat
    BY <1>2, <2>3, <2>4 DEF Overdue
  <2> QED BY <1>0, <1>2, <2>1, <2>2, <2>5
<1>8. CASE TokenExpires   BY <1>0, <1>8 DEF TokenExpires
<1>9. CASE UNCHANGED vars BY <1>0, <1>9 DEF vars
<1> QED BY <1>4, <1>5, <1>6, <1>7, <1>8, <1>9 DEF Next

(***************************************************************************)
(* One client at a time between its mkdir and its release: where no CLI    *)
(* runs by the flock, next to CLIs by the directory.                       *)
(***************************************************************************)
Alone == \A c, d \in Clients : pc[c] \in Critical /\ pc[d] \in Critical => c = d

LEMMA KeptApartAreAlone ==
  ASSUME FlockHeld, DirInv, KeptApart
  PROVE  Alone
<1>1. CASE Clis = {}
  BY <1>1 DEF FlockHeld, Alone, Clients, Critical
<1>2. CASE ~mishap
  BY <1>2 DEF DirInv, DirKept, Alone
<1> QED BY <1>1, <1>2 DEF KeptApart

-----------------------------------------------------------------------------
(***************************************************************************)
(* The tokens, while the clients are kept apart: what one of them is about *)
(* to send is in the file; what a process is about to save is what the     *)
(* server takes; and the file is behind only until that is saved.          *)
(***************************************************************************)
CopyToSend == \A c \in Clients : pc[c] = "refresh" => copy[c] = disk.rt
CopyToSave == \A p \in Procs : pc[p] = "save" => copy[p] = issued
FileLive == lost \/ disk.rt = issued \/ \E p \in Procs : pc[p] = "save"

Tokens == CopyToSend /\ CopyToSave /\ FileLive

TokenInv == KeptApart => Tokens

LEMMA TokenInit == Init => TokenInv
  BY DEF Init, TokenInv, Tokens, CopyToSend, CopyToSave, FileLive, Clients

LEMMA TokenStep ==
  ASSUME TypeOK, FlockHeld, DirInv, TokenInv, [Next]_vars
  PROVE  TokenInv'
<1> SUFFICES ASSUME KeptApart' PROVE Tokens'
  BY DEF TokenInv
<1>0. KeptApart /\ Tokens /\ Alone
  BY MishapStays, KeptApartAreAlone DEF TokenInv, KeptApart
<1>1. Procs \subseteq Clients /\ Clis \subseteq Clients /\ Procs \cap Clis = {}
  BY KimiAssumption DEF Clients
<1>2. /\ pc \in [Clients -> Labels] /\ copy \in [Clients -> 0 .. MaxTokens]
      /\ disk \in [rt : 1 .. MaxTokens, usable : BOOLEAN] /\ issued \in 1 .. MaxTokens
  BY DEF TypeOK, Labels
<1> USE DEF Tokens, CopyToSend, CopyToSave, FileLive, Goto, tokens
<1>3. ASSUME NEW p \in Procs, Start(p) \/ Step(p) \/ Beat(p)
      PROVE  Tokens'
  <2>0. p \in Clients
    BY <1>1
  <2>1. CASE Start(p)     BY <1>0, <1>1, <1>2, <2>0, <2>1 DEF Start
  <2>2. CASE Read(p)      BY <1>0, <1>1, <1>2, <2>0, <2>2 DEF Read, Return
  <2>3. CASE Acquire(p)   BY <1>0, <1>1, <1>2, <2>0, <2>3 DEF Acquire, Return
  <2>4. CASE Steal(p)     BY <1>0, <1>1, <1>2, <2>0, <2>4 DEF Steal, Return
  <2>5. CASE Mark(p)      BY <1>0, <1>1, <1>2, <2>0, <2>5 DEF Mark
  <2>6. CASE Reread(p)    BY <1>0, <1>1, <1>2, <2>0, <2>6 DEF Reread
  <2>7. CASE Refresh(p)
    <3>0. /\ pc[p] = "refresh" /\ disk' = disk
          /\ \A c \in Clients : c # p => pc'[c] = pc[c] /\ pc[c] # "save" /\ pc[c] # "refresh"
      BY <1>0, <1>1, <1>2, <2>0, <2>7 DEF Refresh, Alone, Critical
    <3>1. CASE /\ issued' = issued + 1
               /\ copy' = [copy EXCEPT ![p] = issued + 1] /\ Goto(p, "save") /\ lost' = lost
      <4>1. pc'[p] = "save" /\ copy'[p] = issued'
        BY <1>2, <2>0, <3>1
      <4> QED BY <1>1, <3>0, <4>1
    <3>2. CASE lost' = TRUE /\ Goto(p, "drop") /\ UNCHANGED copy
      <4>1. pc'[p] = "drop"
        BY <1>2, <2>0, <3>2
      <4> QED BY <1>1, <3>0, <3>2, <4>1
    <3>3. CASE Goto(p, "drop") /\ UNCHANGED <<issued, copy, lost>>
      <4>1. pc'[p] = "drop"
        BY <1>2, <2>0, <3>3
      <4> QED BY <1>0, <1>1, <3>0, <3>3, <4>1
    <3> QED BY <2>7, <3>1, <3>2, <3>3 DEF Refresh
  <2>8. CASE Save(p)
    <3>0. /\ pc[p] = "save" /\ UNCHANGED <<issued, copy>> /\ pc'[p] = "drop"
          /\ \A c \in Clients : c # p => pc'[c] = pc[c] /\ pc[c] # "save" /\ pc[c] # "refresh"
      BY <1>0, <1>1, <1>2, <2>0, <2>8 DEF Save, Alone, Critical
    <3>1. lost' \/ disk'.rt = issued
      BY <1>0, <2>8, <3>0 DEF Save
    <3> QED BY <1>1, <3>0, <3>1
  <2>9. CASE Drop(p)      BY <1>0, <1>1, <1>2, <2>0, <2>9 DEF Drop, Return
  <2>10. CASE Unlink(p)   BY <1>0, <1>1, <1>2, <2>0, <2>10 DEF Unlink, Return
  <2>11. CASE Beat(p)     BY <1>0, <1>1, <1>2, <2>0, <2>11 DEF Beat
  <2> QED BY <1>3, <2>1, <2>2, <2>3, <2>4, <2>5, <2>6, <2>7, <2>8, <2>9, <2>10, <2>11 DEF Step
<1>4. ASSUME NEW c \in Clis, \/ CliAcquires(c) \/ CliSteals(c) \/ CliRereads(c)
                              \/ CliRefreshes(c) \/ CliReleases(c) \/ CliBeats(c)
      PROVE  Tokens'
  <2>0. c \in Clients /\ c \notin Procs
    BY <1>1
  <2>1. CASE CliAcquires(c)   BY <1>0, <1>1, <1>2, <2>0, <2>1 DEF CliAcquires
  <2>2. CASE CliSteals(c)     BY <1>0, <1>1, <1>2, <2>0, <2>2 DEF CliSteals
  <2>3. CASE CliRereads(c)    BY <1>0, <1>1, <1>2, <2>0, <2>3 DEF CliRereads
  <2>4. CASE CliRefreshes(c)
    <3>0. /\ pc[c] = "refresh" /\ UNCHANGED <<copy, lost>> /\ pc'[c] = "drop"
          /\ \A d \in Clients : d # c => pc'[d] = pc[d] /\ pc[d] # "save" /\ pc[d] # "refresh"
      BY <1>0, <1>1, <1>2, <2>0, <2>4 DEF CliRefreshes, Alone, Critical
    <3>1. disk'.rt = issued' \/ UNCHANGED <<issued, disk>>
      BY <2>4 DEF CliRefreshes
    <3> QED BY <1>0, <1>1, <2>0, <3>0, <3>1
  <2>5. CASE CliReleases(c)   BY <1>0, <1>1, <1>2, <2>0, <2>5 DEF CliReleases
  <2>6. CASE CliBeats(c)      BY <1>0, <1>1, <1>2, <2>0, <2>6 DEF CliBeats
  <2> QED BY <1>4, <2>1, <2>2, <2>3, <2>4, <2>5, <2>6
<1>5. ASSUME NEW c \in Clients, Crash(c)
      PROVE  Tokens'
  BY <1>0, <1>1, <1>2, <1>5 DEF Crash
<1>6. CASE Tick           BY <1>0, <1>6 DEF Tick
<1>7. CASE TokenExpires   BY <1>0, <1>2, <1>7 DEF TokenExpires
<1>8. CASE UNCHANGED vars BY <1>0, <1>8 DEF vars
<1> QED BY <1>3, <1>4, <1>5, <1>6, <1>7, <1>8 DEF Next

LockInv == FlockHeld /\ DirInv /\ TokenInv

LEMMA LockAlways == Spec => []LockInv
<1>1. Init => FlockHeld
  BY DEF Init, FlockHeld, Clients
<1>2. Init => LockInv
  BY <1>1, DirInit, TokenInit DEF LockInv
<1>3. TypeOK /\ LockInv /\ [Next]_vars => LockInv'
  BY FlockStep, DirStep, TokenStep DEF LockInv
<1> QED BY <1>2, <1>3, KimiTypes, PTL DEF Spec

(***************************************************************************)
(* At most one client is between its mkdir and its release, next to any    *)
(* number of CLIs: two ai-usagebar processes never, one and a CLI, or two  *)
(* CLIs, only after a death, a late heartbeat or an unwritten marker.      *)
(***************************************************************************)
THEOREM LockExcludes == Spec => []LockExclusive
<1>1. LockInv => LockExclusive
  <2> SUFFICES ASSUME LockInv, NEW c \in Clients, NEW d \in Clients,
                      pc[c] \in Critical, pc[d] \in Critical, c # d
               PROVE  ~KeptApart /\ (c \in Clis \/ d \in Clis)
    BY DEF LockExclusive
  <2>1. ~KeptApart
    BY KeptApartAreAlone DEF LockInv, Alone
  <2>2. ~(c \in Procs /\ d \in Procs)
    BY DEF LockInv, FlockHeld, Critical
  <2> QED BY <2>1, <2>2 DEF Clients
<1> QED BY <1>1, LockAlways, PTL

(***************************************************************************)
(* Until such a mishap next to a CLI nobody, not even the CLI, sends a     *)
(* refresh token that was exchanged before.                                *)
(***************************************************************************)
THEOREM NoTokenIsBurnt == Spec => []SendsWhatTheFileHolds
<1>1. LockInv => SendsWhatTheFileHolds
  BY DEF LockInv, TokenInv, Tokens, CopyToSend, SendsWhatTheFileHolds
<1> QED BY <1>1, LockAlways, PTL

(***************************************************************************)
(* Until such a mishap next to a CLI the file holds the token the server   *)
(* accepts, unless an answer or a write was lost.                          *)
(***************************************************************************)
THEOREM FileKeepsUp == Spec => []FileTokenIsLive
<1>1. LockInv => FileTokenIsLive
  BY DEF LockInv, TokenInv, Tokens, FileLive, CopyToSave, FileTokenIsLive
<1> QED BY <1>1, LockAlways, PTL

-----------------------------------------------------------------------------
(***************************************************************************)
(* Every step of the clients is a step of TokenRotation, or none.          *)
(***************************************************************************)
Apart == KeptApart /\ TypeOK /\ LockInv

Asking == {copy[c] : c \in Sending}
InFlight == \E p \in Procs : pc[p] = "save"

LEMMA ApartAre ==
  ASSUME Apart
  PROVE  /\ Alone /\ CopyToSend /\ CopyToSave
         /\ pc \in [Clients -> Labels] /\ copy \in [Clients -> 0 .. MaxTokens]
BY KeptApartAreAlone DEF Apart, LockInv, TokenInv, Tokens, TypeOK, Labels

LEMMA ClientsAre == Procs \subseteq Clients /\ Clis \subseteq Clients /\ Procs \cap Clis = {}
BY KimiAssumption DEF Clients

(***************************************************************************)
(* Of the clients only the one that has the lock sends or writes.          *)
(***************************************************************************)
LEMMA OnlyOne ==
  ASSUME Apart, NEW c \in Clients, pc[c] \in Critical
  PROVE  /\ Sending = IF pc[c] = "refresh" THEN {c} ELSE {}
         /\ Asking = IF pc[c] = "refresh" THEN {disk.rt} ELSE {}
         /\ InFlight <=> pc[c] = "save" /\ c \in Procs
<1>1. \A d \in Clients : d # c => pc[d] # "refresh" /\ pc[d] # "save"
  BY ApartAre DEF Alone, Critical
<1>2. Sending = IF pc[c] = "refresh" THEN {c} ELSE {}
  BY <1>1 DEF Sending
<1>3. Asking = IF pc[c] = "refresh" THEN {disk.rt} ELSE {}
  <2>1. pc[c] = "refresh" => copy[c] = disk.rt
    BY ApartAre DEF CopyToSend
  <2> QED BY <1>2, <2>1 DEF Asking
<1>4. InFlight <=> pc[c] = "save" /\ c \in Procs
  BY <1>1, ClientsAre DEF InFlight
<1> QED BY <1>2, <1>3, <1>4

(***************************************************************************)
(* The same after a step of c, which leaves the lock or not.               *)
(***************************************************************************)
LEMMA OnlyOneNext ==
  ASSUME Apart, Apart', NEW c \in Clients, pc[c] \in Critical, NEW l, Goto(c, l)
  PROVE  /\ Asking' = IF l = "refresh" THEN {disk'.rt} ELSE {}
         /\ InFlight' <=> l = "save" /\ c \in Procs
<1>1. /\ pc'[c] = l
      /\ \A d \in Clients : d # c => pc'[d] # "refresh" /\ pc'[d] # "save"
  BY ApartAre DEF Alone, Critical, Goto
<1>2. Sending' = IF l = "refresh" THEN {c} ELSE {}
  BY <1>1 DEF Sending
<1>3. Asking' = IF l = "refresh" THEN {disk'.rt} ELSE {}
  <2>1. CopyToSend'
    BY DEF Apart, LockInv, TokenInv, Tokens
  <2>2. l = "refresh" => copy'[c] = disk'.rt
    BY <1>1, <2>1 DEF CopyToSend
  <2> QED BY <1>2, <2>2 DEF Asking
<1>4. InFlight' <=> l = "save" /\ c \in Procs
  BY <1>1, ClientsAre DEF InFlight
<1> QED BY <1>3, <1>4

(***************************************************************************)
(* The file is read again: who finds its token unusable asks with it.      *)
(***************************************************************************)
LEMMA RereadMaps ==
  ASSUME Apart, Apart', NEW c \in Clients, Reread(c) \/ CliRereads(c)
  PROVE  [Rotation!Next]_Rotation!vars
<1>0. /\ pc[c] = "reread" /\ disk' = disk /\ issued' = issued /\ lost' = lost
      /\ Goto(c, IF disk.usable THEN "drop" ELSE "refresh")
  BY DEF Reread, CliRereads, tokens, world
<1>1. Asking = {} /\ ~InFlight
  BY <1>0, OnlyOne DEF Critical
<1>2. CASE disk.usable
  <2>1. Asking' = {} /\ ~InFlight'
    BY <1>0, <1>2, OnlyOneNext DEF Critical
  <2> QED BY <1>0, <1>1, <2>1 DEF Apart, Asking, InFlight, Rotation!vars
<1>3. CASE ~disk.usable
  <2>1. Asking' = {disk.rt} /\ ~InFlight'
    BY <1>0, <1>3, OnlyOneNext DEF Critical
  <2>2. CASE lost
    BY <1>0, <2>2 DEF Rotation!Next, Rotation!Broken
  <2>3. CASE ~lost
    BY <1>0, <1>1, <2>1, <2>3 DEF Apart, Asking, InFlight, Rotation!Next, Rotation!Ask
  <2> QED BY <2>2, <2>3
<1> QED BY <1>2, <1>3

LEMMA ExchangeMaps ==
  ASSUME Apart, Apart', NEW p \in Procs, Refresh(p)
  PROVE  [Rotation!Next]_Rotation!vars
<1> p \in Clients
  BY ClientsAre
<1>0. /\ pc[p] = "refresh" /\ disk' = disk
      /\ copy[p] = disk.rt /\ Asking = {disk.rt} /\ ~InFlight
  BY OnlyOne, ApartAre DEF Refresh, CopyToSend, Critical
<1>1. CASE /\ copy[p] = issued /\ issued' = issued + 1
           /\ Goto(p, "save") /\ UNCHANGED lost
  <2>1. Asking' = {} /\ InFlight'
    BY <1>0, <1>1, OnlyOneNext DEF Critical
  <2>2. CASE lost
    BY <1>1, <2>2 DEF Rotation!Next, Rotation!Broken
  <2>3. CASE ~lost
    BY <1>0, <1>1, <2>1, <2>3 DEF Apart, Asking, InFlight, Rotation!Next, Rotation!Exchange
  <2> QED BY <2>2, <2>3
<1>2. CASE issued' = issued + 1 /\ lost' = TRUE /\ Goto(p, "drop")
  <2>1. Asking' = {} /\ ~InFlight'
    BY <1>0, <1>2, OnlyOneNext DEF Critical
  <2> QED BY <1>0, <1>2, <2>1 DEF Apart, Asking, InFlight, Rotation!Next, Rotation!Lose
<1>3. CASE Goto(p, "drop") /\ UNCHANGED <<issued, lost>>
  <2>1. Asking' = {} /\ ~InFlight'
    BY <1>0, <1>3, OnlyOneNext DEF Critical
  <2> QED BY <1>0, <1>3, <2>1 DEF Apart, Asking, InFlight, Rotation!Next, Rotation!GiveUp
<1> QED BY <1>1, <1>2, <1>3 DEF Refresh

(***************************************************************************)
(* Of the CLI's exchange only the result is seen.                          *)
(***************************************************************************)
LEMMA CliExchangeMaps ==
  ASSUME Apart, Apart', NEW c \in Clis, CliRefreshes(c)
  PROVE  [Rotation!Next]_Rotation!vars
<1> c \in Clients /\ c \notin Procs
  BY ClientsAre
<1>0. /\ pc[c] = "refresh" /\ lost' = lost
      /\ copy[c] = disk.rt /\ Asking = {disk.rt} /\ ~InFlight
  BY OnlyOne, ApartAre DEF CliRefreshes, CopyToSend, Critical
<1>1. Asking' = {} /\ ~InFlight'
  BY <1>0, OnlyOneNext DEF CliRefreshes, Critical
<1>2. CASE /\ copy[c] = issued /\ issued' = issued + 1
           /\ disk' = [rt |-> issued + 1, usable |-> TRUE]
  <2>1. CASE lost
    BY <1>0, <2>1 DEF Rotation!Next, Rotation!Broken
  <2>2. CASE ~lost
    <3>1. disk'.rt = issued'
      BY <1>2
    <3> QED BY <1>0, <1>1, <1>2, <2>2, <3>1
            DEF Apart, Asking, InFlight, Rotation!Next, Rotation!Replace
  <2> QED BY <2>1, <2>2
<1>3. CASE UNCHANGED <<issued, disk>>
  BY <1>0, <1>1, <1>3 DEF Apart, Asking, InFlight, Rotation!Next, Rotation!GiveUp
<1> QED BY <1>2, <1>3 DEF CliRefreshes

LEMMA SaveMaps ==
  ASSUME Apart, Apart', NEW p \in Procs, Save(p)
  PROVE  [Rotation!Next]_Rotation!vars
<1> p \in Clients
  BY ClientsAre
<1>0. /\ pc[p] = "save" /\ issued' = issued /\ copy[p] = issued
      /\ Asking = {} /\ InFlight
  BY OnlyOne, ApartAre DEF Save, CopyToSave, Critical
<1>1. Asking' = {} /\ ~InFlight'
  BY <1>0, OnlyOneNext DEF Save, Critical
<1>2. CASE disk' = [rt |-> copy[p], usable |-> TRUE] /\ lost' = lost
  BY <1>0, <1>1, <1>2 DEF Apart, Asking, InFlight, Rotation!Next, Rotation!Store
<1>3. CASE lost' = TRUE /\ disk' = disk
  BY <1>0, <1>1, <1>3 DEF Apart, Asking, InFlight, Rotation!Next, Rotation!Lose
<1> QED BY <1>2, <1>3 DEF Save

(***************************************************************************)
(* The rest touches no token, and nobody comes to a request or a write.    *)
(***************************************************************************)
LEMMA RestMaps ==
  ASSUME Apart, Apart', issued' = issued, disk'.rt = disk.rt, lost' = lost,
         \A c \in Clients : /\ pc'[c] = "save" <=> pc[c] = "save"
                            /\ pc'[c] = "refresh" <=> pc[c] = "refresh"
  PROVE  [Rotation!Next]_Rotation!vars
<1>1. Sending' = Sending
  BY DEF Sending
<1>2. Asking' = Asking
  <2>1. CopyToSend /\ CopyToSend'
    BY DEF Apart, LockInv, TokenInv, Tokens
  <2>2. \A c \in Sending : copy'[c] = copy[c]
    BY <1>1, <2>1 DEF CopyToSend, Sending
  <2> QED BY <1>1, <2>2 DEF Asking
<1>3. InFlight' <=> InFlight
  BY ClientsAre DEF InFlight
<1> QED BY <1>2, <1>3 DEF Apart, Asking, InFlight, Rotation!vars

LEMMA CrashMaps ==
  ASSUME Apart, Apart', NEW c \in Clients, Crash(c)
  PROVE  [Rotation!Next]_Rotation!vars
<1>0. /\ disk' = disk /\ issued' = issued /\ Goto(c, "idle")
      /\ lost' = (lost \/ pc[c] = "save")
  BY DEF Crash
<1>1. CASE pc[c] \in Critical
  <2>1. Asking' = {} /\ ~InFlight'
    BY <1>0, <1>1, OnlyOneNext
  <2>2. CASE lost'
    BY <1>0, <2>1, <2>2 DEF Apart, Asking, InFlight, Rotation!Next, Rotation!Lose
  <2>3. CASE ~lost'
    <3>1. ~InFlight /\ ~lost
      BY <1>0, <1>1, <2>3, OnlyOne
    <3> QED BY <1>0, <2>1, <2>3, <3>1
            DEF Apart, Asking, InFlight, Rotation!Next, Rotation!GiveUp
  <2> QED BY <2>2, <2>3
<1>2. CASE pc[c] \notin Critical
  <2>1. lost' = lost
    BY <1>0, <1>2 DEF Critical, Apart, TypeOK
  <2>2. \A d \in Clients : /\ pc'[d] = "save" <=> pc[d] = "save"
                           /\ pc'[d] = "refresh" <=> pc[d] = "refresh"
    BY <1>0, <1>2, ApartAre DEF Goto, Critical
  <2> QED BY <1>0, <2>1, <2>2, RestMaps
<1> QED BY <1>1, <1>2

LEMMA StepMaps ==
  ASSUME Apart, Apart', [Next]_vars
  PROVE  [Rotation!Next]_Rotation!vars
<1> USE DEF tokens
<1>0. pc \in [Clients -> Labels]
  BY ApartAre
<1>1. ASSUME NEW p \in Procs, Start(p) \/ Step(p) \/ Beat(p)
      PROVE  [Rotation!Next]_Rotation!vars
  <2>0. p \in Clients
    BY ClientsAre
  <2>1. CASE Refresh(p) BY <2>1, ExchangeMaps
  <2>2. CASE Save(p) BY <2>2, SaveMaps
  <2>3. CASE Reread(p) BY <2>0, <2>3, RereadMaps
  <2>4. CASE ~Refresh(p) /\ ~Save(p) /\ ~Reread(p)
    <3>1. issued' = issued /\ disk' = disk /\ lost' = lost
      BY <1>1, <2>4 DEF Start, Step, Beat, Read, Acquire, Steal, Mark, Drop, Unlink
    <3>2. \A d \in Clients : /\ pc'[d] = "save" <=> pc[d] = "save"
                             /\ pc'[d] = "refresh" <=> pc[d] = "refresh"
      BY <1>0, <1>1, <2>0, <2>4 DEF Start, Step, Beat, Read, Acquire, Steal, Mark,
                              Drop, Unlink, Return, Goto
    <3> QED BY <3>1, <3>2, RestMaps
  <2> QED BY <2>1, <2>2, <2>3, <2>4
<1>2. ASSUME NEW c \in Clis, \/ CliAcquires(c) \/ CliSteals(c) \/ CliRereads(c)
                              \/ CliRefreshes(c) \/ CliReleases(c) \/ CliBeats(c)
      PROVE  [Rotation!Next]_Rotation!vars
  <2>0. c \in Clients
    BY ClientsAre
  <2>1. CASE CliRefreshes(c) BY <2>1, CliExchangeMaps
  <2>2. CASE CliRereads(c) BY <2>0, <2>2, RereadMaps
  <2>3. CASE ~CliRefreshes(c) /\ ~CliRereads(c)
    <3>1. issued' = issued /\ disk' = disk /\ lost' = lost
      BY <1>2, <2>3 DEF CliAcquires, CliSteals, CliReleases, CliBeats
    <3>2. \A d \in Clients : /\ pc'[d] = "save" <=> pc[d] = "save"
                             /\ pc'[d] = "refresh" <=> pc[d] = "refresh"
      BY <1>0, <1>2, <2>0, <2>3 DEF CliAcquires, CliSteals, CliReleases, CliBeats, Goto
    <3> QED BY <3>1, <3>2, RestMaps
  <2> QED BY <2>1, <2>2, <2>3
<1>3. ASSUME NEW c \in Clients, Crash(c)
      PROVE  [Rotation!Next]_Rotation!vars
  BY <1>3, CrashMaps
<1>4. CASE Tick BY <1>4, RestMaps DEF Tick
<1>5. CASE TokenExpires
  <2>1. disk'.rt = disk.rt
    BY <1>5 DEF TokenExpires, Apart, TypeOK
  <2> QED BY <1>5, <2>1, RestMaps DEF TokenExpires
<1>6. CASE UNCHANGED vars BY <1>6, RestMaps DEF vars
<1> QED BY <1>1, <1>2, <1>3, <1>4, <1>5, <1>6 DEF Next

(***************************************************************************)
(* A mishap next to a CLI is where the rotation breaks, and it takes no    *)
(* token by itself.                                                        *)
(***************************************************************************)
LEMMA MishapMaps ==
  ASSUME TypeOK, ~mishap, mishap', Clis # {}, [Next]_vars
  PROVE  [Rotation!Next]_Rotation!vars
<1> USE DEF tokens
<1>0. pc \in [Clients -> Labels] /\ copy \in [Clients -> 0 .. MaxTokens]
  BY DEF TypeOK, Labels
<1>1. PICK c \in Clients : Mark(c) \/ Crash(c) \/ Tick
  <2>1. ASSUME NEW p \in Procs, Start(p) \/ Step(p) \/ Beat(p)
        PROVE  Mark(p)
    BY <2>1 DEF Start, Step, Beat, Read, Acquire, Steal, Reread, Refresh, Save, Drop, Unlink,
                world
  <2>2. ASSUME NEW c \in Clis, \/ CliAcquires(c) \/ CliSteals(c) \/ CliRereads(c)
                               \/ CliRefreshes(c) \/ CliReleases(c) \/ CliBeats(c)
        PROVE  FALSE
    BY <2>2 DEF CliAcquires, CliSteals, CliRereads, CliRefreshes, CliReleases, CliBeats, world
  <2>3. ~TokenExpires /\ ~UNCHANGED vars
    BY DEF TokenExpires, world, vars
  <2> QED BY <2>1, <2>2, <2>3, ClientsAre DEF Next
<1>2. disk' = disk /\ issued' = issued
  BY <1>1 DEF Mark, Crash, Tick
<1>3. \A d \in Clients : /\ pc'[d] = "refresh" => pc[d] = "refresh" /\ copy'[d] = copy[d]
                         /\ pc'[d] = "save" => pc[d] = "save"
  BY <1>0, <1>1 DEF Mark, Crash, Tick, Goto
<1>4. Sending' \subseteq Sending /\ \A d \in Sending' : copy'[d] = copy[d]
  BY <1>3 DEF Sending
<1>5. Asking' \subseteq Asking
  BY <1>4 DEF Asking
<1>6. InFlight' => InFlight
  BY <1>3, ClientsAre DEF InFlight
<1>7. ~KeptApart'
  BY DEF KeptApart
<1> QED BY <1>2, <1>5, <1>6, <1>7 DEF Asking, InFlight, Rotation!Next, Rotation!Lose

(***************************************************************************)
(* The clients rotate the login as the provider asks: the refresh          *)
(* implements TokenRotation, for any number of processes and CLIs, where a *)
(* mishap next to a CLI counts as the token lost.                          *)
(***************************************************************************)
THEOREM RefreshImplementsRotation == Spec => RotatesInTurn
<1>1. Init => Rotation!Init
  BY KimiAssumption DEF Init, Rotation!Init, Sending, Clients, KeptApart
<1>2. TypeOK /\ LockInv /\ TypeOK' /\ LockInv' /\ [Next]_vars => [Rotation!Next]_Rotation!vars
  <2> SUFFICES ASSUME TypeOK, LockInv, TypeOK', LockInv', [Next]_vars
               PROVE  [Rotation!Next]_Rotation!vars
    OBVIOUS
  <2>1. mishap => mishap'
    BY MishapStays
  <2>2. CASE ~KeptApart
    BY <2>1, <2>2 DEF KeptApart, Rotation!Next, Rotation!Broken
  <2>3. CASE KeptApart /\ KeptApart'
    BY <2>3, StepMaps DEF Apart
  <2>4. CASE KeptApart /\ ~KeptApart'
    BY <2>4, MishapMaps DEF KeptApart
  <2> QED BY <2>2, <2>3, <2>4
<1> QED BY <1>1, <1>2, KimiTypes, LockAlways, PTL DEF Spec, RotatesInTurn, Rotation!Spec

-----------------------------------------------------------------------------
(* The trays' self-update: its inductive invariant. *)

(***************************************************************************)
(* Scoop's part and the tray's own installs exclude each other, and Scoop  *)
(* always leaves every binary installed.                                   *)
(***************************************************************************)
ScoopInv ==
  /\ platform # "scoop" => scoop = 0 /\ job.pc # "spawn"
  /\ platform = "scoop" => ~Swapping /\ \A b \in Names : installed[b] # 0

(***************************************************************************)
(* What is offered is newer than the tray that runs, and is there for as   *)
(* long as it is being installed; only a tray that runs has a worker.      *)
(***************************************************************************)
OfferInv ==
  /\ offered.version <= latest.version
  /\ offered.version # 0 => running # 0 /\ running < offered.version
  /\ offered.ok => offered.version # 0
  /\ Swapping \/ job.pc = "spawn" => offered.ok
  /\ job.pc # "idle" => running # 0

(***************************************************************************)
(* A binary the swap has been at, with its old version aside if it had one. *)
(***************************************************************************)
Handled(b) == IF b \in job.aside THEN job.was[b] # 0 /\ old[b] = job.was[b]
                                 ELSE job.was[b] = 0
DoneNames == {Binaries[i] : i \in job.done}

(***************************************************************************)
(* Where a swap stands:                                                    *)
(*   - what is done has the new version, and can be undone;                *)
(*   - the one that is being placed has no file under its name, and can be *)
(*     undone;                                                             *)
(*   - the others are as they were, unless a roll-back got stuck.          *)
(***************************************************************************)
SwapInv ==
  Swapping =>
    /\ job.done \cap job.todo = {}
    /\ \A b \in DoneNames : installed[b] = offered.version /\ Handled(b)
    /\ job.pc # "undo" => job.done \cup job.todo = Chosen(job.was)
    /\ job.pc = "swap" =>
         /\ job.aside \subseteq DoneNames
         /\ \A b \in Names \ DoneNames : installed[b] = job.was[b]
    /\ job.pc = "place" =>
         /\ job.aside \subseteq DoneNames \cup {Swapped}
         /\ installed[Swapped] = 0 /\ Handled(Swapped)
         /\ \A b \in Names \ DoneNames : b # Swapped => installed[b] = job.was[b]
    /\ job.pc = "undo" =>
         "stuck" \in mishaps \/ \A b \in Names \ DoneNames : installed[b] = job.was[b]

(***************************************************************************)
(* A version that has been handed to Scoop is still recorded as such,      *)
(* or has arrived, or has been overtaken by a newer release.               *)
(***************************************************************************)
Remembered(v) ==
  \/ state.handed = v /\ saved.handed = v
  \/ v <= installed[Tray]
  \/ v < latest.version /\ offered.version # v

HandInv ==
  /\ platform # "scoop" => \A v \in Versions : handoffs[v] = 0
  /\ platform = "scoop" =>
       /\ running # 0 => running = installed[Tray]
       /\ state.handed <= latest.version /\ saved.handed <= latest.version
       /\ offered.version # 0 => state.handed <= offered.version
       /\ job.pc = "spawn" => state.handed = offered.version /\ saved.handed = offered.version
       /\ job.pc \in {"install", "spawn"} /\ ~job.manual /\ offered.ok =>
            handoffs[offered.version] = 0
       /\ \A v \in Versions : handoffs[v] <= 1 /\ (handoffs[v] # 0 => Remembered(v))

-----------------------------------------------------------------------------
(* Sets, binaries and records. *)

(***************************************************************************)
(* The first and the last of a set of positions.                           *)
(***************************************************************************)
LEMMA MinMax ==
  ASSUME NEW n \in Nat, NEW S \in SUBSET (1 .. n), S # {}
  PROVE  /\ Min(S) \in S /\ \A j \in S : Min(S) <= j
         /\ Max(S) \in S /\ \A j \in S : j <= Max(S)
<1> DEFINE R == StrictSubsetOrdering(1 .. n)
<1>0. IsWellFoundedOn(R, FiniteSubsetsOf(1 .. n))
  BY FS_StrictSubsetOrderingWellFounded
<1>1. FiniteSubsetsOf(1 .. n) = SUBSET (1 .. n)
  <2>1. 0 + 1 \in Int /\ n \in Int
    OBVIOUS
  <2>2. IsFiniteSet(1 .. n)
    BY FS_Interval, <2>1
  <2> QED BY <2>2, FS_FiniteSubsetsOfFinite
<1>2. \E x \in S : \A j \in S : x <= j
  <2> DEFINE T == {1 .. x : x \in S}
  <2>0. T \subseteq SUBSET (1 .. n)
    OBVIOUS
  <2>1. T # {} /\ T \subseteq FiniteSubsetsOf(1 .. n)
    <3>1. T # {}
      OBVIOUS
    <3> QED BY <1>1, <2>0, <3>1
  <2>2. PICK U \in T : \A V \in T : <<V, U>> \notin R
    <3> HIDE DEF R, T
    <3> QED BY <1>0, <2>1, WFMin
  <2>3. PICK x \in S : U = 1 .. x
    OBVIOUS
  <2>4. ASSUME NEW j \in S, j < x PROVE FALSE
    <3>1. 1 .. j \in T /\ 1 .. j \subseteq U /\ 1 .. j # U /\ x \in U /\ x \notin 1 .. j
      BY <2>3, <2>4
    <3>2. <<1 .. j, U>> \in R
      BY <3>1, <2>3, <1>1 DEF StrictSubsetOrdering
    <3> QED BY <2>2, <3>1, <3>2
  <2> QED BY <2>4
<1>3. \E x \in S : \A j \in S : x >= j
  <2> DEFINE T == {x .. n : x \in S}
  <2>0. T \subseteq SUBSET (1 .. n)
    <3>1. \A x \in S : x .. n \in SUBSET (1 .. n)
      OBVIOUS
    <3> QED BY <3>1
  <2>1. T # {} /\ T \subseteq FiniteSubsetsOf(1 .. n)
    <3>1. T # {}
      OBVIOUS
    <3> QED BY <1>1, <2>0, <3>1
  <2>2. PICK U \in T : \A V \in T : <<V, U>> \notin R
    <3> HIDE DEF R, T
    <3> QED BY <1>0, <2>1, WFMin
  <2>3. PICK x \in S : U = x .. n
    OBVIOUS
  <2>4. ASSUME NEW j \in S, j > x PROVE FALSE
    <3>1. j .. n \in T /\ j .. n \subseteq U /\ x \in U /\ x \notin j .. n
      BY <2>3, <2>4
    <3>2. <<j .. n, U>> \in R
      BY <3>1, <2>3, <1>1 DEF StrictSubsetOrdering
    <3> QED BY <2>2, <3>1, <3>2
  <2> QED BY <2>4
<1> QED BY <1>2, <1>3 DEF Min, Max

LEMMA Names1 ==
  ASSUME UpdateAssumption
  PROVE  /\ Len(Binaries) \in Nat /\ Positions = 1 .. Len(Binaries)
         /\ 1 \in Positions /\ Tray \in Names
         /\ \A i \in Positions : Binaries[i] \in Names
         /\ \A b \in Names : \E i \in Positions : Binaries[i] = b
         /\ \A i, j \in Positions : Binaries[i] = Binaries[j] => i = j
         /\ MaxVersion \in Nat \ {0} /\ MaxTroubles \in Nat
BY DEF UpdateAssumption, Positions, Names, Tray, ToSet

LEMMA FirstAndLast ==
  ASSUME UpdateAssumption, NEW S \in SUBSET Positions, S # {}
  PROVE  Min(S) \in S /\ Max(S) \in S
<1>1. PICK n \in Nat : Positions = 1 .. n
  BY Names1
<1> QED BY <1>1, MinMax

(***************************************************************************)
(* The records.                                                            *)
(***************************************************************************)
LEMMA UpdateFields ==
  \A u \in Updates : /\ u.handed \in 0 .. MaxVersion /\ u.snoozed \in 0 .. MaxVersion
                     /\ \A v \in 0 .. MaxVersion :
                          /\ [u EXCEPT !.handed = v] \in Updates
                          /\ [u EXCEPT !.handed = v].handed = v
                          /\ [u EXCEPT !.snoozed = v] \in Updates
                          /\ [u EXCEPT !.snoozed = v].handed = u.handed
BY DEF Updates

LEMMA ReleaseFields ==
  ASSUME MaxVersion \in Nat
  PROVE  /\ \A r \in Releases : r.version \in 0 .. MaxVersion /\ r.ships \subseteq Names /\ r.ok \in BOOLEAN
         /\ \A v \in 0 .. MaxVersion, ships \in SUBSET Names, ok \in BOOLEAN :
              [version |-> v, ships |-> ships, ok |-> ok] \in Releases
         /\ Nothing \in Releases /\ Nothing.version = 0 /\ ~Nothing.ok
BY DEF Releases, Nothing

Steps == {"idle", "asking", "install", "spawn", "swap", "place", "undo"}

LEMMA JobIs ==
  \A at, manual, todo, done, aside, was :
    LET j == Job(at, manual, todo, done, aside, was)
    IN  /\ j.pc = at /\ j.manual = manual /\ j.todo = todo /\ j.done = done
        /\ j.aside = aside /\ j.was = was
BY DEF Job

LEMMA JobMade ==
  \A at \in Steps, manual \in BOOLEAN, todo \in SUBSET Positions, done \in SUBSET Positions,
     aside \in SUBSET Names, was \in [Names -> 0 .. MaxVersion] :
    (at = "place" => todo # {}) => Job(at, manual, todo, done, aside, was) \in Jobs
BY DEF Job, Jobs, Steps

LEMMA JobFields ==
  \A j \in Jobs :
    /\ j.pc \in Steps /\ j.manual \in BOOLEAN /\ j.todo \in SUBSET Positions
    /\ j.done \in SUBSET Positions /\ j.aside \in SUBSET Names
    /\ j.was \in [Names -> 0 .. MaxVersion] /\ (j.pc = "place" => j.todo # {})
BY DEF Jobs, Steps

LEMMA GoDoes ==
  ASSUME NEW j \in Jobs, NEW at \in Steps, at = "place" => j.todo # {}
  PROVE  LET k == [j EXCEPT !.pc = at]
         IN  /\ k \in Jobs /\ k.pc = at /\ k.manual = j.manual /\ k.todo = j.todo
             /\ k.done = j.done /\ k.aside = j.aside /\ k.was = j.was
<1>1. [j EXCEPT !.pc = at] \in Jobs
  BY DEF Jobs, Steps
<1>2. LET k == [j EXCEPT !.pc = at]
      IN  /\ k.pc = at /\ k.manual = j.manual /\ k.todo = j.todo
          /\ k.done = j.done /\ k.aside = j.aside /\ k.was = j.was
  BY DEF Jobs
<1> QED BY <1>1, <1>2

LEMMA BegunDoes ==
  ASSUME MaxVersion \in Nat, NEW at \in Steps \ {"place"}, NEW manual \in BOOLEAN
  PROVE  Begun(at, manual) \in Jobs /\ Begun(at, manual).pc = at /\ Begun(at, manual).manual = manual
<1>1. [b \in Names |-> 0] \in [Names -> 0 .. MaxVersion]
  OBVIOUS
<1>2. Job(at, manual, {}, {}, {}, [b \in Names |-> 0]) \in Jobs
  BY <1>1, JobIs, JobMade, JobFields
<1> QED BY <1>2, JobIs, JobMade, JobFields DEF Begun

LEMMA IdleDoes ==
  ASSUME MaxVersion \in Nat
  PROVE  Idle \in Jobs /\ Idle.pc = "idle"
BY BegunDoes DEF Idle, Steps

-----------------------------------------------------------------------------
(* Types. *)

LEMMA UpdateTypeInit ==
  ASSUME UpdateAssumption, UpdateInit
  PROVE  UpdateTypeOK
<1>1. MaxVersion \in Nat /\ MaxTroubles \in Nat
  BY Names1
<1>2. 1 \in Versions /\ 1 \in 0 .. MaxVersion /\ 0 \in 0 .. MaxVersion /\ 0 \in Nat
  BY Names1 DEF Versions
<1>3. installed \in [Names -> 0 .. MaxVersion] /\ old \in [Names -> 0 .. MaxVersion]
      /\ handoffs \in [Versions -> Nat]
  BY <1>2 DEF UpdateInit
<1>4. state \in Updates /\ saved \in Updates
  BY <1>2 DEF UpdateInit, Updates
<1>5. latest \in [version : Versions, ships : SUBSET Names]
  BY <1>2 DEF UpdateInit
<1>6. job \in Jobs /\ offered \in Releases
  BY <1>1, IdleDoes, ReleaseFields DEF UpdateInit
<1> QED BY <1>1, <1>2, <1>3, <1>4, <1>5, <1>6 DEF UpdateInit, UpdateTypeOK

(***************************************************************************)
(* What a tray that starts, or ends, leaves.                               *)
(***************************************************************************)
LEMMA StartType ==
  ASSUME UpdateAssumption, UpdateTypeOK, installed' \in [Names -> 0 .. MaxVersion], Begins
  PROVE  /\ old' \in [Names -> 0 .. MaxVersion] /\ running' \in 0 .. MaxVersion
         /\ state' \in Updates /\ saved' \in Updates /\ offered' \in Releases
         /\ fact' \in {"none", "failed"} /\ job' \in Jobs /\ leaving' = "no"
         /\ mishaps' \subseteq {"killed", "stuck", "swept"}
<1>1. MaxVersion \in Nat /\ Tray \in Names
  BY Names1
<1>2. [b \in Names |-> 0] \in [Names -> 0 .. MaxVersion] /\ 0 \in 0 .. MaxVersion
  BY <1>1
<1>3. old' \in [Names -> 0 .. MaxVersion] /\ mishaps' \subseteq {"killed", "stuck", "swept"}
  BY <1>2 DEF Begins, Sweep, UpdateTypeOK
<1>4. running' \in 0 .. MaxVersion
  BY <1>1 DEF Begins
<1>5. state' \in Updates /\ saved' \in Updates
  BY <1>2, UpdateFields DEF Begins, UpdateTypeOK
<1> QED BY <1>1, <1>3, <1>4, <1>5, IdleDoes, ReleaseFields DEF Begins

LEMMA EndsType ==
  ASSUME UpdateAssumption, UpdateTypeOK, Ends
  PROVE  /\ running' \in 0 .. MaxVersion
         /\ state' \in Updates /\ offered' \in Releases
         /\ fact' = "none" /\ job' \in Jobs /\ leaving' = "no"
         /\ mishaps' \subseteq {"killed", "stuck", "swept"}
BY Names1, IdleDoes, ReleaseFields DEF Ends, UpdateTypeOK

LEMMA WorldStepsType ==
  ASSUME UpdateAssumption, UpdateTypeOK, World
  PROVE  UpdateTypeOK'
<1>0. MaxVersion \in Nat /\ MaxTroubles \in Nat /\ Tray \in Names
  BY Names1
<1>1. CASE Publish
  <2>1. latest' \in [version : Versions, ships : SUBSET Names]
    <3>1. latest.version \in 1 .. MaxVersion /\ latest.version < MaxVersion
      BY <1>1 DEF Publish, UpdateTypeOK, Versions
    <3>2. latest.version + 1 \in Versions
      BY <1>0, <3>1 DEF Versions
    <3>3. PICK v \in Versions : v = latest.version + 1
      BY <3>2
    <3>4. PICK ships \in SUBSET Names : latest' = [version |-> v, ships |-> ships]
      BY <1>1, <3>3 DEF Publish
    <3>5. [version |-> v, ships |-> ships] \in [version : Versions, ships : SUBSET Names]
      OBVIOUS
    <3> QED BY <3>4, <3>5
  <2>2. UNCHANGED <<platform, installed, old, running, mode, state, saved, offered, fact, job, leaving,
                    scoop, handoffs, mishaps, troubles>>
    BY <1>1 DEF Publish, files, worker
  <2> QED BY <2>1, <2>2 DEF UpdateTypeOK
<1>2. CASE UserStarts
  BY <1>2, StartType DEF UserStarts, UpdateTypeOK
<1>3. CASE Killed
  BY <1>0, <1>3, EndsType DEF Killed, Trouble, UpdateTypeOK, files
<1>4. CASE Restart
  <2>1. CASE Swapping
    BY <1>4, <2>1, EndsType DEF Restart, UpdateTypeOK, files
  <2>2. CASE ~Swapping
    BY <1>4, <2>2, StartType DEF Restart, UpdateTypeOK
  <2> QED BY <2>1, <2>2
<1>5. CASE LeaveToScoop
  BY <1>5, EndsType DEF LeaveToScoop, UpdateTypeOK, files
<1>6. CASE ScoopRuns
  <2>1. installed' \in [Names -> 0 .. MaxVersion]
    <3>1. CASE UNCHANGED installed
      BY <3>1 DEF UpdateTypeOK
    <3>2. ASSUME NEW v \in installed[Tray] .. latest.version, installed' = [b \in Names |-> v]
          PROVE  installed' \in [Names -> 0 .. MaxVersion]
      <4>1. installed[Tray] \in 0 .. MaxVersion /\ latest.version \in 1 .. MaxVersion
        BY <1>0 DEF UpdateTypeOK, Versions
      <4>2. v \in 0 .. MaxVersion
        BY <1>0, <4>1
      <4> QED BY <3>2, <4>2
    <3> QED BY <1>6, <3>1, <3>2 DEF ScoopRuns
  <2> QED BY <1>0, <1>6, <2>1, StartType DEF ScoopRuns, UpdateTypeOK
<1> QED BY <1>1, <1>2, <1>3, <1>4, <1>5, <1>6 DEF World

LEMMA BeginCheckType ==
  ASSUME UpdateAssumption, UpdateTypeOK, NEW manual \in BOOLEAN, BeginCheck(manual)
  PROVE  /\ job' = Begun("asking", manual) /\ job' \in Jobs
         /\ fact' \in {"none", "checking", "available", "downloading", "installing", "failed"}
         /\ state' = state /\ saved' \in {saved, state}
         /\ troubles' \in 0 .. MaxTroubles
<1>1. Begun("asking", manual) \in Jobs
  BY Names1, BegunDoes DEF Steps
<1> QED BY <1>1, Names1 DEF BeginCheck, Persist, Fine, Trouble, UpdateTypeOK

(***************************************************************************)
(* A step of a job.                                                        *)
(***************************************************************************)
LEMMA ProceedType ==
  ASSUME UpdateTypeOK, NEW at \in Steps, NEW todo \in SUBSET Positions, NEW done \in SUBSET Positions,
         NEW aside \in SUBSET Names, at = "place" => todo # {}, Proceed(at, todo, done, aside)
  PROVE  /\ job' \in Jobs /\ job'.pc = at /\ job'.todo = todo /\ job'.done = done
         /\ job'.aside = aside /\ job'.was = job.was
<1>1. job.manual \in BOOLEAN /\ job.was \in [Names -> 0 .. MaxVersion]
  BY JobIs, JobMade, JobFields DEF UpdateTypeOK
<1>2. PICK manual \in BOOLEAN, was \in [Names -> 0 .. MaxVersion] :
        manual = job.manual /\ was = job.was
  BY <1>1
<1>3. job' = Job(at, manual, todo, done, aside, was)
  BY <1>2 DEF Proceed
<1> QED BY <1>2, <1>3, JobIs, JobMade, JobFields

LEMMA GoType ==
  ASSUME UpdateTypeOK, NEW at \in Steps, at = "place" => job.todo # {}, Go(at)
  PROVE  /\ job' \in Jobs /\ job'.pc = at /\ job'.todo = job.todo /\ job'.done = job.done
         /\ job'.aside = job.aside /\ job'.was = job.was
BY GoDoes DEF Go, UpdateTypeOK

LEMMA CheckStepsType ==
  ASSUME UpdateAssumption, UpdateTypeOK, Check \/ InstallOrCheck \/ Snooze \/ SetMode \/ Answer
  PROVE  UpdateTypeOK'
<1>0. MaxVersion \in Nat /\ MaxTroubles \in Nat
  BY Names1
<1>1. CASE Check
  <2>1. PICK manual \in BOOLEAN : BeginCheck(manual)
    BY <1>1 DEF Check
  <2> QED BY <1>1, <2>1, BeginCheckType DEF Check, UpdateTypeOK, files
<1>2. CASE InstallOrCheck
  <2>1. CASE offered = Nothing
    BY <1>2, <2>1, BeginCheckType DEF InstallOrCheck, UpdateTypeOK, files
  <2>2. CASE offered # Nothing
    <3>1. Begun("install", TRUE) \in Jobs
      BY <1>0, BegunDoes DEF Steps
    <3> QED BY <1>2, <2>2, <3>1 DEF InstallOrCheck, UpdateTypeOK, files
  <2> QED BY <2>1, <2>2
<1>3. CASE Snooze
  <2>1. state' \in Updates /\ saved' \in Updates /\ troubles' \in 0 .. MaxTroubles
    <3>1. CASE offered = Nothing
      BY <1>3, <3>1 DEF Snooze, UpdateTypeOK
    <3>2. CASE offered # Nothing
      <4>1. state' \in Updates
        <5>1. offered.version \in 0 .. MaxVersion /\ state \in Updates
          BY <1>0, ReleaseFields DEF UpdateTypeOK
        <5>2. state' = [state EXCEPT !.snoozed = offered.version]
          BY <1>3, <3>2 DEF Snooze
        <5> QED BY <5>1, <5>2, UpdateFields
      <4> QED BY <1>0, <1>3, <3>2, <4>1 DEF Snooze, Persist, Fine, Trouble, UpdateTypeOK
    <3> QED BY <3>1, <3>2
  <2> QED BY <1>3, <2>1 DEF Snooze, UpdateTypeOK, files
<1>4. CASE SetMode
  <2>1. PICK m \in {"off", "notify", "auto"} :
          /\ mode' = m
          /\ \/ /\ m = "auto" /\ MayHandOff(FALSE, offered)
                /\ job' = Begun("install", FALSE)
                /\ UNCHANGED <<state, saved, fact, troubles>>
             \/ BeginCheck(FALSE)
             \/ UNCHANGED <<state, saved, fact, job, troubles>>
    BY <1>4 DEF SetMode
  <2>2. CASE job' = Begun("install", FALSE) /\ UNCHANGED <<state, saved, fact, troubles>>
    <3>1. Begun("install", FALSE) \in Jobs
      BY <1>0, BegunDoes DEF Steps
    <3> QED BY <1>4, <2>1, <2>2, <3>1 DEF SetMode, UpdateTypeOK, files
  <2>3. CASE BeginCheck(FALSE)
    BY <1>4, <2>1, <2>3, BeginCheckType DEF SetMode, UpdateTypeOK, files
  <2>4. CASE UNCHANGED <<state, saved, fact, job, troubles>>
    BY <1>4, <2>1, <2>4 DEF SetMode, UpdateTypeOK, files
  <2> QED BY <2>1, <2>2, <2>3, <2>4
<1>5. CASE FoundNewer
  <2>1. offered' \in Releases
    <3>1. latest.version \in 0 .. MaxVersion /\ latest.ships \subseteq Names
      BY <1>0 DEF UpdateTypeOK, Versions
    <3>2. CanInstall(latest) \in BOOLEAN
      BY DEF CanInstall
    <3> QED BY <1>0, <1>5, <3>1, <3>2, ReleaseFields DEF FoundNewer
  <2>2. job' \in Jobs
    <3>1. job' = Idle \/ Go("install")
      BY <1>5 DEF FoundNewer
    <3>2. CASE job' = Idle
      BY <1>0, <3>2, IdleDoes
    <3>3. CASE Go("install")
      BY <3>3, GoType DEF Steps
    <3> QED BY <3>1, <3>2, <3>3
  <2> QED BY <1>5, <2>1, <2>2 DEF FoundNewer, UpdateTypeOK, files
<1>6. CASE UpToDate
  BY <1>0, <1>6, IdleDoes, ReleaseFields DEF UpToDate, UpdateTypeOK, files
<1>7. CASE CheckFails
  BY <1>0, <1>7, IdleDoes DEF CheckFails, UpdateTypeOK, files
<1> QED BY <1>1, <1>2, <1>3, <1>4, <1>5, <1>6, <1>7 DEF Answer

LEMMA InstallStepsType ==
  ASSUME UpdateAssumption, UpdateTypeOK, Install
  PROVE  UpdateTypeOK'
<1>0. MaxVersion \in Nat /\ MaxTroubles \in Nat /\ 0 \in 0 .. MaxVersion
  BY Names1
<1>9. offered.version \in 0 .. MaxVersion
  BY <1>0, ReleaseFields DEF UpdateTypeOK
<1>1. CASE NotHere
  BY <1>0, <1>1, IdleDoes DEF NotHere, UpdateTypeOK, files
<1>2. CASE HandOff
  <2>1. state' \in Updates /\ job' \in Jobs
    BY <1>2, <1>9, UpdateFields, GoDoes DEF HandOff, Go, UpdateTypeOK, Steps
  <2> QED BY <1>2, <2>1 DEF HandOff, UpdateTypeOK, files
<1>3. CASE CannotHandOff
  <2>1. state' \in Updates
    BY <1>3, <1>0, UpdateFields DEF CannotHandOff, UpdateTypeOK
  <2>2. handoffs' \in [Versions -> Nat]
    BY <1>3 DEF CannotHandOff, UpdateTypeOK
  <2> QED BY <1>0, <1>3, <2>1, <2>2, IdleDoes DEF CannotHandOff, Trouble, UpdateTypeOK, files
<1>4. CASE SpawnScoop
  <2>1. handoffs' \in [Versions -> Nat]
    <3>1. handoffs \in [Versions -> Nat]
      BY DEF UpdateTypeOK
    <3>2. PICK n : n = handoffs[offered.version] + 1
      OBVIOUS
    <3>3. offered.version \in Versions => n \in Nat
      BY <3>1, <3>2
    <3>4. handoffs' \in {handoffs, [handoffs EXCEPT ![offered.version] = n]}
      BY <1>4, <3>2 DEF SpawnScoop
    <3> QED BY <3>1, <3>3, <3>4
  <2> QED BY <1>0, <1>4, <1>9, <2>1, IdleDoes DEF SpawnScoop, UpdateTypeOK, files
<1>5. CASE Download
  <2>1. Chosen(installed) \in SUBSET Positions
    BY DEF Chosen
  <2>2. job' \in Jobs
    BY <1>5, <2>1, JobIs, JobMade, JobFields DEF Download, UpdateTypeOK, Steps
  <2> QED BY <1>5, <2>2 DEF Download, UpdateTypeOK, files
<1>6. CASE DownloadFails
  BY <1>0, <1>6, IdleDoes DEF DownloadFails, UpdateTypeOK, files
<1> QED BY <1>1, <1>2, <1>3, <1>4, <1>5, <1>6 DEF Install

LEMMA ComesBackType ==
  ASSUME UpdateTypeOK, UpdateAssumption, NEW b, ComesBack(b)
  PROVE  /\ installed' \in [Names -> 0 .. MaxVersion] /\ old' \in [Names -> 0 .. MaxVersion]
         /\ mishaps' \subseteq {"killed", "stuck", "swept"}
<1>1. 0 \in 0 .. MaxVersion
  BY Names1
<1>2. b \in Names => old[b] \in 0 .. MaxVersion
  BY DEF UpdateTypeOK
<1> QED BY <1>1, <1>2 DEF ComesBack, UpdateTypeOK

LEMMA SwapStepsType ==
  ASSUME UpdateAssumption, UpdateTypeOK, Swap
  PROVE  UpdateTypeOK'
<1>0. MaxVersion \in Nat /\ MaxTroubles \in Nat /\ 0 \in 0 .. MaxVersion
  BY Names1
<1>9. offered.version \in 0 .. MaxVersion /\ job \in Jobs
  BY <1>0, ReleaseFields DEF UpdateTypeOK
<1>8. job.todo \in SUBSET Positions /\ job.done \in SUBSET Positions /\ job.aside \in SUBSET Names
  BY <1>9, JobIs, JobMade, JobFields
<1>1. CASE PutAside
  <2>1. Swapped \in Names
    BY <1>1, <1>8, FirstAndLast, Names1 DEF PutAside, Swapped
  <2>2. CASE installed[Swapped] # 0
    <3>1. job' \in Jobs
      BY <1>1, <1>8, <2>1, <2>2, ProceedType DEF PutAside, Steps
    <3>2. old' \in [Names -> 0 .. MaxVersion] /\ installed' \in [Names -> 0 .. MaxVersion]
      BY <1>0, <1>1, <2>1, <2>2 DEF PutAside, UpdateTypeOK
    <3> QED BY <1>1, <3>1, <3>2 DEF PutAside, UpdateTypeOK
  <2>3. CASE installed[Swapped] = 0
    <3>1. job' \in Jobs
      BY <1>1, <2>3, GoType DEF PutAside, Steps
    <3> QED BY <1>1, <2>3, <3>1 DEF PutAside, UpdateTypeOK, files
  <2> QED BY <2>2, <2>3
<1>2. CASE CannotPutAside
  <2>1. job' \in Jobs
    BY <1>2, GoType DEF CannotPutAside, Steps
  <2>2. old' \in [Names -> 0 .. MaxVersion]
    BY <1>0, <1>2 DEF CannotPutAside, UpdateTypeOK
  <2> QED BY <1>0, <1>2, <2>1, <2>2 DEF CannotPutAside, Trouble, UpdateTypeOK
<1>3. CASE Place
  <2>1. Min(job.todo) \in Positions
    BY <1>3, <1>8, <1>9, FirstAndLast, JobIs, JobMade, JobFields DEF Place
  <2>3. job' \in Jobs
    BY <1>3, <1>8, <2>1, ProceedType DEF Place, Steps
  <2>2. installed' \in [Names -> 0 .. MaxVersion]
    BY <1>3, <1>9 DEF Place, UpdateTypeOK
  <2> QED BY <1>3, <2>2, <2>3 DEF Place, UpdateTypeOK
<1>4. CASE CannotPlace
  <2>1. job' \in Jobs
    BY <1>4, GoType DEF CannotPlace, Steps
  <2> QED BY <1>0, <1>4, <2>1, ComesBackType DEF CannotPlace, Trouble, UpdateTypeOK
<1>5. CASE Undo
  <2>1. job' \in Jobs
    BY <1>5, <1>8, ProceedType DEF Undo, Steps
  <2> QED BY <1>5, <2>1, ComesBackType DEF Undo, UpdateTypeOK
<1>6. CASE InstallFailed
  BY <1>0, <1>6, IdleDoes DEF InstallFailed, UpdateTypeOK, files
<1>7. CASE Installed
  BY <1>0, <1>7, IdleDoes DEF Installed, UpdateTypeOK, files
<1> QED BY <1>1, <1>2, <1>3, <1>4, <1>5, <1>6, <1>7 DEF Swap

LEMMA UpdateTypeStep ==
  ASSUME UpdateAssumption, UpdateTypeOK, [UpdateNext]_updateVars
  PROVE  UpdateTypeOK'
<1>1. CASE UNCHANGED updateVars
  BY <1>1 DEF UpdateTypeOK, updateVars, files, worker
<1> QED BY <1>1, WorldStepsType, CheckStepsType, InstallStepsType, SwapStepsType DEF UpdateNext

(***************************************************************************)
(* The worker, the files and the hand-off stay well formed (updates.rs).   *)
(***************************************************************************)
THEOREM UpdateTypes ==
  ASSUME UpdateAssumption
  PROVE  UpdateSpec => []UpdateTypeOK
<1>1. UpdateInit => UpdateTypeOK
  BY UpdateTypeInit
<1>2. UpdateTypeOK /\ [UpdateNext]_updateVars => UpdateTypeOK'
  BY UpdateTypeStep
<1> QED BY <1>1, <1>2, PTL DEF UpdateSpec

-----------------------------------------------------------------------------
(* What is offered, and who installs it. *)

LEMMA Figures ==
  ASSUME UpdateAssumption, UpdateTypeOK
  PROVE  /\ latest.version \in Versions /\ latest.version \in Nat /\ running \in Nat
         /\ offered.version \in Nat /\ (offered.version # 0 => offered.version \in Versions)
         /\ offered.ok \in BOOLEAN /\ job.manual \in BOOLEAN
         /\ state.handed \in Nat /\ saved.handed \in Nat /\ scoop \in Nat
         /\ installed[Tray] \in Nat /\ \A b \in Names : installed[b] \in Nat /\ old[b] \in Nat
         /\ \A v \in Versions : v \in Nat /\ v # 0 /\ handoffs[v] \in Nat
<1>1. MaxVersion \in Nat \ {0} /\ Tray \in Names
  BY Names1
<1>2. \A n \in 0 .. MaxVersion : n \in Nat /\ (n # 0 => n \in Versions)
  BY <1>1 DEF Versions
<1>3. \A v \in Versions : v \in Nat /\ v # 0
  BY <1>1 DEF Versions
<1>4. offered.version \in 0 .. MaxVersion /\ offered.ok \in BOOLEAN
  BY <1>1, ReleaseFields DEF UpdateTypeOK
<1>5. state.handed \in 0 .. MaxVersion /\ saved.handed \in 0 .. MaxVersion
  BY UpdateFields DEF UpdateTypeOK
<1>6. job.manual \in BOOLEAN
  BY JobIs, JobMade, JobFields DEF UpdateTypeOK
<1>7. \A b \in Names : installed[b] \in 0 .. MaxVersion /\ old[b] \in 0 .. MaxVersion
  BY DEF UpdateTypeOK
<1>8. latest.version \in Versions /\ running \in 0 .. MaxVersion /\ scoop \in 0 .. MaxVersion
      /\ \A v \in Versions : handoffs[v] \in Nat
  BY DEF UpdateTypeOK
<1> QED BY <1>1, <1>2, <1>3, <1>4, <1>5, <1>6, <1>7, <1>8

OfferIsSound == ScoopInv /\ OfferInv

(***************************************************************************)
(* A step of the worker that touches neither files nor offer.              *)
(***************************************************************************)
LEMMA QuietSound ==
  ASSUME OfferIsSound, UNCHANGED <<platform, installed, running, latest, offered, scoop>>,
         job'.pc # "idle" => running # 0,
         job'.pc = "spawn" => platform = "scoop" /\ offered.ok,
         Swapping' => platform # "scoop" /\ offered.ok
  PROVE  OfferIsSound'
BY DEF OfferIsSound, ScoopInv, OfferInv

(***************************************************************************)
(* A step within a swap.                                                   *)
(***************************************************************************)
LEMMA SwapSound ==
  ASSUME OfferIsSound, UNCHANGED <<platform, running, latest, offered, scoop>>,
         Swapping, job'.pc # "spawn"
  PROVE  OfferIsSound'
BY DEF OfferIsSound, ScoopInv, OfferInv

LEMMA StartSound ==
  ASSUME UpdateAssumption, UpdateTypeOK, OfferIsSound, UNCHANGED <<platform, latest>>, Begins,
         platform # "scoop" => scoop' = 0,
         platform = "scoop" => \A b \in Names : installed'[b] # 0
  PROVE  OfferIsSound'
<1>1. /\ offered'.version = 0 /\ ~offered'.ok /\ job'.pc = "idle"
      /\ latest.version \in Nat
  BY Names1, IdleDoes, ReleaseFields, Figures DEF Begins
<1> QED BY <1>1 DEF OfferIsSound, ScoopInv, OfferInv, Swapping

LEMMA EndsSound ==
  ASSUME UpdateAssumption, UpdateTypeOK, OfferIsSound, UNCHANGED <<platform, installed, latest, scoop>>, Ends
  PROVE  OfferIsSound'
<1>1. /\ offered'.version = 0 /\ ~offered'.ok /\ job'.pc = "idle"
      /\ latest.version \in Nat
  BY Names1, IdleDoes, ReleaseFields, Figures DEF Ends
<1> QED BY <1>1 DEF OfferIsSound, ScoopInv, OfferInv, Swapping

(***************************************************************************)
(* What the hand-off script installs.                                      *)
(***************************************************************************)
LEMMA ScoopInstalls ==
  ASSUME UpdateAssumption, UpdateTypeOK, ScoopInv, ScoopRuns
  PROVE  /\ platform = "scoop" /\ installed[Tray] <= installed'[Tray]
         /\ \A b \in Names : installed'[b] # 0
<1>1. platform = "scoop"
  BY DEF ScoopRuns, ScoopInv
<1>2. Tray \in Names /\ installed[Tray] \in Nat /\ latest.version \in Nat /\ installed[Tray] # 0
      /\ \A b \in Names : installed[b] # 0
  BY <1>1, Names1, Figures DEF ScoopInv
<1>3. CASE UNCHANGED installed
  BY <1>1, <1>2, <1>3
<1>4. ASSUME NEW v \in installed[Tray] .. latest.version, installed' = [b \in Names |-> v]
      PROVE  installed[Tray] <= installed'[Tray] /\ \A b \in Names : installed'[b] # 0
  <2>1. v >= installed[Tray] /\ v # 0
    BY <1>2
  <2> QED BY <1>2, <1>4, <2>1
<1> QED BY <1>1, <1>3, <1>4 DEF ScoopRuns

LEMMA WorldSound ==
  ASSUME UpdateAssumption, UpdateTypeOK, OfferIsSound, World
  PROVE  OfferIsSound'
<1>1. CASE Publish
  <2>1. PICK v : v = latest.version + 1
    OBVIOUS
  <2>2. latest'.version = v
    BY <1>1, <2>1 DEF Publish
  <2>3. v > latest.version /\ latest.version \in Nat /\ offered.version \in Nat /\ v \in Nat
    BY <2>1, Figures
  <2> QED BY <1>1, <2>2, <2>3 DEF Publish, files, worker, OfferIsSound, ScoopInv, OfferInv, Swapping
<1>2. CASE UserStarts
  BY <1>2, StartSound DEF UserStarts, OfferIsSound, ScoopInv
<1>3. CASE Killed
  BY <1>3, EndsSound DEF Killed, files
<1>4. CASE Restart
  <2>1. CASE Swapping
    BY <1>4, <2>1, EndsSound DEF Restart, files
  <2>2. CASE ~Swapping
    BY <1>4, <2>2, StartSound DEF Restart, OfferIsSound, ScoopInv
  <2> QED BY <2>1, <2>2
<1>5. CASE LeaveToScoop
  BY <1>5, EndsSound DEF LeaveToScoop, files
<1>6. CASE ScoopRuns
  BY <1>6, StartSound, ScoopInstalls DEF ScoopRuns, OfferIsSound
<1> QED BY <1>1, <1>2, <1>3, <1>4, <1>5, <1>6 DEF World

LEMMA CheckSound ==
  ASSUME UpdateAssumption, UpdateTypeOK, OfferIsSound, Check \/ InstallOrCheck \/ Snooze \/ SetMode \/ Answer
  PROVE  OfferIsSound'
<1>0. /\ \A manual \in BOOLEAN : Begun("asking", manual).pc = "asking"
      /\ \A manual \in BOOLEAN : Begun("install", manual).pc = "install"
      /\ Idle.pc = "idle" /\ Nothing.version = 0 /\ ~Nothing.ok
  BY Names1, BegunDoes, IdleDoes, ReleaseFields DEF Steps
<1>1. CASE Check
  <2>1. job'.pc = "asking"
    BY <1>0, <1>1 DEF Check, BeginCheck
  <2> QED BY <1>1, <2>1, QuietSound DEF Check, Ready, files, Swapping
<1>2. CASE InstallOrCheck
  <2>1. job'.pc \in {"asking", "install"}
    BY <1>0, <1>2 DEF InstallOrCheck, BeginCheck
  <2> QED BY <1>2, <2>1, QuietSound DEF InstallOrCheck, Ready, files, Swapping
<1>3. CASE Snooze
  BY <1>3, QuietSound DEF Snooze, files, Ready, Swapping
<1>4. CASE SetMode
  <2>1. job'.pc \in {"idle", "asking", "install"}
    BY <1>0, <1>4 DEF SetMode, BeginCheck, Ready
  <2> QED BY <1>4, <2>1, QuietSound DEF SetMode, Ready, files, Swapping
<1>5. CASE FoundNewer
  <2>1. job'.pc \in {"idle", "install"}
    BY <1>0, <1>5, GoType DEF FoundNewer, Steps
  <2>2. offered'.version = latest.version /\ running < latest.version /\ running # 0
    BY <1>5 DEF FoundNewer, OfferIsSound, OfferInv
  <2> QED
    BY <1>5, <2>1, <2>2, Figures DEF FoundNewer, OfferIsSound, ScoopInv, OfferInv, files, Swapping
<1>6. CASE UpToDate
  BY <1>0, <1>6, Figures DEF UpToDate, OfferIsSound, ScoopInv, OfferInv, files, Swapping
<1>7. CASE CheckFails
  BY <1>0, <1>7, QuietSound DEF CheckFails, files, Swapping
<1> QED BY <1>1, <1>2, <1>3, <1>4, <1>5, <1>6, <1>7 DEF Answer

LEMMA InstallSound ==
  ASSUME UpdateAssumption, UpdateTypeOK, OfferIsSound, Install
  PROVE  OfferIsSound'
<1>0. Idle.pc = "idle"
  BY Names1, IdleDoes
<1>1. CASE NotHere
  BY <1>0, <1>1, QuietSound DEF NotHere, files, Swapping
<1>2. CASE HandOff
  <2>1. job'.pc = "spawn"
    BY <1>2, GoType DEF HandOff, Steps
  <2> QED BY <1>2, <2>1, QuietSound DEF HandOff, OfferIsSound, OfferInv, files, Swapping
<1>3. CASE CannotHandOff
  BY <1>0, <1>3, QuietSound DEF CannotHandOff, files, Swapping
<1>4. CASE SpawnScoop
  <2>1. platform = "scoop" /\ job'.pc = "idle"
    BY <1>0, <1>4 DEF SpawnScoop, OfferIsSound, ScoopInv
  <2> QED BY <1>4, <2>1 DEF SpawnScoop, OfferIsSound, ScoopInv, OfferInv, files, Swapping
<1>5. CASE Download
  <2>1. job'.pc = "swap"
    BY <1>5, JobIs, JobMade, JobFields DEF Download
  <2> QED BY <1>5, <2>1, QuietSound DEF Download, OfferIsSound, OfferInv, files, Swapping
<1>6. CASE DownloadFails
  BY <1>0, <1>6, QuietSound DEF DownloadFails, files, Swapping
<1> QED BY <1>1, <1>2, <1>3, <1>4, <1>5, <1>6 DEF Install

LEMMA SwapStepsSound ==
  ASSUME UpdateAssumption, UpdateTypeOK, OfferIsSound, Swap
  PROVE  OfferIsSound'
<1>0. Idle.pc = "idle"
  BY Names1, IdleDoes
<1>1. CASE PutAside
  <2>1. job'.pc = "place"
    <3>1. CASE installed[Swapped] # 0
      BY <1>1, <3>1, JobIs, JobMade, JobFields DEF PutAside, Proceed
    <3>2. CASE installed[Swapped] = 0
      BY <1>1, <3>2, GoType DEF PutAside, Steps
    <3> QED BY <3>1, <3>2
  <2> QED BY <1>1, <2>1, SwapSound DEF PutAside, Swapping
<1>2. CASE CannotPutAside
  <2>1. job'.pc = "undo"
    BY <1>2, GoType DEF CannotPutAside, Steps
  <2> QED BY <1>2, <2>1, SwapSound DEF CannotPutAside, Swapping
<1>3. CASE Place
  <2>1. job'.pc = "swap"
    BY <1>3, JobIs, JobMade, JobFields DEF Place, Proceed
  <2> QED BY <1>3, <2>1, SwapSound DEF Place, Swapping
<1>4. CASE CannotPlace
  <2>1. job'.pc = "undo"
    BY <1>4, GoType DEF CannotPlace, Steps
  <2> QED BY <1>4, <2>1, SwapSound DEF CannotPlace, Swapping
<1>5. CASE Undo
  <2>1. job'.pc = "undo"
    BY <1>5, JobIs, JobMade, JobFields DEF Undo, Proceed
  <2> QED BY <1>5, <2>1, SwapSound DEF Undo, Swapping
<1>6. CASE InstallFailed
  BY <1>0, <1>6, QuietSound DEF InstallFailed, files, Swapping
<1>7. CASE Installed
  BY <1>0, <1>7, QuietSound DEF Installed, files, Swapping
<1> QED BY <1>1, <1>2, <1>3, <1>4, <1>5, <1>6, <1>7 DEF Swap

LEMMA SoundStep ==
  ASSUME UpdateAssumption, UpdateTypeOK, OfferIsSound, [UpdateNext]_updateVars
  PROVE  OfferIsSound'
<1>1. CASE UNCHANGED updateVars
  BY <1>1 DEF OfferIsSound, ScoopInv, OfferInv, Swapping, updateVars, files, worker
<1> QED BY <1>1, WorldSound, CheckSound, InstallSound, SwapStepsSound DEF UpdateNext

LEMMA SoundInit ==
  ASSUME UpdateAssumption, UpdateInit
  PROVE  OfferIsSound
<1>1. Idle.pc = "idle" /\ Nothing.version = 0 /\ ~Nothing.ok
  BY Names1, IdleDoes, ReleaseFields
<1>2. \A b \in Names : platform = "scoop" => installed[b] # 0
  BY DEF UpdateInit
<1>3. offered.version = 0 /\ ~offered.ok /\ job.pc = "idle" /\ scoop = 0 /\ latest.version = 1
  BY <1>1 DEF UpdateInit
<1> QED BY <1>2, <1>3 DEF OfferIsSound, ScoopInv, OfferInv, Swapping

-----------------------------------------------------------------------------
(* Hand-offs. *)

(***************************************************************************)
(* Off Scoop nothing is ever handed over.                                  *)
(***************************************************************************)
LEMMA HandElsewhere ==
  ASSUME UpdateAssumption, UpdateTypeOK, OfferIsSound, HandInv, [UpdateNext]_updateVars, platform # "scoop"
  PROVE  platform' # "scoop" /\ HandInv'
<1>1. platform' = platform
  BY DEF UpdateNext, World, Answer, Install, Swap, updateVars, Publish, UserStarts, Killed,
     Restart, LeaveToScoop,
         ScoopRuns, Check, InstallOrCheck, Snooze, SetMode, FoundNewer, UpToDate, CheckFails, NotHere,
         HandOff, CannotHandOff, SpawnScoop, Download, DownloadFails, PutAside, CannotPutAside, Place,
         CannotPlace, Undo, InstallFailed, Installed
<1>2. job.pc # "spawn"
  BY DEF OfferIsSound, ScoopInv
<1>3. UNCHANGED handoffs \/ CannotHandOff
  BY <1>2
     DEF UpdateNext, World, Answer, Install, Swap, updateVars, Publish, UserStarts, Killed,
     Restart, LeaveToScoop,
         ScoopRuns, Check, InstallOrCheck, Snooze, SetMode, FoundNewer, UpToDate, CheckFails, NotHere,
         HandOff, SpawnScoop, Download, DownloadFails, PutAside, CannotPutAside, Place,
         CannotPlace, Undo, InstallFailed, Installed
<1>4. \A v \in Versions : handoffs[v] = 0
  BY DEF HandInv
<1>5. \A v \in Versions : handoffs'[v] = 0
  <2>1. CASE UNCHANGED handoffs
    BY <1>4, <2>1
  <2>2. CASE CannotHandOff
    BY <1>4, <2>2 DEF CannotHandOff, UpdateTypeOK
  <2> QED BY <1>3, <2>1, <2>2
<1> QED BY <1>1, <1>5 DEF HandInv

(***************************************************************************)
(* A version newer than the running tray that is not the one recorded, and *)
(* is offered or is the latest, has not been handed over.                  *)
(***************************************************************************)
LEMMA NotYetHandedOff ==
  ASSUME UpdateAssumption, UpdateTypeOK, OfferIsSound, HandInv, platform = "scoop",
         NEW v \in Versions, running # 0, running < v, state.handed # v,
         v = offered.version \/ v = latest.version
  PROVE  handoffs[v] = 0
<1>1. running = installed[Tray] /\ (handoffs[v] # 0 => Remembered(v))
  BY DEF HandInv
<1>2. v \in Nat /\ latest.version \in Nat /\ installed[Tray] \in Nat
  BY Figures
<1> QED BY <1>1, <1>2 DEF Remembered

LEMMA HandQuiet ==
  ASSUME UpdateAssumption, UpdateTypeOK, HandInv, platform = "scoop",
         UNCHANGED <<platform, installed, running, latest, offered, handoffs>>,
         state'.handed = state.handed, saved'.handed \in {saved.handed, state.handed},
         job'.pc # "spawn",
         job'.pc = "install" /\ ~job'.manual /\ offered.ok => handoffs[offered.version] = 0
  PROVE  HandInv'
<1>1. \A v \in Versions : handoffs[v] # 0 => Remembered(v)'
  BY DEF HandInv, Remembered
<1> QED BY <1>1 DEF HandInv

(***************************************************************************)
(* A start reads the record, and drops what has arrived.                   *)
(***************************************************************************)
LEMMA HandStart ==
  ASSUME UpdateAssumption, UpdateTypeOK, HandInv, platform = "scoop",
         UNCHANGED <<platform, latest, handoffs>>,
         installed'[Tray] \in Nat, installed[Tray] <= installed'[Tray], Begins
  PROVE  HandInv'
<1>1. /\ Nothing.version = 0 /\ ~Nothing.ok /\ Idle.pc = "idle"
      /\ 0 \in 0 .. MaxVersion
  BY Names1, ReleaseFields, IdleDoes
<1>2. /\ offered'.version = 0 /\ ~offered'.ok /\ job'.pc = "idle" /\ running' = installed'[Tray]
      /\ saved' = state'
  BY <1>1 DEF Begins
<1>3. /\ latest.version \in Nat /\ state.handed \in Nat /\ saved.handed \in Nat
      /\ installed[Tray] \in Nat /\ \A v \in Versions : v \in Nat /\ v # 0
  BY Figures
<1>4. \/ state'.handed = saved.handed
      \/ state'.handed = 0 /\ saved.handed <= installed'[Tray]
  BY <1>1, UpdateFields DEF Begins, Arrived, UpdateTypeOK
<1>5. ASSUME NEW v \in Versions, handoffs[v] # 0 PROVE Remembered(v)'
  <2>1. Remembered(v) /\ v \in Nat /\ v # 0
    BY <1>3, <1>5 DEF HandInv
  <2> QED BY <1>2, <1>3, <1>4, <2>1 DEF Remembered
<1>6. state'.handed <= latest.version
  BY <1>3, <1>4 DEF HandInv
<1> QED BY <1>2, <1>5, <1>6 DEF HandInv

LEMMA HandEnds ==
  ASSUME UpdateAssumption, UpdateTypeOK, HandInv, platform = "scoop",
         UNCHANGED <<platform, installed, latest, saved, handoffs>>, Ends
  PROVE  HandInv'
<1>1. Nothing.version = 0 /\ ~Nothing.ok /\ Idle.pc = "idle"
  BY Names1, ReleaseFields, IdleDoes
<1>2. /\ offered'.version = 0 /\ ~offered'.ok /\ job'.pc = "idle" /\ running' = 0
      /\ state' = saved
  BY <1>1 DEF Ends
<1>3. \A v \in Versions : handoffs[v] # 0 => Remembered(v) /\ v # 0
  BY Figures DEF HandInv
<1>4. \A v \in Versions : handoffs[v] # 0 => Remembered(v)'
  BY <1>2, <1>3 DEF Remembered
<1> QED BY <1>2, <1>4 DEF HandInv

LEMMA WorldHands ==
  ASSUME UpdateAssumption, UpdateTypeOK, OfferIsSound, HandInv, platform = "scoop", World
  PROVE  HandInv'
<1>0. installed[Tray] \in Nat /\ installed[Tray] <= installed[Tray]
  BY Figures
<1>1. CASE Publish
  <2>1. PICK v : v = latest.version + 1
    OBVIOUS
  <2>2. latest'.version = v
    BY <1>1, <2>1 DEF Publish
  <2>3. /\ UNCHANGED <<platform, installed, old, running, state, saved, offered, job, handoffs>>
        /\ v > latest.version /\ latest.version \in Nat /\ offered.version \in Nat /\ v \in Nat
        /\ state.handed \in Nat /\ saved.handed \in Nat
        /\ \A w \in Versions : w \in Nat
    BY <1>1, <2>1, Figures DEF Publish, files, worker
  <2>4. \A w \in Versions : handoffs[w] # 0 => Remembered(w)'
    BY <2>2, <2>3 DEF HandInv, Remembered
  <2> QED BY <2>2, <2>3, <2>4 DEF HandInv
<1>2. CASE UserStarts
  BY <1>0, <1>2, HandStart DEF UserStarts
<1>3. CASE Killed
  BY <1>3, HandEnds DEF Killed, files
<1>4. CASE Restart
  <2>1. ~Swapping
    BY DEF OfferIsSound, ScoopInv
  <2> QED BY <1>0, <1>4, <2>1, HandStart DEF Restart
<1>5. CASE LeaveToScoop
  BY <1>5, HandEnds DEF LeaveToScoop, files
<1>6. CASE ScoopRuns
  <2>1. installed'[Tray] \in Nat
    <3>1. UpdateTypeOK'
      BY <1>6, WorldStepsType DEF World
    <3>2. Tray \in Names /\ MaxVersion \in Nat
      BY Names1
    <3> QED BY <3>1, <3>2 DEF UpdateTypeOK
  <2> QED BY <1>6, <2>1, ScoopInstalls, HandStart DEF ScoopRuns, OfferIsSound
<1> QED BY <1>1, <1>2, <1>3, <1>4, <1>5, <1>6 DEF World

LEMMA CheckHands ==
  ASSUME UpdateAssumption, UpdateTypeOK, OfferIsSound, HandInv, platform = "scoop",
         Check \/ InstallOrCheck \/ Snooze \/ SetMode \/ Answer
  PROVE  HandInv'
<1>0. /\ \A manual \in BOOLEAN : Begun("asking", manual).pc = "asking"
      /\ \A manual \in BOOLEAN : Begun("install", manual).pc = "install"
      /\ \A manual \in BOOLEAN : Begun("install", manual).manual = manual
      /\ Idle.pc = "idle" /\ Nothing.version = 0 /\ ~Nothing.ok
  BY Names1, BegunDoes, IdleDoes, ReleaseFields DEF Steps
<1>1. CASE Check
  BY <1>0, <1>1, HandQuiet DEF Check, BeginCheck, Persist, files
<1>2. CASE InstallOrCheck
  BY <1>0, <1>2, HandQuiet DEF InstallOrCheck, BeginCheck, Persist, files
<1>3. CASE Snooze
  <2>1. offered.version \in 0 .. MaxVersion
    BY Names1, ReleaseFields DEF UpdateTypeOK
  <2>2. state'.handed = state.handed /\ saved'.handed \in {saved.handed, state.handed}
    <3>1. CASE offered = Nothing
      BY <1>3, <3>1 DEF Snooze
    <3>2. CASE offered # Nothing
      <4>1. state'.handed = state.handed
        <5>1. state' = [state EXCEPT !.snoozed = offered.version] /\ state \in Updates
          BY <1>3, <3>2 DEF Snooze, UpdateTypeOK
        <5> QED BY <2>1, <5>1, UpdateFields
      <4> QED BY <1>3, <3>2, <4>1 DEF Snooze, Persist
    <3> QED BY <3>1, <3>2
  <2> QED BY <1>3, <2>2, HandQuiet DEF Snooze, Ready, files
<1>4. CASE SetMode
  <2>1. \/ job'.pc \in {"idle", "asking"}
        \/ job'.pc = "install" /\ ~job'.manual /\ MayHandOff(FALSE, offered)
    BY <1>0, <1>4 DEF SetMode, BeginCheck, Ready
  <2>2. MayHandOff(FALSE, offered) => handoffs[offered.version] = 0
    BY Figures, NotYetHandedOff DEF MayHandOff, OfferIsSound, OfferInv
  <2>3. state' = state /\ saved' \in {saved, state}
    BY <1>4 DEF SetMode, BeginCheck, Persist
  <2> QED BY <1>4, <2>1, <2>2, <2>3, HandQuiet DEF SetMode, files
<1>5. CASE FoundNewer
  <2>1. /\ offered'.version = latest.version /\ running < latest.version /\ running # 0
        /\ UNCHANGED <<platform, installed, running, latest, state, saved, handoffs>>
    BY <1>5 DEF FoundNewer, OfferIsSound, OfferInv, files
  <2>2. \/ job'.pc = "idle"
        \/ job'.pc = "install" /\ (~job'.manual => state.handed # latest.version)
    <3>1. job \in Jobs /\ job.manual \in BOOLEAN
      BY JobIs, JobMade, JobFields DEF UpdateTypeOK
    <3>2. CASE mode = "auto" /\ MayHandOff(job.manual, offered')
      <4>1. job'.pc = "install" /\ job'.manual = job.manual
        <5>1. job' = [job EXCEPT !.pc = "install"]
          BY <1>5, <3>2 DEF FoundNewer, Go
        <5> QED BY <3>1, <5>1, GoDoes DEF Steps
      <4> QED BY <2>1, <3>2, <4>1 DEF MayHandOff
    <3>3. CASE ~(mode = "auto" /\ MayHandOff(job.manual, offered'))
      BY <1>0, <1>5, <3>3 DEF FoundNewer
    <3> QED BY <3>2, <3>3
  <2>3. latest.version \in Versions /\ latest.version \in Nat
        /\ state.handed \in Nat /\ \A v \in Versions : v \in Nat
    BY Figures
  <2>4. state.handed # latest.version => handoffs[latest.version] = 0
    BY <2>1, <2>3, NotYetHandedOff
  <2>5. \A v \in Versions : handoffs[v] # 0 => Remembered(v)'
    BY <2>1, <2>3 DEF HandInv, Remembered
  <2> QED BY <2>1, <2>2, <2>4, <2>5 DEF HandInv
<1>6. CASE UpToDate
  <2>1. /\ offered'.version = 0 /\ ~offered'.ok /\ job'.pc = "idle"
        /\ UNCHANGED <<platform, installed, running, latest, state, saved, handoffs>>
    BY <1>0, <1>6 DEF UpToDate, files
  <2>2. \A v \in Versions : handoffs[v] # 0 => Remembered(v)'
    BY <2>1, Figures DEF HandInv, Remembered
  <2> QED BY <2>1, <2>2 DEF HandInv
<1>7. CASE CheckFails
  BY <1>0, <1>7, HandQuiet DEF CheckFails, files
<1> QED BY <1>1, <1>2, <1>3, <1>4, <1>5, <1>6, <1>7 DEF Answer

(***************************************************************************)
(* What is offered overtakes any other version on record.                  *)
(***************************************************************************)
LEMMA OthersRemembered ==
  ASSUME UpdateAssumption, UpdateTypeOK, OfferIsSound, HandInv, platform = "scoop", offered.ok,
         UNCHANGED <<installed, latest, offered>>,
         NEW v \in Versions, handoffs[v] # 0, v # offered.version
  PROVE  Remembered(v)'
<1>1. Remembered(v) /\ offered.version # 0 /\ state.handed <= offered.version
      /\ offered.version <= latest.version
  BY DEF HandInv, OfferIsSound, OfferInv
<1>2. v \in Nat /\ offered.version \in Nat /\ latest.version \in Nat
  BY Figures
<1> QED BY <1>1, <1>2 DEF Remembered

LEMMA InstallHands ==
  ASSUME UpdateAssumption, UpdateTypeOK, OfferIsSound, HandInv, platform = "scoop", Install
  PROVE  HandInv'
<1>0. /\ Idle.pc = "idle" /\ offered.version \in 0 .. MaxVersion /\ 0 \in 0 .. MaxVersion
      /\ offered.version \in Nat /\ latest.version \in Nat
  BY Names1, IdleDoes, ReleaseFields, Figures DEF UpdateTypeOK
<1>9. handoffs \in [Versions -> Nat]
  BY DEF UpdateTypeOK
<1>1. CASE NotHere
  BY <1>0, <1>1, HandQuiet DEF NotHere, files
<1>2. CASE HandOff
  <2>1. state'.handed = offered.version /\ saved'.handed = offered.version
    BY <1>0, <1>2, UpdateFields DEF HandOff, UpdateTypeOK
  <2>2. job'.pc = "spawn" /\ job'.manual = job.manual
    BY <1>2, GoDoes DEF HandOff, Go, UpdateTypeOK, Steps
  <2>3. /\ UNCHANGED <<platform, installed, running, latest, offered, handoffs>>
        /\ offered.ok /\ offered.version <= latest.version /\ job.pc = "install"
    BY <1>2 DEF HandOff, files, OfferIsSound, OfferInv
  <2>4. ~job.manual => handoffs[offered.version] = 0
    BY <2>3 DEF HandInv
  <2>5. \A v \in Versions : handoffs[v] # 0 => Remembered(v)'
    BY <2>1, <2>3, OthersRemembered DEF Remembered
  <2> QED BY <1>0, <2>1, <2>2, <2>3, <2>4, <2>5 DEF HandInv
<1>3. CASE CannotHandOff
  <2>1. state'.handed = 0 /\ saved'.handed \in {saved.handed, 0}
    <3>1. state' = [state EXCEPT !.handed = 0] /\ state \in Updates /\ saved' \in {saved, state'}
      BY <1>3 DEF CannotHandOff, UpdateTypeOK
    <3>2. state'.handed = 0
      BY <1>0, <3>1, UpdateFields
    <3> QED BY <3>1, <3>2
  <2>2. /\ UNCHANGED <<platform, installed, running, latest, offered>> /\ job'.pc = "idle"
        /\ offered.ok
    BY <1>0, <1>3 DEF CannotHandOff, files, OfferIsSound, OfferInv
  <2>3. \A v \in Versions : handoffs'[v] = IF v = offered.version THEN 0 ELSE handoffs[v]
    BY <1>3, <1>9 DEF CannotHandOff
  <2>4. \A v \in Versions : handoffs'[v] # 0 => Remembered(v)'
    BY <2>2, <2>3, OthersRemembered
  <2>5. \A v \in Versions : handoffs'[v] <= 1
    BY <2>3 DEF HandInv
  <2> QED BY <1>0, <2>1, <2>2, <2>4, <2>5 DEF HandInv
<1>4. CASE SpawnScoop
  <2>1. /\ UNCHANGED <<platform, installed, running, latest, offered, state, saved>>
        /\ job'.pc = "idle" /\ offered.ok /\ job.pc = "spawn"
    BY <1>0, <1>4 DEF SpawnScoop, files, OfferIsSound, OfferInv
  <2>2. /\ state.handed = offered.version /\ saved.handed = offered.version
        /\ ~job.manual => handoffs[offered.version] = 0
    BY <2>1 DEF HandInv
  <2>3. \A v \in Versions : handoffs'[v] <= 1 /\ (v # offered.version => handoffs'[v] = handoffs[v])
    <3>1. CASE job.manual
      BY <1>4, <3>1 DEF SpawnScoop, HandInv
    <3>2. CASE ~job.manual
      <4>1. handoffs' = [handoffs EXCEPT ![offered.version] = handoffs[offered.version] + 1]
        BY <1>4, <3>2 DEF SpawnScoop
      <4>2. handoffs[offered.version] + 1 = 1
        BY <2>2, <3>2
      <4> QED BY <1>9, <4>1, <4>2 DEF HandInv
    <3> QED BY <3>1, <3>2
  <2>4. \A v \in Versions : handoffs'[v] # 0 => Remembered(v)'
    BY <2>1, <2>2, <2>3, OthersRemembered DEF Remembered
  <2> QED BY <2>1, <2>3, <2>4 DEF HandInv
<1>5. CASE Download
  BY <1>5 DEF Download
<1>6. CASE DownloadFails
  BY <1>6 DEF DownloadFails
<1> QED BY <1>1, <1>2, <1>3, <1>4, <1>5, <1>6 DEF Install

LEMMA HandStep ==
  ASSUME UpdateAssumption, UpdateTypeOK, OfferIsSound, HandInv, [UpdateNext]_updateVars
  PROVE  HandInv'
<1>1. CASE platform # "scoop"
  BY <1>1, HandElsewhere
<1>2. CASE platform = "scoop"
  <2>1. CASE UNCHANGED updateVars
    BY <2>1 DEF HandInv, Remembered, updateVars, files, worker
  <2>2. ~Swap
    BY <1>2 DEF OfferIsSound, ScoopInv, Swapping, Swap, PutAside, CannotPutAside, Place, CannotPlace,
                Undo, InstallFailed, Installed
  <2> QED BY <1>2, <2>1, <2>2, WorldHands, CheckHands, InstallHands DEF UpdateNext
<1> QED BY <1>1, <1>2

LEMMA HandInit ==
  ASSUME UpdateAssumption, UpdateInit
  PROVE  HandInv
<1>1. Idle.pc = "idle" /\ Nothing.version = 0 /\ ~Nothing.ok
  BY Names1, IdleDoes, ReleaseFields
<1>2. /\ offered.version = 0 /\ ~offered.ok /\ job.pc = "idle" /\ latest.version = 1
      /\ state.handed = 0 /\ saved.handed = 0 /\ running = 1 /\ installed[Tray] = 1
      /\ \A v \in Versions : handoffs[v] = 0
  BY <1>1 DEF UpdateInit
<1> QED BY <1>2 DEF HandInv

LEMMA HandAlways ==
  ASSUME UpdateAssumption
  PROVE  UpdateSpec => [](UpdateTypeOK /\ OfferIsSound /\ HandInv)
<1>1. UpdateInit => UpdateTypeOK /\ OfferIsSound /\ HandInv
  BY UpdateTypeInit, SoundInit, HandInit
<1>2. (UpdateTypeOK /\ OfferIsSound /\ HandInv) /\ [UpdateNext]_updateVars
      => (UpdateTypeOK /\ OfferIsSound /\ HandInv)'
  BY UpdateTypeStep, SoundStep, HandStep
<1> QED BY <1>1, <1>2, PTL DEF UpdateSpec

(***************************************************************************)
(* In automatic mode Scoop is handed a version once, through any restarts, *)
(* kills and lost writes of update.json (should_auto_install, install).    *)
(***************************************************************************)
THEOREM ScoopIsHandedAVersionOnce ==
  ASSUME UpdateAssumption
  PROVE  UpdateSpec => []HandedOffOnce
<1>1. UpdateTypeOK /\ OfferIsSound /\ HandInv => HandedOffOnce
  <2>1. ASSUME UpdateTypeOK, HandInv, NEW v \in Versions PROVE handoffs[v] <= 1
    BY <2>1 DEF HandInv
  <2> QED BY <2>1 DEF HandedOffOnce
<1> QED BY <1>1, HandAlways, PTL

-----------------------------------------------------------------------------
(* The swap. *)

(***************************************************************************)
(* The binary whose turn it is has not been done.                          *)
(***************************************************************************)
LEMMA TurnIsNew ==
  ASSUME UpdateAssumption, UpdateTypeOK, SwapInv, Swapping, job.todo # {}
  PROVE  Min(job.todo) \in job.todo /\ Swapped = Binaries[Min(job.todo)]
         /\ Swapped \in Names /\ Swapped \notin DoneNames
<1>1. job.todo \in SUBSET Positions /\ job.done \in SUBSET Positions
  BY JobIs, JobMade, JobFields DEF UpdateTypeOK
<1>2. PICK i \in job.todo : i = Min(job.todo)
  BY <1>1, FirstAndLast
<1>3. Binaries[i] \in Names /\ \A j \in job.done : Binaries[j] # Binaries[i]
  BY <1>1, Names1 DEF SwapInv
<1> QED BY <1>2, <1>3 DEF Swapped, DoneNames

LEMMA JobParts ==
  ASSUME UpdateTypeOK
  PROVE  /\ job.todo \in SUBSET Positions /\ job.done \in SUBSET Positions
         /\ job.aside \in SUBSET Names /\ job.was \in [Names -> 0 .. MaxVersion]
         /\ (job.pc = "place" => job.todo # {})
         /\ installed \in [Names -> 0 .. MaxVersion] /\ old \in [Names -> 0 .. MaxVersion]
BY JobIs, JobMade, JobFields DEF UpdateTypeOK

(***************************************************************************)
(* What is chosen does not change within a job.                            *)
(***************************************************************************)
LEMMA ChosenStays ==
  ASSUME UNCHANGED <<platform, offered>>, job'.was = job.was
  PROVE  Chosen(job.was)' = Chosen(job.was)
BY DEF Chosen

LEMMA OutsideSwap ==
  ASSUME UpdateAssumption, UpdateTypeOK, OfferIsSound, SwapInv, UpdateNext, ~Swap, ~Download
  PROVE  SwapInv'
<1>0. /\ \A manual \in BOOLEAN : Begun("asking", manual).pc = "asking"
      /\ \A manual \in BOOLEAN : Begun("install", manual).pc = "install"
      /\ Idle.pc = "idle"
  BY Names1, BegunDoes, IdleDoes DEF Steps
<1>1. CASE World
  <2>1. CASE Publish
    BY <2>1 DEF Publish, files, worker, SwapInv, Swapping, DoneNames, Handled, Chosen, Swapped
  <2>2. CASE ~Publish
    <3>1. job' = Idle
      BY <1>1, <2>2 DEF World, UserStarts, Killed, Restart, LeaveToScoop, ScoopRuns, Begins, Ends
    <3> QED BY <1>0, <3>1 DEF SwapInv, Swapping
  <2> QED BY <2>1, <2>2
<1>2. CASE Check \/ InstallOrCheck \/ Snooze \/ SetMode
  <2>1. job'.pc \in {"idle", "asking", "install"}
    BY <1>0, <1>2 DEF Check, InstallOrCheck, Snooze, SetMode, BeginCheck, Ready
  <2> QED BY <2>1 DEF SwapInv, Swapping
<1>3. CASE Answer
  <2>1. job'.pc \in {"idle", "install"}
    BY <1>0, <1>3, GoType DEF Answer, FoundNewer, UpToDate, CheckFails, Steps
  <2> QED BY <2>1 DEF SwapInv, Swapping
<1>4. CASE Install
  <2>1. job'.pc \in {"idle", "spawn"}
    BY <1>0, <1>4, GoType DEF Install, NotHere, HandOff, CannotHandOff, SpawnScoop, DownloadFails, Steps
  <2> QED BY <2>1 DEF SwapInv, Swapping
<1> QED BY <1>1, <1>2, <1>3, <1>4 DEF UpdateNext

LEMMA DownloadBegins ==
  ASSUME UpdateAssumption, UpdateTypeOK, Download
  PROVE  SwapInv'
<1>1. /\ job'.pc = "swap" /\ job'.todo = Chosen(installed) /\ job'.done = {} /\ job'.aside = {}
      /\ job'.was = installed /\ UNCHANGED <<platform, installed, old, offered>>
  BY JobIs, JobMade, JobFields DEF Download, files
<1>2. Chosen(job.was)' = Chosen(installed)
  BY <1>1 DEF Chosen
<1>3. DoneNames' = {}
  BY <1>1 DEF DoneNames
<1> QED BY <1>1, <1>2, <1>3 DEF SwapInv, Swapping

LEMMA PutAsideSwaps ==
  ASSUME UpdateAssumption, UpdateTypeOK, OfferIsSound, SwapInv, PutAside
  PROVE  SwapInv'
<1>1. Swapping /\ job.pc = "swap" /\ job.todo # {}
  BY DEF PutAside, Swapping
<1>2. PICK b \in Names : b = Swapped /\ b \notin DoneNames
  BY <1>1, TurnIsNew
<1>3. /\ installed \in [Names -> 0 .. MaxVersion] /\ old \in [Names -> 0 .. MaxVersion]
      /\ job.todo \in SUBSET Positions /\ job.done \in SUBSET Positions /\ job.aside \in SUBSET Names
  BY JobParts
<1>4. /\ job'.pc = "place" /\ job'.todo = job.todo /\ job'.done = job.done /\ job'.was = job.was
      /\ job'.aside = IF installed[b] # 0 THEN job.aside \cup {b} ELSE job.aside
  <2>1. CASE installed[b] # 0
    BY <1>2, <2>1, JobIs, JobMade, JobFields DEF PutAside, Proceed
  <2>2. CASE installed[b] = 0
    BY <1>1, <1>2, <2>2, GoType DEF PutAside, Steps
  <2> QED BY <2>1, <2>2
<1>5. /\ installed' = IF installed[b] # 0 THEN [installed EXCEPT ![b] = 0] ELSE installed
      /\ old' = IF installed[b] # 0 THEN [old EXCEPT ![b] = installed[b]] ELSE old
      /\ UNCHANGED <<platform, offered>>
  BY <1>2 DEF PutAside, files
<1>6. /\ installed'[b] = 0 /\ (installed[b] # 0 => old'[b] = installed[b])
      /\ \A c \in Names : c # b => installed'[c] = installed[c] /\ old'[c] = old[c]
  BY <1>3, <1>5
<1>7. DoneNames' = DoneNames /\ Swapped' = b /\ Chosen(job.was)' = Chosen(job.was)
      /\ DoneNames \subseteq Names
  BY <1>2, <1>3, <1>4, <1>5, ChosenStays, Names1 DEF DoneNames, Swapped
<1>8. /\ job.done \cap job.todo = {} /\ job.done \cup job.todo = Chosen(job.was)
      /\ job.aside \subseteq DoneNames
      /\ \A c \in Names \ DoneNames : installed[c] = job.was[c]
      /\ \A c \in DoneNames : installed[c] = offered.version /\ Handled(c)
  BY <1>1 DEF SwapInv
<1>9. \A c \in DoneNames : installed'[c] = offered'.version /\ Handled(c)'
  BY <1>2, <1>4, <1>5, <1>6, <1>7, <1>8 DEF Handled
<1>10. Handled(b)'
  BY <1>2, <1>4, <1>5, <1>6, <1>7, <1>8 DEF Handled
<1> QED BY <1>2, <1>4, <1>5, <1>6, <1>7, <1>8, <1>9, <1>10 DEF SwapInv

LEMMA CannotPutAsideSwaps ==
  ASSUME UpdateAssumption, UpdateTypeOK, OfferIsSound, SwapInv, CannotPutAside
  PROVE  SwapInv'
<1>1. Swapping /\ job.pc = "swap" /\ job.todo # {}
  BY DEF CannotPutAside, Swapping
<1>2. PICK b \in Names : b = Swapped /\ b \notin DoneNames
  BY <1>1, TurnIsNew
<1>3. old \in [Names -> 0 .. MaxVersion] /\ job.done \in SUBSET Positions
  BY JobParts
<1>4. /\ job'.pc = "undo" /\ job'.todo = job.todo /\ job'.done = job.done /\ job'.was = job.was
      /\ job'.aside = job.aside
  BY GoType DEF CannotPutAside, Steps
<1>5. /\ UNCHANGED <<platform, offered, installed, mishaps>>
      /\ \A c \in Names : c # b => old'[c] = old[c]
  BY <1>2, <1>3 DEF CannotPutAside
<1>6. DoneNames' = DoneNames /\ DoneNames \subseteq Names
  BY <1>3, <1>4, Names1 DEF DoneNames
<1>7. /\ job.done \cap job.todo = {}
      /\ \A c \in Names \ DoneNames : installed[c] = job.was[c]
      /\ \A c \in DoneNames : installed[c] = offered.version /\ Handled(c)
  BY <1>1 DEF SwapInv
<1>8. \A c \in DoneNames : Handled(c)'
  BY <1>2, <1>4, <1>5, <1>6, <1>7 DEF Handled
<1> QED BY <1>4, <1>5, <1>6, <1>7, <1>8 DEF SwapInv

LEMMA PlaceSwaps ==
  ASSUME UpdateAssumption, UpdateTypeOK, OfferIsSound, SwapInv, Place
  PROVE  SwapInv'
<1>1. Swapping /\ job.pc = "place" /\ job.todo # {}
  BY JobParts DEF Place, Swapping
<1>2. PICK i \in job.todo, b \in Names :
        i = Min(job.todo) /\ b = Binaries[i] /\ b = Swapped /\ b \notin DoneNames
  BY <1>1, TurnIsNew
<1>3. /\ installed \in [Names -> 0 .. MaxVersion]
      /\ job.todo \in SUBSET Positions /\ job.done \in SUBSET Positions
  BY JobParts
<1>4. /\ job'.pc = "swap" /\ job'.todo = job.todo \ {i} /\ job'.done = job.done \cup {i}
      /\ job'.was = job.was /\ job'.aside = job.aside
  BY <1>2, JobIs, JobMade, JobFields DEF Place, Proceed
<1>5. /\ UNCHANGED <<platform, offered, old>> /\ installed'[b] = offered.version
      /\ \A c \in Names : c # b => installed'[c] = installed[c]
  BY <1>2, <1>3 DEF Place
<1>6. DoneNames' = DoneNames \cup {b} /\ Chosen(job.was)' = Chosen(job.was) /\ DoneNames \subseteq Names
  <2>1. DoneNames' = DoneNames \cup {b}
    BY <1>2, <1>4 DEF DoneNames
  <2>2. DoneNames \subseteq Names
    BY <1>3, Names1 DEF DoneNames
  <2> QED BY <1>4, <1>5, <2>1, <2>2, ChosenStays
<1>7. /\ job.done \cap job.todo = {} /\ job.done \cup job.todo = Chosen(job.was)
      /\ job.aside \subseteq DoneNames \cup {b} /\ Handled(b)
      /\ \A c \in Names \ DoneNames : c # b => installed[c] = job.was[c]
      /\ \A c \in DoneNames : installed[c] = offered.version /\ Handled(c)
  BY <1>1, <1>2 DEF SwapInv
<1>8. \A c \in DoneNames' : installed'[c] = offered'.version /\ Handled(c)'
  BY <1>2, <1>4, <1>5, <1>6, <1>7 DEF Handled
<1> QED BY <1>2, <1>4, <1>5, <1>6, <1>7, <1>8 DEF SwapInv

(***************************************************************************)
(* What comes back is what was there, unless it is stuck.                  *)
(***************************************************************************)
LEMMA ComesBackWhole ==
  ASSUME UpdateAssumption, UpdateTypeOK, NEW b \in Names, Handled(b), ComesBack(b)
  PROVE  /\ installed'[b] = job.was[b] \/ "stuck" \in mishaps'
         /\ mishaps \subseteq mishaps'
         /\ \A c \in Names : c # b => installed'[c] = installed[c] /\ old'[c] = old[c]
         /\ installed'[b] # 0 \/ old'[b] # 0 \/ job.was[b] = 0
<1>1. installed \in [Names -> 0 .. MaxVersion] /\ old \in [Names -> 0 .. MaxVersion]
  BY JobParts
<1> QED BY <1>1 DEF ComesBack, Handled

LEMMA CannotPlaceSwaps ==
  ASSUME UpdateAssumption, UpdateTypeOK, OfferIsSound, SwapInv, CannotPlace
  PROVE  SwapInv'
<1>1. Swapping /\ job.pc = "place" /\ job.todo # {}
  BY JobParts DEF CannotPlace, Swapping
<1>2. PICK b \in Names : b = Swapped /\ b \notin DoneNames
  BY <1>1, TurnIsNew
<1>3. job.done \in SUBSET Positions
  BY JobParts
<1>4. /\ job'.pc = "undo" /\ job'.todo = job.todo /\ job'.done = job.done /\ job'.was = job.was
      /\ job'.aside = job.aside
  BY GoType DEF CannotPlace, Steps
<1>5. /\ UNCHANGED <<platform, offered>> /\ ComesBack(b)
  BY <1>2 DEF CannotPlace
<1>6. DoneNames' = DoneNames /\ DoneNames \subseteq Names
  BY <1>3, <1>4, Names1 DEF DoneNames
<1>7. /\ job.done \cap job.todo = {} /\ Handled(b)
      /\ \A c \in Names \ DoneNames : c # b => installed[c] = job.was[c]
      /\ \A c \in DoneNames : installed[c] = offered.version /\ Handled(c)
  BY <1>1, <1>2 DEF SwapInv
<1>8. /\ installed'[b] = job.was[b] \/ "stuck" \in mishaps'
      /\ \A c \in Names : c # b => installed'[c] = installed[c] /\ old'[c] = old[c]
  BY <1>5, <1>7, ComesBackWhole
<1>9. \A c \in DoneNames : installed'[c] = offered'.version /\ Handled(c)'
  BY <1>2, <1>4, <1>5, <1>6, <1>7, <1>8 DEF Handled
<1> QED BY <1>2, <1>4, <1>6, <1>7, <1>8, <1>9 DEF SwapInv

LEMMA UndoSwaps ==
  ASSUME UpdateAssumption, UpdateTypeOK, OfferIsSound, SwapInv, Undo
  PROVE  SwapInv'
<1>1. Swapping /\ job.pc = "undo" /\ job.done # {}
  BY DEF Undo, Swapping
<1>3. job.done \in SUBSET Positions /\ job.todo \in SUBSET Positions
  BY JobParts
<1>2. PICK i \in job.done, b \in Names : i = Max(job.done) /\ b = Binaries[i] /\ b \in DoneNames
  BY <1>1, <1>3, FirstAndLast, Names1 DEF DoneNames
<1>4. /\ job'.pc = "undo" /\ job'.todo = job.todo /\ job'.done = job.done \ {i}
      /\ job'.was = job.was /\ job'.aside = job.aside
  BY <1>2, JobIs, JobMade, JobFields DEF Undo, Proceed
<1>5. /\ UNCHANGED <<platform, offered>> /\ ComesBack(b)
  BY <1>2 DEF Undo
<1>6. DoneNames' = DoneNames \ {b} /\ DoneNames \subseteq Names
  BY <1>2, <1>3, <1>4, Names1 DEF DoneNames
<1>7. /\ job.done \cap job.todo = {} /\ Handled(b)
      /\ "stuck" \in mishaps \/ \A c \in Names \ DoneNames : installed[c] = job.was[c]
      /\ \A c \in DoneNames : installed[c] = offered.version /\ Handled(c)
  BY <1>1, <1>2 DEF SwapInv
<1>8. /\ installed'[b] = job.was[b] \/ "stuck" \in mishaps'
      /\ mishaps \subseteq mishaps'
      /\ \A c \in Names : c # b => installed'[c] = installed[c] /\ old'[c] = old[c]
  BY <1>5, <1>7, ComesBackWhole
<1>9. \A c \in DoneNames' : installed'[c] = offered'.version /\ Handled(c)'
  BY <1>2, <1>4, <1>5, <1>6, <1>7, <1>8 DEF Handled
<1> QED BY <1>2, <1>4, <1>6, <1>7, <1>8, <1>9 DEF SwapInv

LEMMA SwapStep ==
  ASSUME UpdateAssumption, UpdateTypeOK, OfferIsSound, SwapInv, [UpdateNext]_updateVars
  PROVE  SwapInv'
<1>1. CASE UNCHANGED updateVars
  BY <1>1 DEF updateVars, files, worker, SwapInv, Swapping, DoneNames, Handled, Chosen, Swapped
<1>2. CASE InstallFailed \/ Installed
  <2>1. job'.pc = "idle"
    BY <1>2, Names1, IdleDoes DEF InstallFailed, Installed
  <2> QED BY <2>1 DEF SwapInv, Swapping
<1> QED BY <1>1, <1>2, OutsideSwap, DownloadBegins, PutAsideSwaps, CannotPutAsideSwaps, PlaceSwaps,
           CannotPlaceSwaps, UndoSwaps DEF Swap

LEMMA SwapAlways ==
  ASSUME UpdateAssumption
  PROVE  UpdateSpec => [](UpdateTypeOK /\ OfferIsSound /\ SwapInv)
<1>1. UpdateInit => UpdateTypeOK /\ OfferIsSound /\ SwapInv
  <2>1. Idle.pc = "idle"
    BY Names1, IdleDoes
  <2> QED BY <2>1, UpdateTypeInit, SoundInit DEF UpdateInit, SwapInv, Swapping
<1>2. (UpdateTypeOK /\ OfferIsSound /\ SwapInv) /\ [UpdateNext]_updateVars
      => (UpdateTypeOK /\ OfferIsSound /\ SwapInv)'
  BY UpdateTypeStep, SoundStep, SwapStep
<1> QED BY <1>1, <1>2, PTL DEF UpdateSpec

(***************************************************************************)
(* An install ends with all it chose at the new version and the rest as it *)
(* was, or with everything as it was, wherever it failed (stage_swap).     *)
(***************************************************************************)
THEOREM InstallsEndWhole ==
  ASSUME UpdateAssumption
  PROVE  UpdateSpec => []WholeOrAsBefore
<1>1. ASSUME UpdateTypeOK, SwapInv PROVE WholeOrAsBefore
  <2>1. ASSUME job.pc = "swap", job.todo = {}
        PROVE  installed = [b \in Names |-> IF \E i \in Chosen(job.was) : Binaries[i] = b
                                            THEN offered.version ELSE job.was[b]]
    <3>1. /\ job.done = Chosen(job.was)
          /\ \A b \in DoneNames : installed[b] = offered.version
          /\ \A b \in Names \ DoneNames : installed[b] = job.was[b]
      BY <1>1, <2>1 DEF SwapInv, Swapping
    <3>2. \A b \in Names : b \in DoneNames <=> \E i \in Chosen(job.was) : Binaries[i] = b
      BY <3>1 DEF DoneNames
    <3> QED BY <1>1, <3>1, <3>2 DEF UpdateTypeOK
  <2>2. ASSUME job.pc = "undo", job.done = {}, mishaps = {}
        PROVE  installed = job.was
    <3>1. DoneNames = {}
      BY <2>2 DEF DoneNames
    <3>2. \A b \in Names : installed[b] = job.was[b]
      BY <1>1, <2>2, <3>1 DEF SwapInv, Swapping
    <3> QED BY <1>1, <3>2, JobParts
  <2> QED BY <2>1, <2>2 DEF WholeOrAsBefore
<1>2. UpdateTypeOK /\ OfferIsSound /\ SwapInv => WholeOrAsBefore
  BY <1>1
<1> QED BY <1>2, SwapAlways, PTL

LEMMA SweepLoses ==
  ASSUME UpdateTypeOK, Sweep, UNCHANGED installed, NEW b \in Names, Somewhere(b), ~Somewhere(b)'
  PROVE  "swept" \in mishaps'
BY DEF Sweep, Somewhere

LEMMA NothingGoes ==
  ASSUME UpdateAssumption, UpdateTypeOK, OfferIsSound, SwapInv, [UpdateNext]_updateVars,
         NEW b \in Names, Somewhere(b), ~Somewhere(b)'
  PROVE  "swept" \in mishaps' \/ (Swapping /\ job.was[b] = 0)
<1>0. installed \in [Names -> 0 .. MaxVersion] /\ old \in [Names -> 0 .. MaxVersion]
  BY JobParts
<1>1. ~UNCHANGED files
  BY DEF Somewhere, files
<1>2. CASE UserStarts
  BY <1>2, SweepLoses DEF UserStarts, Begins
<1>3. CASE Restart
  BY <1>1, <1>3, SweepLoses DEF Restart, Begins
<1>4. CASE ScoopRuns
  BY <1>4, ScoopInstalls DEF Somewhere, OfferIsSound
<1>5. CASE PutAside
  <2>1. PICK c : c = Swapped
    OBVIOUS
  <2> QED BY <1>0, <1>1, <1>5, <2>1 DEF PutAside, Somewhere
<1>6. CASE CannotPutAside
  BY <1>0, <1>6 DEF CannotPutAside, Somewhere
<1>7. CASE Place
  <2>1. offered.version # 0
    BY <1>7 DEF Place, OfferIsSound, OfferInv, Swapping
  <2> QED BY <1>0, <1>7, <2>1 DEF Place, Somewhere
<1>8. CASE CannotPlace
  <2>1. Swapping /\ job.pc = "place" /\ job.todo # {} /\ ComesBack(Swapped)
    BY <1>8, JobParts DEF CannotPlace, Swapping
  <2>2. PICK c \in Names : c = Swapped /\ Handled(c)
    BY <2>1, TurnIsNew DEF SwapInv
  <2>3. ComesBack(c)
    BY <2>1, <2>2
  <2> QED BY <2>1, <2>2, <2>3, ComesBackWhole DEF Somewhere
<1>9. CASE Undo
  <2>1. Swapping /\ job.done # {} /\ job.done \in SUBSET Positions
    BY <1>9, JobParts DEF Undo, Swapping
  <2>2. PICK c \in Names : c = Binaries[Max(job.done)] /\ Handled(c)
    BY <2>1, FirstAndLast, Names1 DEF SwapInv, DoneNames
  <2>3. ComesBack(c)
    BY <1>9, <2>2 DEF Undo
  <2> QED BY <2>1, <2>2, <2>3, ComesBackWhole DEF Somewhere
<1> QED BY <1>1, <1>2, <1>3, <1>4, <1>5, <1>6, <1>7, <1>8, <1>9
        DEF UpdateNext, World, Answer, Install, Swap, updateVars, Publish, Killed, LeaveToScoop,
            Check, InstallOrCheck, Snooze, SetMode, FoundNewer, UpToDate, CheckFails, NotHere,
            HandOff, CannotHandOff, SpawnScoop, Download, DownloadFails, InstallFailed, Installed

(***************************************************************************)
(* No step takes the last copy of a binary, but the sweep of one that      *)
(* never came back (swap_one, rollback, sweep_old).                        *)
(***************************************************************************)
THEOREM NoBinaryIsLost ==
  ASSUME UpdateAssumption
  PROVE  UpdateSpec => NothingIsLost
<1>1. UpdateTypeOK /\ OfferIsSound /\ SwapInv /\ [UpdateNext]_updateVars =>
        [\A b \in Names : Somewhere(b) /\ ~Somewhere(b)' =>
           "swept" \in mishaps' \/ (Swapping /\ job.was[b] = 0)]_updateVars
  BY NothingGoes
<1> QED BY <1>1, SwapAlways, PTL DEF UpdateSpec, NothingIsLost
=============================================================================
