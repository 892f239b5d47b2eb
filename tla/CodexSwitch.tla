----------------------------- MODULE CodexSwitch -----------------------------
(***************************************************************************)
(* Moving the Codex login between managed accounts, and the usage fetch    *)
(* that refreshes it: switch_account and adopt_current of                  *)
(* src/src/openai/account.rs, fetch_snapshot_routed of                     *)
(* src/src/openai/fetch.rs.                                                *)
(*                                                                         *)
(* Codex reads one default auth.json; every managed account has a file of  *)
(* its own, in a directory of its own, and a marker beside it with its     *)
(* ChatGPT account id.  A switch holds the locks of the directories it     *)
(* touches, journals what each file held, and puts everything back when a  *)
(* step fails.  A fetch takes the lock of the one file it is routed to,    *)
(* and asks for the route again once it holds it.                          *)
(*                                                                         *)
(* The _Bug forms are plausible mistakes; no specification uses them.      *)
(***************************************************************************)
EXTENDS Integers, Sequences, FiniteSets, FiniteSetsExt, SequencesExt

CONSTANTS Switchers,   \* processes that switch or adopt
          Fetchers,    \* the accounts that are polled
          Accounts,    \* the labels in [[openai.accounts]]
          Default,     \* the default slot, and the unnamed account
          LockOrder,   \* every place, in the order its lock file sorts
          Ids,         \* ChatGPT accounts
          Absent,      \* no file, account, holder
          MaxTroubles, \* bound: crashes, failing writes, sign-ins, session refreshes
          MaxRotations \* bound: refresh tokens issued to all accounts after their first

Places == Accounts \cup {Default}
Procs == Switchers \cup Fetchers
Blobs == [id : Ids, rt : Nat \ {0}]

ASSUME CodexAssumption ==
  /\ Default \notin Accounts
  /\ Switchers \cap Places = {} /\ Fetchers \subseteq Places
  /\ Absent \notin Procs \cup Ids \cup Blobs
  /\ LockOrder \in Seq(Places)
  /\ \A p \in Places : \E i \in DOMAIN LockOrder : LockOrder[i] = p
  /\ MaxTroubles \in Nat /\ MaxRotations \in Nat

VARIABLES
  file,     \* what each credential file and each marker holds
  lock,     \* who holds the lock of each place's directory
  pc,       \* where each process is
  job,      \* what each switcher was asked, and the locks it still wants
  todo,     \* the writes a switch, or its rollback, has ahead
  done,     \* the journal: what each file it touched held before
  copy,     \* the login each fetch read
  place,    \* the place each fetch was routed to, and how often it was
  cache,    \* whose usage each account's cache holds
  issued,   \* the refresh token the server accepts for each account
  session,  \* the login a Codex session is refreshing
  kept,     \* history: the accounts nobody asked to sign out or discard
  mishaps,  \* history: what has gone wrong so far
  troubles  \* how many crashes, failing writes, sign-ins and session refreshes

store == <<file, cache, issued, session>>
locals == <<job, todo, done, copy, place>>
history == <<kept, mishaps, troubles>>
vars == <<file, lock, pc, job, todo, done, copy, place, cache, issued, session,
          kept, mishaps, troubles>>

Auth(p) == <<"auth", p>>
Marker(a) == <<"marker", a>>
Files == {Auth(p) : p \in Places} \cup {Marker(a) : a \in Accounts}

IdIn(p) == IF file[Auth(p)] = Absent THEN Absent ELSE file[Auth(p)].id
Identity(a) == IF IdIn(a) # Absent THEN IdIn(a) ELSE file[Marker(a)]

(***************************************************************************)
(* The accounts the default login belongs to: resolve_active_label when    *)
(* there is exactly one.                                                   *)
(***************************************************************************)
Owners == {a \in Accounts : IdIn(Default) # Absent /\ Identity(a) = IdIn(Default)}

Distinct == \A a, b \in Accounts : Identity(a) = Identity(b) /\ Identity(a) # Absent => a = b

Route(f) == IF f \in Accounts /\ (Owners # {f} \/ file[Auth(f)] # Absent) THEN f ELSE Default

NoJob == [label |-> Default, kind |-> "none", guess |-> {}, want |-> {}]
NoPlace == [at |-> Default, looks |-> 0]
ROUTE_ATTEMPTS == 3

Init ==
  /\ file \in [Files -> [id : Ids, rt : {1}] \cup {Absent}]
  /\ \A a \in Accounts : file[Marker(a)] = Absent
  /\ \A p, q \in Places : IdIn(p) = IdIn(q) /\ IdIn(p) # Absent => p = q
  /\ lock = [p \in Places |-> Absent]
  /\ pc = [p \in Procs |-> "idle"]
  /\ job = [s \in Switchers |-> NoJob]
  /\ todo = [s \in Switchers |-> <<>>]
  /\ done = [s \in Switchers |-> <<>>]
  /\ copy = [f \in Fetchers |-> Absent]
  /\ place = [f \in Fetchers |-> NoPlace]
  /\ cache = [f \in Fetchers |-> Absent]
  /\ issued = [id \in Ids |-> 1]
  /\ session = Absent
  /\ kept = {IdIn(p) : p \in Places} \ {Absent}
  /\ mishaps = {}
  /\ troubles = 0

Goto(p, label) == pc' = [pc EXCEPT ![p] = label]
Trouble == troubles < MaxTroubles /\ troubles' = troubles + 1
MayRotate == MapThenSumSet(LAMBDA id : issued[id] - 1, Ids) < MaxRotations
Unlocked(p) == [q \in Places |-> IF lock[q] = p THEN Absent ELSE lock[q]]

-----------------------------------------------------------------------------
(* switch_account and adopt_current. *)

(***************************************************************************)
(* Leaving it drops the locks.                                             *)
(***************************************************************************)
Leave(s, label) ==
  /\ Goto(s, label)
  /\ lock' = Unlocked(s)
  /\ job' = [job EXCEPT ![s] = NoJob]
  /\ todo' = [todo EXCEPT ![s] = <<>>]
  /\ done' = [done EXCEPT ![s] = <<>>]
  /\ UNCHANGED <<copy, place>>

LockDirs(label, guess) == {Default, label} \cup guess

(***************************************************************************)
(* The locks are taken in the order of their paths, so that two switches   *)
(* never wait for each other.                                              *)
(***************************************************************************)
First(want) == LockOrder[Min({i \in DOMAIN LockOrder : LockOrder[i] \in want})]

(***************************************************************************)
(* The first look is taken without a lock, file by file, while others      *)
(* write: it may find any account active.                                  *)
(***************************************************************************)
Begin(s) ==
  /\ pc[s] = "idle"
  /\ \E a \in Accounts, guess \in {{}} \cup {{b} : b \in Accounts} :
       job' = [job EXCEPT ![s] = [label |-> a, kind |-> "switch", guess |-> guess,
                                  want |-> LockDirs(a, guess)]]
  /\ Goto(s, "lock")
  /\ UNCHANGED <<store, lock, todo, done, copy, place, history>>

BeginAdopt(s) ==
  /\ pc[s] = "idle"
  /\ \E a \in Accounts :
       job' = [job EXCEPT ![s] = [label |-> a, kind |-> "adopt", guess |-> {},
                                  want |-> LockDirs(a, {})]]
  /\ Goto(s, "lock")
  /\ UNCHANGED <<store, lock, todo, done, copy, place, history>>

Lock(s) ==
  LET want == job[s].want IN
  /\ pc[s] = "lock"
  /\ IF want = {} THEN Goto(s, "decide") /\ UNCHANGED <<lock, job>>
     ELSE /\ lock[First(want)] = Absent
          /\ lock' = [lock EXCEPT ![First(want)] = s]
          /\ job' = [job EXCEPT ![s] = [@ EXCEPT !.want = want \ {First(want)}]]
          /\ UNCHANGED pc
  /\ UNCHANGED <<store, todo, done, copy, place, history>>

LockTimesOut(s) ==
  /\ pc[s] = "lock"
  /\ job[s].want # {} /\ lock[First(job[s].want)] # Absent
  /\ Leave(s, "idle")
  /\ UNCHANGED <<store, history>>

(***************************************************************************)
(* What a switch refuses, the change of the active account since the first *)
(* look included.                                                          *)
(***************************************************************************)
Refused_TrustsTheFirstLook_Bug(label, force, guess) ==
  \/ ~Distinct
  \/ Owners = {} /\ file[Auth(Default)] # Absent /\ ~force
  \/ file[Auth(label)] = Absent
  \/ \E a \in Owners : file[Auth(a)] # Absent

Refused(label, force, guess) ==
  \/ ~Distinct
  \/ Owners = {} /\ file[Auth(Default)] # Absent /\ ~force
  \/ file[Auth(label)] = Absent
  \/ \E a \in Owners : file[Auth(a)] # Absent
  \/ Owners # guess

Write(f, content) == [file |-> f, to |-> content]

Moves_KeepsTheCopy_Bug(label, guess) ==
  (IF guess = {} THEN <<>>
   ELSE LET out == CHOOSE a \in guess : TRUE
        IN  <<Write(Auth(out), file[Auth(Default)]), Write(Marker(out), IdIn(Default))>>)
  \o
  <<Write(Auth(Default), file[Auth(label)]),
    Write(Marker(label), IdIn(label))>>

(***************************************************************************)
(* The outgoing login is saved first, the target installed, and its own    *)
(* copy removed last.                                                      *)
(***************************************************************************)
Moves(label, guess) ==
  (IF guess = {} THEN <<>>
   ELSE LET out == CHOOSE a \in guess : TRUE
        IN  <<Write(Auth(out), file[Auth(Default)]), Write(Marker(out), IdIn(Default))>>)
  \o
  <<Write(Auth(Default), file[Auth(label)]),
    Write(Marker(label), IdIn(label)),
    Write(Auth(label), Absent)>>

(***************************************************************************)
(* decide, under the locks; an account that is active already is left      *)
(* alone.  Whether --force was given shows only here: it gives up the      *)
(* unmanaged login.                                                        *)
(***************************************************************************)
Decide(s) ==
  LET req == job[s] IN
  /\ pc[s] = "decide" /\ req.kind = "switch"
  /\ \E force \in BOOLEAN :
       IF Refused(req.label, force, req.guess) \/ Owners = {req.label}
       THEN Leave(s, "idle") /\ UNCHANGED <<kept, mishaps>>
       ELSE /\ todo' = [todo EXCEPT ![s] = Moves(req.label, req.guess)]
            /\ job' = [job EXCEPT ![s] = NoJob]
            /\ Goto(s, "move")
            /\ kept' = IF Owners = {} THEN kept \ {IdIn(Default)} ELSE kept
            /\ mishaps' = IF session = Absent THEN mishaps ELSE mishaps \cup {"crossed"}
            /\ UNCHANGED <<lock, done, copy, place>>
  /\ UNCHANGED <<store, troubles>>

Remembered(s) ==
  LET f == Head(todo[s]).file IN
  IF \E i \in DOMAIN done[s] : done[s][i].file = f THEN done[s]
  ELSE Append(done[s], Write(f, file[f]))

Move(s) ==
  /\ pc[s] = "move" /\ todo[s] # <<>>
  /\ file' = [file EXCEPT ![Head(todo[s]).file] = Head(todo[s]).to]
  /\ todo' = [todo EXCEPT ![s] = Tail(@)]
  /\ done' = [done EXCEPT ![s] = Remembered(s)]
  /\ UNCHANGED <<lock, pc, job, copy, place, cache, issued, session, history>>

(***************************************************************************)
(* A write that fails leaves the file as it was.                           *)
(***************************************************************************)
MoveFails(s) ==
  /\ pc[s] = "move" /\ todo[s] # <<>>
  /\ Trouble
  /\ todo' = [todo EXCEPT ![s] = Reverse(Remembered(s))]
  /\ done' = [done EXCEPT ![s] = <<>>]
  /\ Goto(s, "undo")
  /\ UNCHANGED <<store, lock, job, copy, place, kept, mishaps>>

(***************************************************************************)
(* The rollback goes through the whole journal whatever became of the      *)
(* entries before.                                                         *)
(***************************************************************************)
Undo(s) ==
  /\ pc[s] = "undo" /\ todo[s] # <<>>
  /\ \/ file' = [file EXCEPT ![Head(todo[s]).file] = Head(todo[s]).to]
        /\ UNCHANGED <<mishaps, troubles>>
     \/ /\ file[Head(todo[s]).file] # Head(todo[s]).to
        /\ Trouble
        /\ mishaps' = mishaps \cup {"torn"}
        /\ UNCHANGED file
  /\ todo' = [todo EXCEPT ![s] = Tail(@)]
  /\ UNCHANGED <<lock, pc, job, done, copy, place, cache, issued, session, kept>>

Undone(s) ==
  /\ pc[s] = "undo" /\ todo[s] = <<>>
  /\ Leave(s, "idle")
  /\ UNCHANGED <<store, history>>

Finish(s) ==
  /\ pc[s] = "move" /\ todo[s] = <<>>
  /\ Leave(s, "forget")
  /\ UNCHANGED <<store, history>>

(***************************************************************************)
(* switch_codex drops the unnamed account's cache, and takes no lock for   *)
(* it.                                                                     *)
(***************************************************************************)
Forget(s) ==
  /\ pc[s] = "forget"
  /\ Goto(s, "idle")
  /\ cache' = [f \in Fetchers |-> IF f = Default THEN Absent ELSE cache[f]]
  /\ UNCHANGED <<file, issued, session, lock, locals, history>>

(***************************************************************************)
(* adopt_current only writes a marker, for a login no other account owns.  *)
(***************************************************************************)
Adopt(s) ==
  LET a == job[s].label IN
  /\ pc[s] = "decide" /\ job[s].kind = "adopt"
  /\ Leave(s, "idle")
  /\ \/ /\ Distinct
        /\ IdIn(Default) # Absent
        /\ Owners \subseteq {a}
        /\ file[Auth(a)] = Absent
        /\ file' = [file EXCEPT ![Marker(a)] = IdIn(Default)]
     \/ UNCHANGED file
  /\ UNCHANGED <<cache, issued, session, history>>

-----------------------------------------------------------------------------
(* fetch_snapshot_routed, one per account: the flock of the account's      *)
(* cache admits no second one.                                             *)

Return(f) ==
  /\ Goto(f, "idle")
  /\ lock' = Unlocked(f)
  /\ copy' = [copy EXCEPT ![f] = Absent]
  /\ place' = [place EXCEPT ![f] = NoPlace]
  /\ UNCHANGED <<job, todo, done>>

(***************************************************************************)
(* The route asked for without a lock: a named account is looked for in    *)
(* its own file or in the default slot.                                    *)
(***************************************************************************)
Fetch(f) ==
  /\ pc[f] = "idle"
  /\ \E p \in {Default, f} : place' = [place EXCEPT ![f] = [at |-> p, looks |-> 0]]
  /\ Goto(f, "lock")
  /\ UNCHANGED <<store, lock, job, todo, done, copy, history>>

FetchLocks(f) ==
  LET p == place[f].at IN
  /\ pc[f] = "lock"
  /\ \/ /\ lock[p] = Absent
        /\ lock' = [lock EXCEPT ![p] = f]
        /\ Goto(f, "route")
        /\ UNCHANGED <<copy, place, job, todo, done>>
     \/ lock[p] # Absent /\ Return(f)
  /\ UNCHANGED <<store, history>>

Reroute_TrustsTheFirstLook_Bug(f) ==
  /\ pc[f] = "route"
  /\ Goto(f, "read")
  /\ UNCHANGED <<store, lock, locals, history>>

(***************************************************************************)
(* The route asked for again under the lock, and followed if it moved.     *)
(***************************************************************************)
Reroute(f) ==
  /\ pc[f] = "route"
  /\ IF Route(f) = place[f].at
     THEN /\ Goto(f, "read")
          /\ place' = [place EXCEPT ![f].looks = 0]
          /\ UNCHANGED <<lock, job, todo, done, copy>>
     ELSE IF place[f].looks + 1 < ROUTE_ATTEMPTS
     THEN /\ place' = [place EXCEPT ![f] = [at |-> Route(f), looks |-> @.looks + 1]]
          /\ Goto(f, "lock")
          /\ lock' = Unlocked(f)
          /\ UNCHANGED <<job, todo, done, copy>>
     ELSE Return(f)
  /\ UNCHANGED <<store, history>>

(***************************************************************************)
(* The credential is read; a fresh payload ends the fetch, a stale token   *)
(* is refreshed first.                                                     *)
(***************************************************************************)
ReadAuth(f) ==
  /\ pc[f] = "read"
  /\ \/ Return(f)
     \/ /\ file[Auth(place[f].at)] # Absent
        /\ copy' = [copy EXCEPT ![f] = file[Auth(place[f].at)]]
        /\ \E next \in {"refresh", "usage"} : Goto(f, next)
        /\ UNCHANGED <<lock, job, todo, done, place>>
  /\ UNCHANGED <<store, history>>

(***************************************************************************)
(* The server rotates the token it issued last and refuses any other; the  *)
(* answer may be lost.                                                     *)
(***************************************************************************)
Refresh(f) ==
  LET id == copy[f].id IN
  /\ pc[f] = "refresh"
  /\ \/ /\ copy[f].rt = issued[id] /\ MayRotate
        /\ issued' = [issued EXCEPT ![id] = @ + 1]
        /\ \/ /\ copy' = [copy EXCEPT ![f].rt = @ + 1]
              /\ Goto(f, "save")
              /\ UNCHANGED <<lock, job, todo, done, place, mishaps>>
           \/ Return(f) /\ mishaps' = mishaps \cup {"lost"}
     \/ Return(f) /\ UNCHANGED <<issued, mishaps>>
  /\ UNCHANGED <<file, cache, session, kept, troubles>>

SaveAuth_ToTheRoute_Bug(f) ==
  /\ pc[f] = "save"
  /\ file' = [file EXCEPT ![Auth(f)] = copy[f]]
  /\ Goto(f, "usage")
  /\ UNCHANGED <<lock, locals, cache, issued, session, history>>

SaveAuth(f) ==
  /\ pc[f] = "save"
  /\ \/ /\ file' = [file EXCEPT ![Auth(place[f].at)] = copy[f]]
        /\ Goto(f, "usage")
        /\ UNCHANGED <<lock, locals, mishaps, troubles>>
     \/ /\ Trouble
        /\ mishaps' = mishaps \cup {"lost"}
        /\ Return(f)
        /\ UNCHANGED file
  /\ UNCHANGED <<cache, issued, session, kept>>

Usage(f) ==
  /\ pc[f] = "usage"
  /\ \/ cache' = [cache EXCEPT ![f] = copy[f].id]
     \/ UNCHANGED cache
  /\ Return(f)
  /\ UNCHANGED <<file, issued, session, history>>

-----------------------------------------------------------------------------
(* Crashes, the user, and the Codex sessions that know of no lock.         *)

(***************************************************************************)
(* A death before the first write or after the last is like a return: it   *)
(* drops the locks.                                                        *)
(***************************************************************************)
Crash(p) ==
  /\ Trouble
  /\ pc[p] \in {"move", "undo", "forget", "save"}
  /\ IF p \in Switchers THEN Leave(p, "idle") ELSE Return(p)
  /\ mishaps' = mishaps \cup {IF pc[p] = "save" THEN "lost" ELSE "crash"}
  /\ UNCHANGED <<store, kept>>

(***************************************************************************)
(* `codex login`, with an account signed in nowhere, at a place where      *)
(* nothing is going on.                                                    *)
(***************************************************************************)
SignIn(p, id) ==
  /\ Trouble
  /\ lock[p] = Absent
  /\ p \in Fetchers => pc[p] = "idle"
  /\ session = Absent /\ \A s \in Switchers : pc[s] \notin {"move", "undo"}
  /\ \A q \in Places : IdIn(q) # id
  /\ MayRotate
  /\ issued' = [issued EXCEPT ![id] = @ + 1]
  /\ file' = [file EXCEPT ![Auth(p)] = [id |-> id, rt |-> issued[id] + 1]]
  /\ kept' = (kept \ {IdIn(p)}) \cup {id}
  /\ mishaps' = IF p = Default THEN mishaps \cup {"signin"} ELSE mishaps
  /\ UNCHANGED <<lock, pc, locals, cache, session>>

SessionReloads ==
  /\ Trouble
  /\ session = Absent /\ file[Auth(Default)] # Absent
  /\ session' = file[Auth(Default)]
  /\ mishaps' = IF \E s \in Switchers : pc[s] \in {"move", "undo"}
                THEN mishaps \cup {"crossed"} ELSE mishaps
  /\ UNCHANGED <<file, cache, issued, lock, pc, locals, kept>>

SessionRefreshes ==
  /\ session # Absent
  /\ session' = Absent
  /\ IF session.rt = issued[session.id] /\ MayRotate
     THEN /\ issued' = [issued EXCEPT ![session.id] = @ + 1]
          /\ file' = [file EXCEPT ![Auth(Default)] = [session EXCEPT !.rt = @ + 1]]
     ELSE UNCHANGED <<issued, file>>
  /\ UNCHANGED <<cache, lock, pc, locals, history>>

SwitchStep(s) ==
  \/ Lock(s) \/ LockTimesOut(s) \/ Decide(s) \/ Move(s) \/ MoveFails(s)
  \/ Undo(s) \/ Undone(s) \/ Finish(s) \/ Forget(s) \/ Adopt(s)

FetchStep(f) ==
  \/ FetchLocks(f) \/ Reroute(f) \/ ReadAuth(f) \/ Refresh(f) \/ SaveAuth(f) \/ Usage(f)

Next ==
  \/ \E s \in Switchers : Begin(s) \/ BeginAdopt(s) \/ SwitchStep(s)
  \/ \E f \in Fetchers : Fetch(f) \/ FetchStep(f)
  \/ \E p \in Procs : Crash(p)
  \/ \E p \in Places, id \in Ids : SignIn(p, id)
  \/ SessionReloads
  \/ SessionRefreshes

Spec == Init /\ [][Next]_vars

-----------------------------------------------------------------------------
(* Properties. *)

Writes ==
  [file : {Auth(p) : p \in Places}, to : Blobs \cup {Absent}]
  \cup [file : {Marker(a) : a \in Accounts}, to : Ids \cup {Absent}]

Jobs == [label : Places, kind : {"none", "switch", "adopt"},
         guess : {{}} \cup {{a} : a \in Accounts}, want : SUBSET Places]

(***************************************************************************)
(* The shape of the files, the caches, the locks and what is under way.    *)
(***************************************************************************)
TypeOK ==
  /\ file \in [Files -> Blobs \cup Ids \cup {Absent}]
  /\ \A p \in Places : file[Auth(p)] \in Blobs \cup {Absent}
  /\ \A a \in Accounts : file[Marker(a)] \in Ids \cup {Absent}
  /\ lock \in [Places -> Procs \cup {Absent}]
  /\ pc \in [Procs -> {"idle", "lock", "decide", "move", "undo", "forget",
                       "route", "read", "refresh", "save", "usage"}]
  /\ job \in [Switchers -> Jobs]
  /\ todo \in [Switchers -> Seq(Writes)]
  /\ done \in [Switchers -> Seq(Writes)]
  /\ copy \in [Fetchers -> Blobs \cup {Absent}]
  /\ place \in [Fetchers -> [at : Places, looks : 0 .. ROUTE_ATTEMPTS]]
  /\ cache \in [Fetchers -> Ids \cup {Absent}]
  /\ issued \in [Ids -> Nat \ {0}]
  /\ session \in Blobs \cup {Absent}
  /\ kept \subseteq Ids
  /\ mishaps \subseteq {"crash", "torn", "lost", "crossed", "signin"}

(***************************************************************************)
(* No login is out of every slot, whatever dies or fails half way, unless  *)
(* the user signed over it or gave it up with --force; until a restore     *)
(* fails too, or a Codex session was refreshing while the login moved.     *)
(***************************************************************************)
EveryLoginKept ==
  mishaps \cap {"torn", "crossed"} = {} =>
    \A id \in kept : \E p \in Places : IdIn(p) = id

(***************************************************************************)
(* Two files never hold the same login, except while a switch that holds   *)
(* both their locks moves it, or after one that was cut short: nothing     *)
(* resumes it.                                                             *)
(***************************************************************************)
OneLiveCopy ==
  mishaps \cap {"torn", "crossed", "crash"} = {} =>
    \A p, q \in Places :
      IdIn(p) = IdIn(q) /\ IdIn(p) # Absent =>
        \/ p = q
        \/ \E s \in Switchers : pc[s] \in {"move", "undo"} /\ lock[p] = s /\ lock[q] = s

(***************************************************************************)
(* The token in every file is the one the server accepts, or the rotated   *)
(* one is about to be written over it, unless an answer or a write was     *)
(* lost or the login was left in two files.                                *)
(***************************************************************************)
TokensAreLive ==
  mishaps \cap {"torn", "crossed", "crash", "lost"} = {} =>
    \A p \in Places :
      file[Auth(p)] # Absent =>
        \/ file[Auth(p)].rt = issued[IdIn(p)]
        \/ \E f \in Fetchers : /\ pc[f] = "save" /\ place[f].at = p /\ lock[p] = f
                             /\ copy[f] = [id |-> IdIn(p), rt |-> issued[IdIn(p)]]

(***************************************************************************)
(* A fetch stores no usage under another account's label: at the moment it *)
(* writes, the login it asked for is the account's own, unless a session   *)
(* has refreshed a login while a switch moved it.                          *)
(***************************************************************************)
FigureIsTheirs ==
  [][ \A f \in Fetchers :
        mishaps \cap {"torn", "crossed"} = {} /\ cache'[f] \notin {Absent, cache[f]} =>
          cache'[f] = IF f = Default THEN IdIn(Default) ELSE Identity(f) ]_vars

(***************************************************************************)
(* Once a switch has returned the unnamed account's cache does not show    *)
(* the previous login any more.                                            *)
(***************************************************************************)
UnnamedFollowsTheDefault ==
  \/ \A f \in Fetchers \cap {Default} : cache[f] \in {Absent, IdIn(Default)}
  \/ \E s \in Switchers : pc[s] \in {"move", "undo", "forget"}
  \/ mishaps \cap {"signin", "crash", "torn", "crossed"} # {}

(***************************************************************************)
(* A switch leaves no second copy of a login behind, and no figure of the  *)
(* login that was there before: the two together.                          *)
(***************************************************************************)
NothingIsLeftBehind == OneLiveCopy /\ UnnamedFollowsTheDefault
=============================================================================
