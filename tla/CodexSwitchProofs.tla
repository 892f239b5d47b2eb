--------------------------- MODULE CodexSwitchProofs ---------------------------
(***************************************************************************)
(* The safety of the moves of the Codex login, for any number of accounts, *)
(* switches and fetches side by side, whatever dies or fails.              *)
(***************************************************************************)
EXTENDS CodexSwitch, SequenceTheorems, TLAPS

-----------------------------------------------------------------------------
(* The inductive invariant. *)

(***************************************************************************)
(* How far the promises reach: Calm while no restore has failed and no     *)
(* session was refreshing as its login moved, Tidy while no switch died    *)
(* half way either, Fresh while no answer or write was lost.               *)
(***************************************************************************)
Calm == mishaps \cap {"torn", "crossed"} = {}
Tidy == mishaps \cap {"torn", "crossed", "crash"} = {}
Fresh == mishaps \cap {"torn", "crossed", "crash", "lost"} = {}
Followed == Tidy /\ "signin" \notin mishaps

Moving(s) == pc[s] \in {"move", "undo"}
Asking(f) == pc[f] \in {"refresh", "save", "usage"}
Forgetting == \E x \in Switchers : pc[x] = "forget"

TypeInv == TypeOK /\ \A f \in Fetchers : Asking(f) => copy[f] # Absent

(***************************************************************************)
(* A switch holds the locks it no longer wants, and a mover that of the    *)
(* default slot; the journal is empty when it starts.  A fetch that has    *)
(* its route holds the lock of that place.                                 *)
(***************************************************************************)
SwitchLocks(s) ==
  /\ pc[s] = "lock" => \A p \in LockDirs(job[s].label, job[s].guess) :
                         lock[p] = s \/ p \in job[s].want
  /\ pc[s] = "decide" => \A p \in LockDirs(job[s].label, job[s].guess) : lock[p] = s
  /\ pc[s] \in {"lock", "decide"} => job[s].label \in Accounts
  /\ Moving(s) => lock[Default] = s
  /\ pc[s] # "move" => done[s] = <<>>

FetchLocked(f) ==
  pc[f] \in {"route", "read", "refresh", "save", "usage"} => lock[place[f].at] = f

LockInv == (\A s \in Switchers : SwitchLocks(s)) /\ \A f \in Fetchers : FetchLocked(f)

(***************************************************************************)
(* What is fixed while a switch moves login new from place l into the      *)
(* default slot and login old out of it into place o: o is Default when    *)
(* nobody owns old.                                                        *)
(*   - the switch holds the three locks;                                   *)
(*   - a login that has no place to go to is given up;                     *)
(*   - no other place holds one of the two, or shares a login with         *)
(*     another;                                                            *)
(*   - no token of the two is refreshed.                                   *)
(***************************************************************************)
Given(l, o, old, new) ==
  /\ o # l /\ l # Default
  /\ o # Default => old # Absent
  /\ old # Absent => old.id # new.id
  /\ o = Default /\ old # Absent => old.id \notin kept

Elsewhere(l, o) == Places \ {Default, l, o}

Apart(l, o, old, new) ==
  /\ \A p \in Elsewhere(l, o) :
       IdIn(p) # Absent => IdIn(p) # new.id /\ (old # Absent => IdIn(p) # old.id)
  /\ \A p, q \in Elsewhere(l, o) : IdIn(p) # Absent /\ IdIn(p) = IdIn(q) => p = q

Untouched(old, new) ==
  /\ new.rt = issued[new.id]
  /\ old # Absent => old.rt = issued[old.id]

Shown(old) ==
  Default \in Fetchers =>
    Forgetting \/ cache[Default] = Absent \/ (old # Absent /\ cache[Default] = old.id)

Parties(s, l, o, old, new) ==
  /\ Given(l, o, old, new)
  /\ lock[Default] = s /\ lock[l] = s /\ lock[o] = s
  /\ session = Absent
  /\ Tidy => Apart(l, o, old, new)
  /\ Fresh => Untouched(old, new)
  /\ Followed => Shown(old)

(***************************************************************************)
(* What the journal puts back, and what it covers.                         *)
(***************************************************************************)
Puts(u, l, o, old, new) ==
  \A k \in DOMAIN u :
    /\ u[k].file = Auth(Default) => u[k].to = old
    /\ u[k].file = Auth(l) => u[k].to = new
    /\ o # Default /\ u[k].file = Auth(o) => u[k].to = Absent
    /\ \A p \in Elsewhere(l, o) : u[k].file # Auth(p)

Covers(u, f) == \E k \in DOMAIN u : u[k].file = f

Journalled(u, l, o, old, new) ==
  /\ Puts(u, l, o, old, new)
  /\ file[Auth(Default)] = old \/ Covers(u, Auth(Default))
  /\ o # Default => file[Auth(o)] = Absent \/ Covers(u, Auth(o))

(***************************************************************************)
(* The five stages of the move.  The outgoing login is saved before it is  *)
(* overwritten, and the target removed from its place after it was         *)
(* installed.                                                              *)
(***************************************************************************)
Stage(t, l, o, old, new) ==
  LET saved == o # Default => file[Auth(o)] = old
      wo == Write(Auth(o), old)
      mo == Write(Marker(o), old.id)
      wd == Write(Auth(Default), new)
      ml == Write(Marker(l), new.id)
      wl == Write(Auth(l), Absent)
      live == file[Auth(Default)]
  IN
  \/ /\ o \in Accounts /\ t = <<wo, mo, wd, ml, wl>>
     /\ file[Auth(o)] = Absent /\ live = old /\ file[Auth(l)] = new
  \/ o \in Accounts /\ t = <<mo, wd, ml, wl>> /\ saved /\ live = old /\ file[Auth(l)] = new
  \/ t = <<wd, ml, wl>> /\ saved /\ live = old /\ file[Auth(l)] = new
  \/ t = <<ml, wl>> /\ saved /\ live = new /\ file[Auth(l)] = new
  \/ t = <<wl>> /\ saved /\ live = new /\ file[Auth(l)] = new
  \/ t = <<>> /\ saved /\ live = new /\ file[Auth(l)] = Absent

(***************************************************************************)
(* The journal has the outgoing slot before the default one: the rollback, *)
(* which runs backwards, empties the one after it has restored the other.  *)
(***************************************************************************)
InOrder(u, o) ==
  o # Default =>
    \A i, j \in DOMAIN u : u[i].file = Auth(o) /\ u[j].file = Auth(Default) => i < j

InReverse(u, o) ==
  o # Default =>
    \A i, j \in DOMAIN u : u[i].file = Auth(Default) /\ u[j].file = Auth(o) => i < j

MoveOk(s, l, o, old, new) ==
  /\ Parties(s, l, o, old, new)
  /\ Stage(todo[s], l, o, old, new)
  /\ Journalled(done[s], l, o, old, new)
  /\ InOrder(done[s], o)
  /\ file[Auth(Default)] = old => ~Covers(done[s], Auth(Default))

Restores(l, o, old, new) ==
  /\ file[Auth(l)] = new /\ file[Auth(Default)] \in {old, new}
  /\ o # Default => /\ file[Auth(o)] \in {old, Absent}
                    /\ file[Auth(Default)] = old \/ file[Auth(o)] = old

UndoOk(s, l, o, old, new) ==
  /\ Parties(s, l, o, old, new)
  /\ Journalled(todo[s], l, o, old, new)
  /\ InReverse(todo[s], o)
  /\ Restores(l, o, old, new)

WorkOk(s, l, o, old, new) ==
  /\ pc[s] = "move" => MoveOk(s, l, o, old, new)
  /\ pc[s] = "undo" => UndoOk(s, l, o, old, new)

WorkInv ==
  \A s \in Switchers : Moving(s) =>
    \E l \in Accounts, o \in Places, old \in Blobs \cup {Absent}, new \in Blobs :
      WorkOk(s, l, o, old, new)

(***************************************************************************)
(* Whether a switch runs or not: the logins that are owed are in some      *)
(* slot, a session refreshes the login of the default slot, and a fetch    *)
(* asks for the login its place holds, which is its account's own.         *)
(***************************************************************************)
KeptInv == \A id \in kept : \E p \in Places : IdIn(p) = id

SessionInv == session # Absent => IdIn(Default) = session.id

CopyOk(f) == Asking(f) => IdIn(place[f].at) = copy[f].id

RouteOk(f) ==
  /\ place[f].at \in {Default, f}
  /\ pc[f] = "read" \/ Asking(f) =>
       place[f].at = f \/ (IdIn(f) = Absent /\ f \in Accounts /\ file[Marker(f)] = IdIn(Default))

CopyInv == \A f \in Fetchers : CopyOk(f)
RouteInv == \A f \in Fetchers : RouteOk(f)

(***************************************************************************)
(* No login is in two places that no mover holds, and the unnamed          *)
(* account's cache shows the live login until a mover has forgotten it.    *)
(***************************************************************************)
Held(p, q) == \E s \in Switchers : Moving(s) /\ lock[p] = s /\ lock[q] = s

UniqueInv ==
  \A p, q \in Places : IdIn(p) # Absent /\ IdIn(p) = IdIn(q) => p = q \/ Held(p, q)

UnnamedInv ==
  Default \in Fetchers =>
    \/ \E x \in Switchers : Moving(x)
    \/ Forgetting
    \/ cache[Default] \in {Absent, IdIn(Default)}

(***************************************************************************)
(* The tokens: none is ahead of the server, one that lags is about to be   *)
(* written over by the fetch that had it rotated, and a session that holds *)
(* a rotated token cannot use it.                                          *)
(***************************************************************************)
Saves(f, p) == pc[f] = "save" /\ place[f].at = p

LiveInv ==
  /\ \A p \in Places : file[Auth(p)] # Absent =>
       /\ file[Auth(p)].rt <= issued[IdIn(p)]
       /\ file[Auth(p)].rt = issued[IdIn(p)] \/ \E f \in Fetchers : Saves(f, p)
  /\ \A f \in Fetchers : pc[f] = "refresh" => copy[f].rt <= issued[copy[f].id]
  /\ session # Absent => session.rt <= issued[session.id]
  /\ \A f \in Fetchers : pc[f] = "save" =>
       /\ copy[f].rt = issued[copy[f].id]
       /\ file[Auth(place[f].at)].rt < issued[copy[f].id]
       /\ place[f].at = Default /\ session # Absent => session.rt < issued[session.id]

CalmInv == WorkInv /\ KeptInv /\ SessionInv /\ CopyInv /\ RouteInv

Inv ==
  /\ TypeInv /\ LockInv
  /\ Calm => CalmInv
  /\ Tidy => UniqueInv
  /\ Followed => UnnamedInv
  /\ Fresh => LiveInv

-----------------------------------------------------------------------------
(* The files, and what a step does to the process that takes it. *)

LEMMA Names ==
  /\ Default \in Places /\ Default \notin Accounts /\ Accounts \subseteq Places
  /\ Fetchers \subseteq Places /\ Switchers \cap Fetchers = {}
  /\ \A p \in Places : p = Default \/ p \in Accounts
  /\ Absent \notin Procs /\ Absent \notin Ids /\ Absent \notin Blobs
  /\ \A s \in Switchers : s \in Procs
  /\ \A f \in Fetchers : f \in Procs
BY CodexAssumption DEF Places, Procs

LEMMA FileNames ==
  /\ \A p \in Places : Auth(p) \in Files
  /\ \A a \in Accounts : Marker(a) \in Files
  /\ \A p, q : Auth(p) = Auth(q) => p = q
  /\ \A a, b : Marker(a) = Marker(b) => a = b
  /\ \A p, a : Auth(p) # Marker(a)
  /\ \A f \in Files : (\E p \in Places : f = Auth(p)) \/ (\E a \in Accounts : f = Marker(a))
BY DEF Files, Auth, Marker

LEMMA BlobFields ==
  /\ \A b \in Blobs : b.id \in Ids /\ b.rt \in Nat /\ b.rt >= 1 /\ b # Absent
  /\ \A id \in Ids, n \in Nat : n >= 1 => [id |-> id, rt |-> n] \in Blobs
  /\ \A b \in Blobs : b = [id |-> b.id, rt |-> b.rt]
BY Names DEF Blobs

LEMMA IdFacts ==
  ASSUME TypeOK
  PROVE  \A p \in Places :
           /\ file[Auth(p)] \in Blobs \cup {Absent} /\ IdIn(p) \in Ids \cup {Absent}
           /\ IdIn(p) = Absent <=> file[Auth(p)] = Absent
           /\ file[Auth(p)] # Absent => IdIn(p) = file[Auth(p)].id
BY Names, BlobFields DEF TypeOK, IdIn

FilesTyped ==
  /\ file \in [Files -> Blobs \cup Ids \cup {Absent}]
  /\ \A p \in Places : file[Auth(p)] \in Blobs \cup {Absent}
  /\ \A a \in Accounts : file[Marker(a)] \in Ids \cup {Absent}

LEMMA AuthWritten ==
  ASSUME TypeOK, NEW p \in Places, NEW c \in Blobs \cup {Absent},
         file' = [file EXCEPT ![Auth(p)] = c]
  PROVE  /\ FilesTyped'
         /\ file'[Auth(p)] = c
         /\ c # Absent => IdIn(p)' = c.id
         /\ c = Absent => IdIn(p)' = Absent
         /\ \A q \in Places : q # p => file'[Auth(q)] = file[Auth(q)] /\ IdIn(q)' = IdIn(q)
         /\ \A a \in Accounts : file'[Marker(a)] = file[Marker(a)]
<1>1. FilesTyped /\ Auth(p) \in Files
  BY FileNames DEF TypeOK, FilesTyped
<1>2. \A g \in Files : file'[g] = IF g = Auth(p) THEN c ELSE file[g]
  BY <1>1 DEF FilesTyped
<1>3. file' \in [Files -> Blobs \cup Ids \cup {Absent}]
  BY <1>1 DEF FilesTyped
<1>4. file'[Auth(p)] = c
  BY <1>1, <1>2
<1>5. \A q \in Places : q # p => file'[Auth(q)] = file[Auth(q)]
  BY <1>2, FileNames
<1>6. \A a \in Accounts : file'[Marker(a)] = file[Marker(a)]
  BY <1>2, FileNames
<1>7. FilesTyped'
  BY <1>1, <1>3, <1>4, <1>5, <1>6 DEF FilesTyped
<1>8. (c # Absent => IdIn(p)' = c.id) /\ (c = Absent => IdIn(p)' = Absent)
  BY <1>4 DEF IdIn
<1>9. \A q \in Places : q # p => IdIn(q)' = IdIn(q)
  BY <1>5 DEF IdIn
<1> QED BY <1>4, <1>5, <1>6, <1>7, <1>8, <1>9

LEMMA MarkerWritten ==
  ASSUME TypeOK, NEW a \in Accounts, NEW c \in Ids \cup {Absent},
         file' = [file EXCEPT ![Marker(a)] = c]
  PROVE  /\ FilesTyped'
         /\ \A p \in Places : file'[Auth(p)] = file[Auth(p)] /\ IdIn(p)' = IdIn(p)
         /\ \A b \in Accounts : b # a => file'[Marker(b)] = file[Marker(b)]
         /\ file'[Marker(a)] = c
<1>1. FilesTyped /\ Marker(a) \in Files
  BY FileNames DEF TypeOK, FilesTyped
<1>2. \A g \in Files : file'[g] = IF g = Marker(a) THEN c ELSE file[g]
  BY <1>1 DEF FilesTyped
<1>3. file' \in [Files -> Blobs \cup Ids \cup {Absent}]
  BY <1>1 DEF FilesTyped
<1>4. file'[Marker(a)] = c
  BY <1>1, <1>2
<1>5. \A p \in Places : file'[Auth(p)] = file[Auth(p)]
  BY <1>2, FileNames
<1>6. \A b \in Accounts : b # a => file'[Marker(b)] = file[Marker(b)]
  BY <1>2, FileNames
<1>7. FilesTyped'
  BY <1>1, <1>3, <1>4, <1>5, <1>6 DEF FilesTyped
<1>8. \A p \in Places : IdIn(p)' = IdIn(p)
  BY <1>5 DEF IdIn
<1> QED BY <1>4, <1>5, <1>6, <1>7, <1>8

LEMMA FilesSame ==
  ASSUME TypeOK, file' = file
  PROVE  /\ FilesTyped'
         /\ \A p \in Places : file'[Auth(p)] = file[Auth(p)] /\ IdIn(p)' = IdIn(p)
         /\ \A a \in Accounts : file'[Marker(a)] = file[Marker(a)]
BY DEF TypeOK, FilesTyped, IdIn

Labels == {"idle", "lock", "decide", "move", "undo", "forget",
           "route", "read", "refresh", "save", "usage"}

ProcsTyped ==
  /\ lock \in [Places -> Procs \cup {Absent}]
  /\ pc \in [Procs -> Labels]
  /\ job \in [Switchers -> Jobs]
  /\ todo \in [Switchers -> Seq(Writes)]
  /\ done \in [Switchers -> Seq(Writes)]
  /\ copy \in [Fetchers -> Blobs \cup {Absent}]
  /\ place \in [Fetchers -> [at : Places, looks : 0 .. ROUTE_ATTEMPTS]]

RestTyped ==
  /\ cache \in [Fetchers -> Ids \cup {Absent}]
  /\ issued \in [Ids -> Nat \ {0}]
  /\ session \in Blobs \cup {Absent}
  /\ kept \subseteq Ids
  /\ mishaps \subseteq {"crash", "torn", "lost", "crossed", "signin"}

LEMMA TypeParts == TypeOK <=> FilesTyped /\ ProcsTyped /\ RestTyped
BY DEF TypeOK, FilesTyped, ProcsTyped, RestTyped, Labels

LEMMA GotoDoes ==
  ASSUME TypeOK, NEW p \in Procs, NEW label \in Labels, Goto(p, label)
  PROVE  /\ pc' \in [Procs -> Labels] /\ pc'[p] = label
         /\ \A q \in Procs : q # p => pc'[q] = pc[q]
<1>1. pc \in [Procs -> Labels]
  BY TypeParts DEF ProcsTyped
<1> QED BY <1>1 DEF Goto

LEMMA Released ==
  ASSUME TypeOK, NEW p \in Procs, lock' = Unlocked(p)
  PROVE  /\ lock' \in [Places -> Procs \cup {Absent}]
         /\ \A q \in Places : lock'[q] = IF lock[q] = p THEN Absent ELSE lock[q]
BY DEF TypeOK, Unlocked

LEMMA NoJobType == NoJob \in Jobs
BY Names DEF NoJob, Jobs

LEMMA LeaveDoes ==
  ASSUME TypeOK, NEW s \in Switchers, NEW label \in {"idle", "forget"}, Leave(s, label)
  PROVE  /\ ProcsTyped'
         /\ pc'[s] = label /\ \A q \in Procs : q # s => pc'[q] = pc[q]
         /\ \A q \in Places : lock'[q] = IF lock[q] = s THEN Absent ELSE lock[q]
         /\ \A x \in Switchers : x # s => job'[x] = job[x] /\ todo'[x] = todo[x] /\ done'[x] = done[x]
         /\ done'[s] = <<>> /\ UNCHANGED <<copy, place>>
<1>1. s \in Procs /\ label \in Labels
  BY Names DEF Labels
<1>2. ProcsTyped
  BY TypeParts
<1>3. /\ pc' \in [Procs -> Labels]
      /\ pc'[s] = label /\ \A q \in Procs : q # s => pc'[q] = pc[q]
  BY <1>1, GotoDoes DEF Leave
<1>4. /\ lock' \in [Places -> Procs \cup {Absent}]
      /\ \A q \in Places : lock'[q] = IF lock[q] = s THEN Absent ELSE lock[q]
  BY <1>1, Released DEF Leave
<1>5. job' \in [Switchers -> Jobs] /\ \A x \in Switchers : x # s => job'[x] = job[x]
  BY <1>2, NoJobType DEF Leave, ProcsTyped
<1>6. <<>> \in Seq(Writes)
  OBVIOUS
<1>7. todo' \in [Switchers -> Seq(Writes)] /\ \A x \in Switchers : x # s => todo'[x] = todo[x]
  BY <1>2, <1>6 DEF Leave, ProcsTyped
<1>8. /\ done' \in [Switchers -> Seq(Writes)] /\ done'[s] = <<>>
      /\ \A x \in Switchers : x # s => done'[x] = done[x]
  BY <1>2, <1>6 DEF Leave, ProcsTyped
<1>9. UNCHANGED <<copy, place>>
  BY DEF Leave
<1> QED BY <1>2, <1>3, <1>4, <1>5, <1>7, <1>8, <1>9 DEF ProcsTyped

LEMMA ReturnDoes ==
  ASSUME TypeOK, NEW f \in Fetchers, Return(f)
  PROVE  /\ ProcsTyped'
         /\ pc'[f] = "idle" /\ \A q \in Procs : q # f => pc'[q] = pc[q]
         /\ \A q \in Places : lock'[q] = IF lock[q] = f THEN Absent ELSE lock[q]
         /\ \A g \in Fetchers : g # f => copy'[g] = copy[g] /\ place'[g] = place[g]
         /\ place'[f].at = Default
         /\ UNCHANGED <<job, todo, done>>
<1>1. f \in Procs /\ "idle" \in Labels
  BY Names DEF Labels
<1>2. ProcsTyped
  BY TypeParts
<1>3. /\ pc' \in [Procs -> Labels]
      /\ pc'[f] = "idle" /\ \A q \in Procs : q # f => pc'[q] = pc[q]
  BY <1>1, GotoDoes DEF Return
<1>4. /\ lock' \in [Places -> Procs \cup {Absent}]
      /\ \A q \in Places : lock'[q] = IF lock[q] = f THEN Absent ELSE lock[q]
  BY <1>1, Released DEF Return
<1>5. NoPlace \in [at : Places, looks : 0 .. ROUTE_ATTEMPTS] /\ NoPlace.at = Default
  BY Names DEF NoPlace, ROUTE_ATTEMPTS
<1>6. copy' \in [Fetchers -> Blobs \cup {Absent}] /\ \A g \in Fetchers : g # f => copy'[g] = copy[g]
  BY <1>2 DEF Return, ProcsTyped
<1>7. /\ place' \in [Fetchers -> [at : Places, looks : 0 .. ROUTE_ATTEMPTS]]
      /\ \A g \in Fetchers : g # f => place'[g] = place[g]
      /\ place'[f] = NoPlace
  BY <1>2, <1>5 DEF Return, ProcsTyped
<1>8. UNCHANGED <<job, todo, done>>
  BY DEF Return
<1> QED BY <1>2, <1>3, <1>4, <1>5, <1>6, <1>7, <1>8 DEF ProcsTyped

(***************************************************************************)
(* A step of process p, or of nobody when p is Absent, leaves the others   *)
(* where they are, and the locks they hold.                                *)
(***************************************************************************)
Acts(p) ==
  /\ \A q \in Procs : q # p => pc'[q] = pc[q]
  /\ \A x \in Switchers : x # p => job'[x] = job[x] /\ todo'[x] = todo[x] /\ done'[x] = done[x]
  /\ \A g \in Fetchers : g # p => copy'[g] = copy[g] /\ place'[g] = place[g]
  /\ \A q \in Places : lock[q] \notin {p, Absent} => lock'[q] = lock[q]

LEMMA LeaveActs ==
  ASSUME TypeOK, NEW s \in Switchers, NEW label \in {"idle", "forget"}, Leave(s, label)
  PROVE  /\ ProcsTyped' /\ Acts(s) /\ pc'[s] = label /\ done'[s] = <<>>
         /\ \A q \in Places : lock[q] = s => lock'[q] = Absent
BY LeaveDoes, Names DEF Acts

LEMMA ReturnActs ==
  ASSUME TypeOK, NEW f \in Fetchers, Return(f)
  PROVE  /\ ProcsTyped' /\ Acts(f) /\ pc'[f] = "idle" /\ place'[f].at = Default
         /\ \A q \in Places : lock[q] = f => lock'[q] = Absent
<1>1. \A x \in Switchers : x # f => job'[x] = job[x] /\ todo'[x] = todo[x] /\ done'[x] = done[x]
  BY ReturnDoes
<1> QED BY <1>1, ReturnDoes DEF Acts

LEMMA SameActs ==
  ASSUME TypeOK, NEW p, UNCHANGED <<lock, pc, job, todo, done, copy, place>>
  PROVE  ProcsTyped' /\ Acts(p)
<1>1. ProcsTyped
  BY TypeParts
<1>2. ProcsTyped'
  BY <1>1 DEF ProcsTyped
<1> QED BY <1>2 DEF Acts

LEMMA GotoActs ==
  ASSUME TypeOK, NEW p \in Procs, NEW label \in Labels, Goto(p, label),
         UNCHANGED <<lock, job, todo, done, copy, place>>
  PROVE  ProcsTyped' /\ Acts(p) /\ pc'[p] = label
<1>1. ProcsTyped
  BY TypeParts
<1>2. pc' \in [Procs -> Labels] /\ pc'[p] = label /\ \A q \in Procs : q # p => pc'[q] = pc[q]
  BY GotoDoes
<1>3. ProcsTyped'
  BY <1>1, <1>2 DEF ProcsTyped
<1> QED BY <1>2, <1>3 DEF Acts

LEMMA JobSet ==
  ASSUME TypeOK, NEW s \in Switchers, NEW j \in Jobs, job' = [job EXCEPT ![s] = j]
  PROVE  /\ job' \in [Switchers -> Jobs] /\ job'[s] = j
         /\ \A x \in Switchers : x # s => job'[x] = job[x]
<1>1. job \in [Switchers -> Jobs]
  BY TypeParts DEF ProcsTyped
<1> QED BY <1>1

LEMMA BeginDoes ==
  ASSUME TypeOK, NEW s \in Switchers, Begin(s) \/ BeginAdopt(s)
  PROVE  /\ ProcsTyped' /\ Acts(s) /\ pc[s] = "idle" /\ pc'[s] = "lock"
         /\ job'[s].label \in Accounts
         /\ job'[s].want = LockDirs(job'[s].label, job'[s].guess)
         /\ lock' = lock
         /\ UNCHANGED <<store, history>>
<1>1. PICK a \in Accounts, guess \in {{}} \cup {{b} : b \in Accounts}, kind \in {"switch", "adopt"} :
        job' = [job EXCEPT ![s] = [label |-> a, kind |-> kind, guess |-> guess,
                                   want |-> LockDirs(a, guess)]]
  BY DEF Begin, BeginAdopt
<1> DEFINE j == [label |-> a, kind |-> kind, guess |-> guess, want |-> LockDirs(a, guess)]
<1>2. guess \subseteq Places /\ a \in Places
  BY Names
<1>3. LockDirs(a, guess) \in SUBSET Places
  BY <1>2, Names DEF LockDirs
<1>4. j \in Jobs
  BY <1>2, <1>3 DEF Jobs
<1>5. /\ job' \in [Switchers -> Jobs] /\ job'[s] = j
      /\ \A x \in Switchers : x # s => job'[x] = job[x]
  <2> HIDE DEF j
  <2>1. job' = [job EXCEPT ![s] = j]
    BY <1>1 DEF j
  <2> QED BY <1>4, <2>1, JobSet
<1>6. j.label = a /\ j.want = LockDirs(j.label, j.guess)
  OBVIOUS
<1> HIDE DEF j
<1>7. s \in Procs /\ "lock" \in Labels
  BY Names DEF Labels
<1>8. /\ Goto(s, "lock") /\ pc[s] = "idle"
      /\ UNCHANGED <<store, lock, todo, done, copy, place, history>>
  BY DEF Begin, BeginAdopt
<1>9. pc' \in [Procs -> Labels] /\ pc'[s] = "lock" /\ \A q \in Procs : q # s => pc'[q] = pc[q]
  BY <1>7, <1>8, GotoDoes
<1>10. ProcsTyped
  BY TypeParts
<1>11. ProcsTyped'
  BY <1>5, <1>8, <1>9, <1>10 DEF ProcsTyped
<1>12. Acts(s)
  BY <1>5, <1>8, <1>9 DEF Acts
<1> QED BY <1>5, <1>6, <1>8, <1>9, <1>11, <1>12

LEMMA LockDoes ==
  ASSUME TypeOK, NEW s \in Switchers, Lock(s)
  PROVE  /\ ProcsTyped' /\ Acts(s) /\ pc[s] = "lock"
         /\ UNCHANGED <<store, history>>
         /\ \/ /\ job[s].want = {} /\ pc'[s] = "decide" /\ job'[s] = job[s] /\ lock' = lock
            \/ /\ pc'[s] = "lock"
               /\ job'[s].label = job[s].label /\ job'[s].guess = job[s].guess
               /\ \E p : /\ job'[s].want = job[s].want \ {p}
                         /\ \A q \in Places : lock'[q] = IF q = p THEN s ELSE lock[q]
<1>1. ProcsTyped /\ s \in Procs
  BY TypeParts, Names
<1>2. CASE job[s].want = {}
  <2>1. /\ Goto(s, "decide") /\ pc[s] = "lock"
        /\ UNCHANGED <<lock, job, store, todo, done, copy, place, history>>
    BY <1>2 DEF Lock
  <2>2. ProcsTyped' /\ Acts(s) /\ pc'[s] = "decide"
    <3>1. "decide" \in Labels
      BY DEF Labels
    <3> QED BY <1>1, <2>1, <3>1, GotoActs
  <2> QED BY <1>2, <2>1, <2>2
<1>3. CASE job[s].want # {}
  <2> DEFINE p == First(job[s].want)
             j == [job[s] EXCEPT !.want = job[s].want \ {First(job[s].want)}]
  <2>1. /\ lock[p] = Absent /\ lock' = [lock EXCEPT ![p] = s] /\ job' = [job EXCEPT ![s] = j]
        /\ pc[s] = "lock" /\ UNCHANGED <<pc, store, todo, done, copy, place, history>>
    BY <1>3, <1>1 DEF Lock, ProcsTyped
  <2>2. job[s] \in Jobs
    BY <1>1 DEF ProcsTyped
  <2>3. /\ j \in Jobs /\ j.label = job[s].label /\ j.guess = job[s].guess
        /\ j.want = job[s].want \ {p}
    BY <2>2 DEF Jobs
  <2> HIDE DEF j, p
  <2>4. /\ job' \in [Switchers -> Jobs] /\ job'[s] = j
        /\ \A x \in Switchers : x # s => job'[x] = job[x]
    BY <2>1, <2>3, JobSet
  <2>5. /\ lock' \in [Places -> Procs \cup {Absent}]
        /\ \A q \in Places : lock'[q] = IF q = p THEN s ELSE lock[q]
    BY <1>1, <2>1 DEF ProcsTyped
  <2>6. ProcsTyped'
    BY <1>1, <2>1, <2>4, <2>5 DEF ProcsTyped
  <2>7. Acts(s)
    BY <2>1, <2>4, <2>5 DEF Acts
  <2> QED BY <2>1, <2>3, <2>4, <2>5, <2>6, <2>7
<1> QED BY <1>2, <1>3

LEMMA WriteTypes ==
  /\ \A p \in Places, c \in Blobs \cup {Absent} : Write(Auth(p), c) \in Writes
  /\ \A a \in Accounts, c \in Ids \cup {Absent} : Write(Marker(a), c) \in Writes
  /\ \A f, c : Write(f, c).file = f /\ Write(f, c).to = c
BY DEF Write, Writes

LEMMA WriteFields ==
  ASSUME NEW w \in Writes
  PROVE  \/ \E p \in Places : w.file = Auth(p) /\ w.to \in Blobs \cup {Absent}
         \/ \E a \in Accounts : w.file = Marker(a) /\ w.to \in Ids \cup {Absent}
BY DEF Writes

LEMMA Joined ==
  ASSUME NEW w1, NEW w2, NEW w3, NEW w4, NEW w5
  PROVE  /\ <<>> \o <<w3, w4, w5>> = <<w3, w4, w5>>
         /\ <<w1, w2>> \o <<w3, w4, w5>> = <<w1, w2, w3, w4, w5>>
<1> DEFINE S == {w1, w2, w3, w4, w5}
<1>1. /\ <<w1, w2>> \in Seq(S) /\ <<w3, w4, w5>> \in Seq(S) /\ <<w1, w2, w3, w4, w5>> \in Seq(S)
  OBVIOUS
<1>2. \A s \in Seq(S) : <<>> \o s = s
  OBVIOUS
<1>3. <<w1, w2>> \o <<w3, w4, w5>> \in Seq(S) /\ Len(<<w1, w2>> \o <<w3, w4, w5>>) = 5
  BY <1>1
<1>4. \A i \in 1 .. 5 : (<<w1, w2>> \o <<w3, w4, w5>>)[i] = <<w1, w2, w3, w4, w5>>[i]
  BY <1>1
<1>5. Len(<<w1, w2, w3, w4, w5>>) = 5
  OBVIOUS
<1> HIDE DEF S
<1>6. <<w1, w2>> \o <<w3, w4, w5>> = <<w1, w2, w3, w4, w5>>
  BY <1>1, <1>3, <1>4, <1>5, SeqEqual
<1> QED BY <1>1, <1>2, <1>6

LEMMA MovesAre ==
  ASSUME NEW l \in Accounts
  PROVE  /\ Moves(l, {}) = <<Write(Auth(Default), file[Auth(l)]), Write(Marker(l), IdIn(l)),
                             Write(Auth(l), Absent)>>
         /\ \A o \in Accounts :
              Moves(l, {o}) = <<Write(Auth(o), file[Auth(Default)]), Write(Marker(o), IdIn(Default)),
                                Write(Auth(Default), file[Auth(l)]), Write(Marker(l), IdIn(l)),
                                Write(Auth(l), Absent)>>
<1>1. Moves(l, {}) = <<Write(Auth(Default), file[Auth(l)]), Write(Marker(l), IdIn(l)),
                       Write(Auth(l), Absent)>>
  <2>1. Moves(l, {}) = <<>> \o <<Write(Auth(Default), file[Auth(l)]), Write(Marker(l), IdIn(l)),
                                 Write(Auth(l), Absent)>>
    BY DEF Moves
  <2> QED BY <2>1, Joined
<1>2. ASSUME NEW o \in Accounts
      PROVE  Moves(l, {o}) =
               <<Write(Auth(o), file[Auth(Default)]), Write(Marker(o), IdIn(Default)),
                 Write(Auth(Default), file[Auth(l)]), Write(Marker(l), IdIn(l)),
                 Write(Auth(l), Absent)>>
  <2>1. {o} # {} /\ (CHOOSE a \in {o} : TRUE) = o
    OBVIOUS
  <2>2. Moves(l, {o}) =
          <<Write(Auth(o), file[Auth(Default)]), Write(Marker(o), IdIn(Default))>>
          \o <<Write(Auth(Default), file[Auth(l)]), Write(Marker(l), IdIn(l)),
               Write(Auth(l), Absent)>>
    BY <2>1 DEF Moves
  <2> QED BY <2>2, Joined
<1> QED BY <1>1, <1>2

LEMMA MovesType ==
  ASSUME TypeOK, NEW l \in Accounts, NEW guess \in {{}} \cup {{a} : a \in Accounts}
  PROVE  Moves(l, guess) \in Seq(Writes)
<1>1. l \in Places /\ Default \in Places
  BY Names
<1>2. /\ Write(Auth(Default), file[Auth(l)]) \in Writes
      /\ Write(Marker(l), IdIn(l)) \in Writes /\ Write(Auth(l), Absent) \in Writes
  BY <1>1, IdFacts, WriteTypes
<1>3. CASE guess = {}
  <2>1. \A a, b, c \in Writes : <<a, b, c>> \in Seq(Writes)
    OBVIOUS
  <2> QED BY <1>2, <1>3, <2>1, MovesAre
<1>4. ASSUME NEW o \in Accounts, guess = {o} PROVE Moves(l, guess) \in Seq(Writes)
  <2>1. o \in Places
    BY Names
  <2>2. Write(Auth(o), file[Auth(Default)]) \in Writes /\ Write(Marker(o), IdIn(Default)) \in Writes
    BY <1>1, <2>1, IdFacts, WriteTypes
  <2>3. \A a, b, c, d, e \in Writes : <<a, b, c, d, e>> \in Seq(Writes)
    OBVIOUS
  <2>4. <<Write(Auth(o), file[Auth(Default)]), Write(Marker(o), IdIn(Default)),
          Write(Auth(Default), file[Auth(l)]), Write(Marker(l), IdIn(l)),
          Write(Auth(l), Absent)>> \in Seq(Writes)
    BY <1>2, <2>2, <2>3
  <2>5. Moves(l, {o}) = <<Write(Auth(o), file[Auth(Default)]), Write(Marker(o), IdIn(Default)),
                          Write(Auth(Default), file[Auth(l)]), Write(Marker(l), IdIn(l)),
                          Write(Auth(l), Absent)>>
    BY MovesAre
  <2> QED BY <1>4, <2>4, <2>5
<1> QED BY <1>3, <1>4

(***************************************************************************)
(* What the decision under the locks starts: nothing, or the first stage   *)
(* of a move.                                                              *)
(***************************************************************************)
LEMMA DecideDoes ==
  ASSUME TypeOK, LockInv, NEW s \in Switchers, Decide(s)
  PROVE  /\ ProcsTyped' /\ Acts(s) /\ kept' \subseteq kept /\ mishaps \subseteq mishaps'
         /\ mishaps' \subseteq mishaps \cup {"crossed"}
         /\ UNCHANGED <<store, troubles>>
         /\ \/ /\ pc'[s] = "idle" /\ mishaps' = mishaps /\ done'[s] = <<>>
               /\ \A q \in Places : lock[q] = s => lock'[q] = Absent
            \/ /\ pc'[s] = "move" /\ lock' = lock /\ done'[s] = <<>>
               /\ session # Absent => "crossed" \in mishaps'
               /\ lock[Default] = s
               /\ \E l \in Accounts, o \in Places, old \in Blobs \cup {Absent}, new \in Blobs :
                    /\ Given(l, o, old, new)' /\ lock[l] = s /\ lock[o] = s
                    /\ Stage(todo'[s], l, o, old, new)
                    /\ file[Auth(Default)] = old
                    /\ o # Default => file[Auth(o)] = Absent
<1>1. ProcsTyped /\ s \in Procs /\ job[s] \in Jobs /\ kept \subseteq Ids
  BY TypeParts, Names DEF ProcsTyped, RestTyped
<1> PICK l, guess, old, new :
      /\ l = job[s].label /\ guess = job[s].guess
      /\ old = file[Auth(Default)] /\ new = file[Auth(job[s].label)]
  OBVIOUS
<1>2. /\ l \in Accounts /\ guess \in {{}} \cup {{a} : a \in Accounts}
      /\ \A p \in LockDirs(l, guess) : lock[p] = s
      /\ done[s] = <<>>
  BY <1>1 DEF Decide, LockInv, SwitchLocks, Jobs
<1>3. UNCHANGED <<store, troubles>>
  BY DEF Decide
<1>4. CASE Leave(s, "idle") /\ UNCHANGED <<kept, mishaps>>
  <2>1. done'[s] = <<>>
    BY <1>1, <1>4 DEF Leave, ProcsTyped
  <2> QED BY <1>3, <1>4, <2>1, LeaveActs
<1>5. CASE ~(Leave(s, "idle") /\ UNCHANGED <<kept, mishaps>>)
  <2>1. PICK force \in BOOLEAN :
          /\ ~Refused(l, force, guess) /\ Owners # {l}
          /\ todo' = [todo EXCEPT ![s] = Moves(l, guess)]
          /\ job' = [job EXCEPT ![s] = NoJob]
          /\ Goto(s, "move")
          /\ kept' = (IF Owners = {} THEN kept \ {IdIn(Default)} ELSE kept)
          /\ mishaps' = (IF session = Absent THEN mishaps ELSE mishaps \cup {"crossed"})
          /\ UNCHANGED <<lock, done, copy, place>>
    BY <1>5 DEF Decide
  <2>2. Moves(l, guess) \in Seq(Writes)
    BY <1>2, MovesType
  <2>3. todo' \in [Switchers -> Seq(Writes)] /\ todo'[s] = Moves(l, guess)
        /\ \A x \in Switchers : x # s => todo'[x] = todo[x]
    BY <1>1, <2>1, <2>2 DEF ProcsTyped
  <2>4. job' \in [Switchers -> Jobs] /\ \A x \in Switchers : x # s => job'[x] = job[x]
    BY <2>1, JobSet, NoJobType
  <2>5. pc' \in [Procs -> Labels] /\ pc'[s] = "move" /\ \A q \in Procs : q # s => pc'[q] = pc[q]
    <3>1. "move" \in Labels
      BY DEF Labels
    <3> QED BY <1>1, <2>1, <3>1, GotoDoes
  <2>6. ProcsTyped'
    BY <1>1, <2>1, <2>3, <2>4, <2>5 DEF ProcsTyped
  <2>7. Acts(s)
    BY <2>1, <2>3, <2>4, <2>5 DEF Acts
  <2>8. /\ kept' \subseteq kept /\ mishaps \subseteq mishaps'
        /\ mishaps' \subseteq mishaps \cup {"crossed"}
        /\ session # Absent => "crossed" \in mishaps'
    BY <2>1
  <2>9. /\ Distinct /\ Owners = guess
        /\ Owners = {} /\ file[Auth(Default)] # Absent => force
        /\ file[Auth(l)] # Absent
        /\ \A a \in Owners : file[Auth(a)] = Absent
    BY <2>1 DEF Refused
  <2>10. l \in Places /\ Default \in Places /\ l # Default
    BY <1>2, Names
  <2>11. /\ old \in Blobs \cup {Absent} /\ new \in Blobs /\ IdIn(l) = new.id
         /\ old # Absent => IdIn(Default) = old.id
    BY <2>9, <2>10, IdFacts
  <2>12. old # Absent => old.id # new.id
    <3> SUFFICES ASSUME old # Absent, old.id = new.id PROVE FALSE
      OBVIOUS
    <3>1. Identity(l) = IdIn(Default) /\ IdIn(Default) # Absent
      BY <2>11, Names, BlobFields DEF Identity
    <3>2. l \in Owners
      BY <1>2, <3>1 DEF Owners
    <3>3. \A a \in Owners : a = l
      BY <1>2, <2>9, <3>1 DEF Owners, Distinct
    <3> QED BY <2>1, <3>2, <3>3
  <2>13. lock[Default] = s /\ lock[l] = s
    BY <1>2 DEF LockDirs
  <2>14. CASE guess = {}
    <3>1. Given(l, Default, old, new)'
      <4>1. old # Absent => old.id \notin kept'
        BY <2>1, <2>9, <2>11, <2>14
      <4> QED BY <2>10, <2>12, <4>1 DEF Given
    <3>2. todo'[s] = <<Write(Auth(Default), new), Write(Marker(l), new.id), Write(Auth(l), Absent)>>
      BY <1>2, <2>3, <2>11, <2>14, MovesAre
    <3>3. Stage(todo'[s], l, Default, old, new)
      BY <3>2 DEF Stage
    <3> QED BY <1>2, <1>3, <2>1, <2>5, <2>6, <2>7, <2>8, <2>10, <2>11, <2>13, <3>1, <3>3
  <2>15. ASSUME NEW o \in Accounts, guess = {o}
         PROVE  /\ Given(l, o, old, new)' /\ lock[o] = s /\ o \in Places
                /\ Stage(todo'[s], l, o, old, new)
                /\ file[Auth(o)] = Absent
    <3>1. o \in Places /\ o # Default /\ lock[o] = s
      BY <1>2, <2>15, Names DEF LockDirs
    <3>2. o # l /\ file[Auth(o)] = Absent /\ old # Absent
      <4>1. o \in Owners
        BY <2>9, <2>15
      <4>2. IdIn(Default) # Absent
        BY <4>1 DEF Owners
      <4>3. o # l
        BY <2>1, <2>9, <2>15
      <4> QED BY <2>9, <2>10, <4>1, <4>2, <4>3, IdFacts
    <3>3. Given(l, o, old, new)'
      BY <2>10, <2>12, <3>1, <3>2 DEF Given
    <3>4. todo'[s] = <<Write(Auth(o), old), Write(Marker(o), old.id), Write(Auth(Default), new),
                       Write(Marker(l), new.id), Write(Auth(l), Absent)>>
      BY <1>2, <2>3, <2>11, <2>15, <3>2, MovesAre
    <3>5. Stage(todo'[s], l, o, old, new)
      BY <3>2, <3>4 DEF Stage
    <3> QED BY <3>1, <3>2, <3>3, <3>5
  <2>16. CASE guess # {}
    <3>1. PICK o \in Accounts : guess = {o}
      BY <1>2, <2>16
    <3>2. /\ Given(l, o, old, new)' /\ lock[o] = s /\ o \in Places
          /\ Stage(todo'[s], l, o, old, new) /\ file[Auth(o)] = Absent
      BY <2>15, <3>1
    <3> QED BY <1>2, <1>3, <2>1, <2>5, <2>6, <2>7, <2>8, <2>11, <2>13, <3>2
  <2> QED BY <2>14, <2>16
<1> QED BY <1>4, <1>5

LEMMA ListStep ==
  ASSUME NEW u \in Seq(Writes), u # <<>>
  PROVE  /\ Head(u) \in Writes /\ Tail(u) \in Seq(Writes)
         /\ DOMAIN u = 1 .. Len(u) /\ Len(u) \in Nat /\ Len(u) >= 1
         /\ DOMAIN Tail(u) = 1 .. Len(u) - 1
         /\ \A k \in DOMAIN Tail(u) : k + 1 \in DOMAIN u /\ Tail(u)[k] = u[k + 1]
         /\ \A k \in DOMAIN u : k = 1 \/ k - 1 \in DOMAIN Tail(u)
         /\ u[1] = Head(u) /\ 1 \in DOMAIN u
<1>1. Len(u) \in Nat /\ Len(u) >= 1 /\ DOMAIN u = 1 .. Len(u)
  OBVIOUS
<1>2. Head(u) \in Writes /\ Head(u) = u[1]
  BY <1>1
<1>3. Tail(u) \in Seq(Writes) /\ Len(Tail(u)) = Len(u) - 1
  BY <1>1
<1>4. DOMAIN Tail(u) = 1 .. Len(u) - 1
  BY <1>1, <1>3
<1>5. \A k \in 1 .. Len(u) - 1 : Tail(u)[k] = u[k + 1]
  BY <1>1
<1> QED BY <1>1, <1>2, <1>3, <1>4, <1>5

LEMMA TailsAre ==
  ASSUME NEW w1, NEW w2, NEW w3, NEW w4, NEW w5
  PROVE  /\ Head(<<w1, w2, w3, w4, w5>>) = w1
         /\ Tail(<<w1, w2, w3, w4, w5>>) = <<w2, w3, w4, w5>>
         /\ Head(<<w2, w3, w4, w5>>) = w2 /\ Tail(<<w2, w3, w4, w5>>) = <<w3, w4, w5>>
         /\ Head(<<w3, w4, w5>>) = w3 /\ Tail(<<w3, w4, w5>>) = <<w4, w5>>
         /\ Head(<<w4, w5>>) = w4 /\ Tail(<<w4, w5>>) = <<w5>>
         /\ Head(<<w5>>) = w5 /\ Tail(<<w5>>) = <<>>
<1> DEFINE S == {w1, w2, w3, w4, w5}
<1>1. /\ <<w5>> \in Seq(S) /\ <<w4, w5>> \in Seq(S) /\ <<w3, w4, w5>> \in Seq(S)
      /\ <<w2, w3, w4, w5>> \in Seq(S) /\ <<w1, w2, w3, w4, w5>> \in Seq(S)
  OBVIOUS
<1>2. Head(<<w1, w2, w3, w4, w5>>) = w1 /\ Head(<<w2, w3, w4, w5>>) = w2
  BY <1>1
<1>3. Head(<<w3, w4, w5>>) = w3 /\ Head(<<w4, w5>>) = w4 /\ Head(<<w5>>) = w5
  BY <1>1
<1>4. Tail(<<w1, w2, w3, w4, w5>>) = <<w2, w3, w4, w5>>
  BY <1>1
<1>5. Tail(<<w2, w3, w4, w5>>) = <<w3, w4, w5>>
  BY <1>1
<1>6. Tail(<<w3, w4, w5>>) = <<w4, w5>>
  BY <1>1
<1>7. Tail(<<w4, w5>>) = <<w5>>
  BY <1>1
<1>8. Tail(<<w5>>) = <<>>
  BY <1>1
<1> HIDE DEF S
<1> QED BY <1>2, <1>3, <1>4, <1>5, <1>6, <1>7, <1>8

(***************************************************************************)
(* The journal after one more write: what it covers, and in which order.   *)
(***************************************************************************)
Noted(d, f) == IF Covers(d, f) THEN d ELSE Append(d, Write(f, file[f]))

LEMMA NotedIs ==
  ASSUME TypeOK, NEW d \in Seq(Writes), NEW f \in Files
  PROVE  /\ Noted(d, f) \in Seq(Writes)
         /\ \A g : Covers(Noted(d, f), g) <=> Covers(d, g) \/ g = f
         /\ \A k \in DOMAIN Noted(d, f) :
              \/ k \in DOMAIN d /\ Noted(d, f)[k] = d[k]
              \/ /\ Noted(d, f)[k] = Write(f, file[f]) /\ ~Covers(d, f)
                 /\ \A i \in DOMAIN d : i < k
<1>1. Write(f, file[f]) \in Writes
  <2>1. CASE \E p \in Places : f = Auth(p)
    BY <2>1, IdFacts, WriteTypes
  <2>2. CASE \E a \in Accounts : f = Marker(a)
    BY <2>2, WriteTypes DEF TypeOK
  <2> QED BY <2>1, <2>2, FileNames
<1>2. CASE Covers(d, f)
  <2>1. Noted(d, f) = d
    BY <1>2 DEF Noted
  <2> QED BY <1>2, <2>1
<1>3. CASE ~Covers(d, f)
  <2> DEFINE w == Write(f, file[f])
  <2>1. Noted(d, f) = Append(d, w)
    BY <1>3 DEF Noted
  <2>2. w.file = f
    BY WriteTypes
  <2> HIDE DEF w
  <2>3. w \in Writes
    BY <1>1 DEF w
  <2>4. /\ Append(d, w) \in Seq(Writes) /\ Len(d) \in Nat
        /\ DOMAIN d = 1 .. Len(d) /\ DOMAIN Append(d, w) = 1 .. Len(d) + 1
        /\ \A k \in 1 .. Len(d) : Append(d, w)[k] = d[k]
        /\ Append(d, w)[Len(d) + 1] = w
    BY <2>3
  <2>5. \A k \in DOMAIN Append(d, w) :
          (k \in DOMAIN d /\ Append(d, w)[k] = d[k])
          \/ (k = Len(d) + 1 /\ Append(d, w)[k] = w /\ \A i \in DOMAIN d : i < k)
    BY <2>4
  <2>6. \A g : Covers(Append(d, w), g) <=> Covers(d, g) \/ g = f
    <3>1. \A g : Covers(Append(d, w), g) => Covers(d, g) \/ g = f
      BY <2>2, <2>5 DEF Covers
    <3>2. Covers(Append(d, w), f)
      <4>1. Len(d) + 1 \in DOMAIN Append(d, w)
        BY <2>4
      <4> QED BY <2>2, <2>4, <4>1 DEF Covers
    <3>3. \A g : Covers(d, g) => Covers(Append(d, w), g)
      <4>1. \A k \in DOMAIN d : k \in DOMAIN Append(d, w) /\ Append(d, w)[k] = d[k]
        BY <2>4
      <4> QED BY <4>1 DEF Covers
    <3> QED BY <3>1, <3>2, <3>3
  <2> QED BY <1>3, <2>1, <2>4, <2>5, <2>6 DEF w
<1> QED BY <1>2, <1>3

LEMMA RememberedIs ==
  ASSUME NEW s
  PROVE  Remembered(s) = Noted(done[s], Head(todo[s]).file)
BY DEF Remembered, Noted, Covers

LEMMA HeadFile ==
  ASSUME TypeOK, NEW s \in Switchers, todo[s] # <<>>
  PROVE  /\ Head(todo[s]) \in Writes /\ Head(todo[s]).file \in Files
         /\ Tail(todo[s]) \in Seq(Writes) /\ todo[s] \in Seq(Writes) /\ done[s] \in Seq(Writes)
<1>1. todo[s] \in Seq(Writes) /\ done[s] \in Seq(Writes)
  BY TypeParts DEF ProcsTyped
<1>2. Head(todo[s]) \in Writes /\ Tail(todo[s]) \in Seq(Writes)
  BY <1>1, ListStep
<1> QED BY <1>1, <1>2, WriteFields, FileNames

(***************************************************************************)
(* A file that may be written next: what the journal says of it is what    *)
(* the rollback has to put back.                                           *)
(***************************************************************************)
Due(f, d, l, o, old, new) ==
  /\ f = Auth(Default) => file[f] = old
  /\ f = Auth(l) => file[f] = new
  /\ o # Default /\ f = Auth(o) => file[f] = Absent /\ ~Covers(d, Auth(Default))
  /\ \A p \in Elsewhere(l, o) : f # Auth(p)

LEMMA NotedOk ==
  ASSUME TypeOK, NEW l \in Accounts, NEW o \in Places, NEW old, NEW new,
         NEW d \in Seq(Writes), NEW f \in Files, NEW d2, d2 = Noted(d, f),
         Puts(d, l, o, old, new), InOrder(d, o), Due(f, d, l, o, old, new)
  PROVE  Puts(d2, l, o, old, new) /\ InOrder(d2, o)
<1>1. /\ d2 \in Seq(Writes)
      /\ \A k \in DOMAIN d2 :
           \/ k \in DOMAIN d /\ d2[k] = d[k]
           \/ /\ d2[k].file = f /\ d2[k].to = file[f]
              /\ \A i \in DOMAIN d : i < k
  BY NotedIs, WriteTypes
<1>2. \A k \in DOMAIN d2 : k \in Nat
  BY <1>1
<1>3. Puts(d2, l, o, old, new)
  <2> SUFFICES ASSUME NEW k \in DOMAIN d2
               PROVE  /\ d2[k].file = Auth(Default) => d2[k].to = old
                      /\ d2[k].file = Auth(l) => d2[k].to = new
                      /\ o # Default /\ d2[k].file = Auth(o) => d2[k].to = Absent
                      /\ \A p \in Elsewhere(l, o) : d2[k].file # Auth(p)
    BY DEF Puts
  <2>1. CASE k \in DOMAIN d /\ d2[k] = d[k]
    BY <2>1 DEF Puts
  <2>2. CASE d2[k].file = f /\ d2[k].to = file[f]
    BY <2>2 DEF Due
  <2> QED BY <1>1, <2>1, <2>2
<1>4. InOrder(d2, o)
  <2> SUFFICES ASSUME o # Default, NEW i \in DOMAIN d2, NEW j \in DOMAIN d2,
                      d2[i].file = Auth(o), d2[j].file = Auth(Default)
               PROVE  i < j
    BY DEF InOrder
  <2>1. Auth(o) # Auth(Default)
    BY FileNames
  <2>2. CASE j \in DOMAIN d /\ d2[j] = d[j]
    <3>1. Covers(d, Auth(Default))
      BY <2>2 DEF Covers
    <3>2. f # Auth(o)
      BY <3>1 DEF Due
    <3>3. i \in DOMAIN d /\ d2[i] = d[i]
      BY <1>1, <3>2
    <3> QED BY <2>2, <3>3 DEF InOrder
  <2>3. CASE d2[j].file = f /\ \A k \in DOMAIN d : k < j
    <3>1. f # Auth(o)
      BY <2>1, <2>3
    <3>2. i \in DOMAIN d
      BY <1>1, <3>1
    <3> QED BY <2>3, <3>2
  <2> QED BY <1>1, <2>2, <2>3
<1> QED BY <1>3, <1>4

LEMMA JournalGrows ==
  ASSUME TypeOK, NEW l \in Accounts, NEW o \in Places, NEW old, NEW new,
         NEW d \in Seq(Writes), NEW f \in Files, NEW c, NEW d2, d2 = Noted(d, f),
         file' = [file EXCEPT ![f] = c],
         Journalled(d, l, o, old, new), InOrder(d, o), Due(f, d, l, o, old, new),
         f = Auth(Default) => c # old,
         file[Auth(Default)] = old => ~Covers(d, Auth(Default))
  PROVE  /\ Journalled(d2, l, o, old, new)' /\ InOrder(d2, o)
         /\ file'[Auth(Default)] = old => ~Covers(d2, Auth(Default))
<1>1. \A g : Covers(d2, g) <=> Covers(d, g) \/ g = f
  BY NotedIs
<1>2. Puts(d2, l, o, old, new) /\ InOrder(d2, o)
  BY NotedOk DEF Journalled
<1>3. \A g \in Files : file'[g] = IF g = f THEN c ELSE file[g]
  BY DEF TypeOK
<1>4. Auth(Default) \in Files /\ Auth(o) \in Files
  BY Names, FileNames
<1>5. file'[Auth(Default)] = old \/ Covers(d2, Auth(Default))
  BY <1>1, <1>3, <1>4 DEF Journalled
<1>6. o # Default => file'[Auth(o)] = Absent \/ Covers(d2, Auth(o))
  BY <1>1, <1>3, <1>4 DEF Journalled
<1>7. file'[Auth(Default)] = old => ~Covers(d2, Auth(Default))
  BY <1>1, <1>3, <1>4
<1> QED BY <1>2, <1>5, <1>6, <1>7 DEF Journalled

LEMMA Reversed ==
  ASSUME NEW u \in Seq(Writes), NEW o
  PROVE  /\ Reverse(u) \in Seq(Writes)
         /\ \A f : Covers(Reverse(u), f) <=> Covers(u, f)
         /\ \A l, old, new : Puts(u, l, o, old, new) => Puts(Reverse(u), l, o, old, new)
         /\ InOrder(u, o) => InReverse(Reverse(u), o)
<1>1. Len(u) \in Nat /\ DOMAIN u = 1 .. Len(u)
  OBVIOUS
<1>2. Reverse(u) = [i \in 1 .. Len(u) |-> u[(Len(u) - i) + 1]]
  BY DEF Reverse
<1>3. DOMAIN Reverse(u) = 1 .. Len(u)
  BY <1>2
<1>4. \A i \in 1 .. Len(u) : Len(u) - i + 1 \in 1 .. Len(u) /\ Reverse(u)[i] = u[Len(u) - i + 1]
  BY <1>1, <1>2
<1>5. Reverse(u) \in Seq(Writes)
  <2>1. \A i \in 1 .. Len(u) : u[i] \in Writes
    BY <1>1
  <2>2. Reverse(u) \in [1 .. Len(u) -> Writes]
    BY <1>2, <1>4, <2>1
  <2> QED BY <1>1, <2>2
<1>6. \A f : Covers(Reverse(u), f) <=> Covers(u, f)
  <2>1. \A f : Covers(Reverse(u), f) => Covers(u, f)
    BY <1>1, <1>3, <1>4 DEF Covers
  <2>2. ASSUME NEW f, Covers(u, f) PROVE Covers(Reverse(u), f)
    <3>1. PICK k \in 1 .. Len(u) : u[k].file = f
      BY <1>1, <2>2 DEF Covers
    <3>2. Len(u) - k + 1 \in 1 .. Len(u) /\ Len(u) - (Len(u) - k + 1) + 1 = k
      BY <1>1
    <3>3. Reverse(u)[Len(u) - k + 1] = u[k]
      BY <1>4, <3>2
    <3> QED BY <1>3, <3>1, <3>2, <3>3 DEF Covers
  <2> QED BY <2>1, <2>2
<1>7. \A l, old, new : Puts(u, l, o, old, new) => Puts(Reverse(u), l, o, old, new)
  BY <1>1, <1>3, <1>4 DEF Puts
<1>8. ASSUME InOrder(u, o) PROVE InReverse(Reverse(u), o)
  <2> SUFFICES ASSUME o # Default, NEW i \in 1 .. Len(u), NEW j \in 1 .. Len(u),
                      Reverse(u)[i].file = Auth(Default), Reverse(u)[j].file = Auth(o)
               PROVE  i < j
    BY <1>3 DEF InReverse
  <2>1. Len(u) - j + 1 < Len(u) - i + 1
    BY <1>1, <1>4, <1>8 DEF InOrder
  <2> QED BY <1>1, <2>1
<1> QED BY <1>5, <1>6, <1>7, <1>8

LEMMA Written ==
  ASSUME TypeOK, NEW w \in Writes, file' = [file EXCEPT ![w.file] = w.to]
  PROVE  /\ FilesTyped'
         /\ \A g \in Files : file'[g] = IF g = w.file THEN w.to ELSE file[g]
         /\ \A p \in Places : w.file # Auth(p) => file'[Auth(p)] = file[Auth(p)] /\ IdIn(p)' = IdIn(p)
<1>1. FilesTyped'
  <2>1. ASSUME NEW p \in Places, w.file = Auth(p), w.to \in Blobs \cup {Absent}
        PROVE  FilesTyped'
    BY <2>1, AuthWritten
  <2>2. ASSUME NEW a \in Accounts, w.file = Marker(a), w.to \in Ids \cup {Absent}
        PROVE  FilesTyped'
    BY <2>2, MarkerWritten
  <2> QED BY <2>1, <2>2, WriteFields
<1>2. \A g \in Files : file'[g] = IF g = w.file THEN w.to ELSE file[g]
  BY DEF TypeOK
<1>3. \A p \in Places : w.file # Auth(p) => file'[Auth(p)] = file[Auth(p)]
  BY <1>2, FileNames
<1>4. \A p \in Places : w.file # Auth(p) => IdIn(p)' = IdIn(p)
  BY <1>3 DEF IdIn
<1> QED BY <1>1, <1>2, <1>3, <1>4

LEMMA StageDue ==
  ASSUME TypeOK, NEW l \in Accounts, NEW o \in Places,
         NEW old \in Blobs \cup {Absent}, NEW new \in Blobs, Given(l, o, old, new),
         NEW t, t # <<>>, Stage(t, l, o, old, new),
         NEW d, file[Auth(Default)] = old => ~Covers(d, Auth(Default)),
         NEW h \in Writes, h = Head(t)
  PROVE  /\ Due(h.file, d, l, o, old, new)
         /\ h.file = Auth(Default) => h.to # old
         /\ \A p \in Elsewhere(l, o) : h.file # Auth(p)
<1> DEFINE wo == Write(Auth(o), old)
           mo == Write(Marker(o), old.id)
           wd == Write(Auth(Default), new)
           ml == Write(Marker(l), new.id)
           wl == Write(Auth(l), Absent)
           saved == o # Default => file[Auth(o)] = old
           live == file[Auth(Default)]
<1>1. /\ l \in Places /\ Default \in Places /\ l # Default /\ o # l
      /\ o # Default => old # Absent
      /\ old # new
  BY Names, BlobFields DEF Given
<1>2. /\ wo.file = Auth(o) /\ wo.to = old /\ mo.file = Marker(o) /\ wd.file = Auth(Default)
      /\ wd.to = new /\ ml.file = Marker(l) /\ wl.file = Auth(l) /\ wl.to = Absent
  BY WriteTypes
<1>4. /\ Auth(o) \in Files /\ Auth(l) \in Files /\ Auth(Default) \in Files
      /\ Auth(l) # Auth(Default) /\ Auth(o) # Auth(l)
      /\ o # Default => Auth(o) # Auth(Default)
      /\ \A p \in Elsewhere(l, o) : Auth(p) # Auth(l) /\ Auth(p) # Auth(o) /\ Auth(p) # Auth(Default)
  BY <1>1, FileNames DEF Elsewhere
<1>5. \A p, a : Auth(p) # Marker(a)
  BY FileNames
<1>6. Stage(t, l, o, old, new) <=>
        \/ o \in Accounts /\ t = <<wo, mo, wd, ml, wl>> /\ file[Auth(o)] = Absent /\ live = old
           /\ file[Auth(l)] = new
        \/ o \in Accounts /\ t = <<mo, wd, ml, wl>> /\ saved /\ live = old /\ file[Auth(l)] = new
        \/ t = <<wd, ml, wl>> /\ saved /\ live = old /\ file[Auth(l)] = new
        \/ t = <<ml, wl>> /\ saved /\ live = new /\ file[Auth(l)] = new
        \/ t = <<wl>> /\ saved /\ live = new /\ file[Auth(l)] = new
        \/ t = <<>> /\ saved /\ live = new /\ file[Auth(l)] = Absent
  BY DEF Stage
<1> HIDE DEF wo, mo, wd, ml, wl
<1>8. CASE o \in Accounts /\ t = <<wo, mo, wd, ml, wl>> /\ file[Auth(o)] = Absent /\ live = old
           /\ file[Auth(l)] = new
  <2>1. h = wo
    BY <1>8, TailsAre
  <2>2. o # Default
    BY <1>8, Names
  <2> QED BY <1>2, <1>4, <1>8, <2>1, <2>2 DEF Due
<1>9. CASE o \in Accounts /\ t = <<mo, wd, ml, wl>> /\ saved /\ live = old /\ file[Auth(l)] = new
  <2>1. h = mo
    BY <1>9, TailsAre
  <2> QED BY <1>2, <1>5, <2>1 DEF Due
<1>10. CASE t = <<wd, ml, wl>> /\ saved /\ live = old /\ file[Auth(l)] = new
  <2>1. h = wd
    BY <1>10, TailsAre
  <2> QED BY <1>1, <1>2, <1>4, <1>10, <2>1 DEF Due
<1>11. CASE t = <<ml, wl>> /\ saved /\ live = new /\ file[Auth(l)] = new
  <2>1. h = ml
    BY <1>11, TailsAre
  <2> QED BY <1>2, <1>5, <2>1 DEF Due
<1>12. CASE t = <<wl>> /\ saved /\ live = new /\ file[Auth(l)] = new
  <2>1. h = wl
    BY <1>12, TailsAre
  <2> QED BY <1>1, <1>2, <1>4, <1>12, <2>1 DEF Due
<1> QED BY <1>6, <1>8, <1>9, <1>10, <1>11, <1>12

LEMMA StageMoves ==
  ASSUME TypeOK, NEW l \in Accounts, NEW o \in Places,
         NEW old \in Blobs \cup {Absent}, NEW new \in Blobs, Given(l, o, old, new),
         NEW t, t # <<>>, Stage(t, l, o, old, new),
         NEW h \in Writes, h = Head(t), NEW t2, t2 = Tail(t),
         file' = [file EXCEPT ![h.file] = h.to]
  PROVE  Stage(t2, l, o, old, new)'
<1> DEFINE wo == Write(Auth(o), old)
           mo == Write(Marker(o), old.id)
           wd == Write(Auth(Default), new)
           ml == Write(Marker(l), new.id)
           wl == Write(Auth(l), Absent)
           saved == o # Default => file[Auth(o)] = old
           live == file[Auth(Default)]
<1>1. /\ l \in Places /\ Default \in Places /\ l # Default /\ o # l
      /\ o # Default => old # Absent
      /\ old # new
  BY Names, BlobFields DEF Given
<1>2. /\ wo.file = Auth(o) /\ wo.to = old /\ mo.file = Marker(o) /\ wd.file = Auth(Default)
      /\ wd.to = new /\ ml.file = Marker(l) /\ wl.file = Auth(l) /\ wl.to = Absent
  BY WriteTypes
<1>3. \A g \in Files : file'[g] = IF g = h.file THEN h.to ELSE file[g]
  BY Written
<1>4. /\ Auth(o) \in Files /\ Auth(l) \in Files /\ Auth(Default) \in Files
      /\ Auth(l) # Auth(Default) /\ Auth(o) # Auth(l)
      /\ o # Default => Auth(o) # Auth(Default)
  BY <1>1, FileNames
<1>5. \A p, a : Auth(p) # Marker(a)
  BY FileNames
<1>6. Stage(t, l, o, old, new) <=>
        \/ o \in Accounts /\ t = <<wo, mo, wd, ml, wl>> /\ file[Auth(o)] = Absent /\ live = old
           /\ file[Auth(l)] = new
        \/ o \in Accounts /\ t = <<mo, wd, ml, wl>> /\ saved /\ live = old /\ file[Auth(l)] = new
        \/ t = <<wd, ml, wl>> /\ saved /\ live = old /\ file[Auth(l)] = new
        \/ t = <<ml, wl>> /\ saved /\ live = new /\ file[Auth(l)] = new
        \/ t = <<wl>> /\ saved /\ live = new /\ file[Auth(l)] = new
        \/ t = <<>> /\ saved /\ live = new /\ file[Auth(l)] = Absent
  BY DEF Stage
<1>7. Stage(t2, l, o, old, new)' <=>
        \/ o \in Accounts /\ t2 = <<wo, mo, wd, ml, wl>> /\ file'[Auth(o)] = Absent /\ live' = old
           /\ file'[Auth(l)] = new
        \/ o \in Accounts /\ t2 = <<mo, wd, ml, wl>> /\ saved' /\ live' = old /\ file'[Auth(l)] = new
        \/ t2 = <<wd, ml, wl>> /\ saved' /\ live' = old /\ file'[Auth(l)] = new
        \/ t2 = <<ml, wl>> /\ saved' /\ live' = new /\ file'[Auth(l)] = new
        \/ t2 = <<wl>> /\ saved' /\ live' = new /\ file'[Auth(l)] = new
        \/ t2 = <<>> /\ saved' /\ live' = new /\ file'[Auth(l)] = Absent
  BY DEF Stage
<1> HIDE DEF wo, mo, wd, ml, wl
<1>8. CASE o \in Accounts /\ t = <<wo, mo, wd, ml, wl>> /\ file[Auth(o)] = Absent /\ live = old
           /\ file[Auth(l)] = new
  <2>1. h = wo /\ t2 = <<mo, wd, ml, wl>>
    BY <1>8, TailsAre
  <2>2. o # Default
    BY <1>8, Names
  <2>3. file'[Auth(o)] = old /\ live' = old /\ file'[Auth(l)] = new
    BY <1>2, <1>3, <1>4, <1>8, <2>1, <2>2
  <2> QED BY <1>7, <1>8, <2>1, <2>3
<1>9. CASE o \in Accounts /\ t = <<mo, wd, ml, wl>> /\ saved /\ live = old /\ file[Auth(l)] = new
  <2>1. h = mo /\ t2 = <<wd, ml, wl>>
    BY <1>9, TailsAre
  <2>2. saved' /\ live' = old /\ file'[Auth(l)] = new
    BY <1>2, <1>3, <1>4, <1>5, <1>9, <2>1
  <2> QED BY <1>7, <2>1, <2>2
<1>10. CASE t = <<wd, ml, wl>> /\ saved /\ live = old /\ file[Auth(l)] = new
  <2>1. h = wd /\ t2 = <<ml, wl>>
    BY <1>10, TailsAre
  <2>2. saved' /\ live' = new /\ file'[Auth(l)] = new
    BY <1>2, <1>3, <1>4, <1>10, <2>1
  <2> QED BY <1>7, <2>1, <2>2
<1>11. CASE t = <<ml, wl>> /\ saved /\ live = new /\ file[Auth(l)] = new
  <2>1. h = ml /\ t2 = <<wl>>
    BY <1>11, TailsAre
  <2>2. saved' /\ live' = new /\ file'[Auth(l)] = new
    BY <1>2, <1>3, <1>4, <1>5, <1>11, <2>1
  <2> QED BY <1>7, <2>1, <2>2
<1>12. CASE t = <<wl>> /\ saved /\ live = new /\ file[Auth(l)] = new
  <2>1. h = wl /\ t2 = <<>>
    BY <1>12, TailsAre
  <2>2. saved' /\ live' = new /\ file'[Auth(l)] = Absent
    BY <1>2, <1>3, <1>4, <1>12, <2>1
  <2> QED BY <1>7, <2>1, <2>2
<1> QED BY <1>6, <1>8, <1>9, <1>10, <1>11, <1>12

(***************************************************************************)
(* A write of a move.                                                      *)
(***************************************************************************)
LEMMA MoveTypes ==
  ASSUME TypeOK, NEW s \in Switchers, Move(s)
  PROVE  /\ ProcsTyped' /\ FilesTyped' /\ Acts(s) /\ pc[s] = "move" /\ todo[s] # <<>>
         /\ UNCHANGED <<lock, pc, job, copy, place, cache, issued, session, history>>
         /\ todo'[s] = Tail(todo[s]) /\ done'[s] = Noted(done[s], Head(todo[s]).file)
         /\ file' = [file EXCEPT ![Head(todo[s]).file] = Head(todo[s]).to]
<1>1. /\ ProcsTyped /\ todo[s] # <<>>
  BY TypeParts DEF Move
<1>2. /\ Head(todo[s]) \in Writes /\ Head(todo[s]).file \in Files
      /\ Tail(todo[s]) \in Seq(Writes) /\ done[s] \in Seq(Writes)
  BY <1>1, HeadFile
<1>3. /\ file' = [file EXCEPT ![Head(todo[s]).file] = Head(todo[s]).to]
      /\ done' = [done EXCEPT ![s] = Noted(done[s], Head(todo[s]).file)]
      /\ todo' = [todo EXCEPT ![s] = Tail(todo[s])]
      /\ UNCHANGED <<lock, pc, job, copy, place, cache, issued, session, history>>
  <2>1. todo' = [todo EXCEPT ![s] = Tail(todo[s])]
    BY DEF Move
  <2>2. done' = [done EXCEPT ![s] = Noted(done[s], Head(todo[s]).file)]
    BY RememberedIs DEF Move
  <2> QED BY <2>1, <2>2 DEF Move
<1>4. FilesTyped'
  BY <1>2, <1>3, Written
<1>5. Noted(done[s], Head(todo[s]).file) \in Seq(Writes)
  BY <1>2, NotedIs
<1>6. /\ done' \in [Switchers -> Seq(Writes)] /\ done'[s] = Noted(done[s], Head(todo[s]).file)
      /\ \A x \in Switchers : x # s => done'[x] = done[x]
  BY <1>1, <1>3, <1>5 DEF ProcsTyped
<1>7. /\ todo' \in [Switchers -> Seq(Writes)] /\ todo'[s] = Tail(todo[s])
      /\ \A x \in Switchers : x # s => todo'[x] = todo[x]
  BY <1>1, <1>2, <1>3 DEF ProcsTyped
<1>8. ProcsTyped'
  BY <1>1, <1>3, <1>6, <1>7 DEF ProcsTyped
<1>9. Acts(s)
  BY <1>3, <1>6, <1>7 DEF Acts
<1>10. pc[s] = "move"
  BY DEF Move
<1> QED BY <1>1, <1>3, <1>4, <1>6, <1>7, <1>8, <1>9, <1>10

LEMMA MoveStages ==
  ASSUME TypeOK, NEW s \in Switchers, Move(s), NEW l \in Accounts, NEW o \in Places,
         NEW old \in Blobs \cup {Absent}, NEW new \in Blobs, Given(l, o, old, new),
         Stage(todo[s], l, o, old, new), Journalled(done[s], l, o, old, new),
         InOrder(done[s], o),
         file[Auth(Default)] = old => ~Covers(done[s], Auth(Default))
  PROVE  /\ (Stage(todo[s], l, o, old, new) /\ Journalled(done[s], l, o, old, new))'
         /\ (InOrder(done[s], o) /\ (file[Auth(Default)] = old => ~Covers(done[s], Auth(Default))))'
         /\ \A p \in Elsewhere(l, o) : file'[Auth(p)] = file[Auth(p)] /\ IdIn(p)' = IdIn(p)
<1>1. PICK t, d, h, t2, d2 :
        /\ t = todo[s] /\ d = done[s] /\ h = Head(todo[s]) /\ t2 = todo'[s] /\ d2 = done'[s]
  OBVIOUS
<1>2. /\ t # <<>> /\ t2 = Tail(t) /\ d2 = Noted(d, h.file)
      /\ file' = [file EXCEPT ![h.file] = h.to]
  BY <1>1, MoveTypes
<1>3. h \in Writes /\ h.file \in Files /\ d \in Seq(Writes)
  BY <1>1, <1>2, HeadFile
<1>4. /\ Due(h.file, d, l, o, old, new)
      /\ h.file = Auth(Default) => h.to # old
      /\ \A p \in Elsewhere(l, o) : h.file # Auth(p)
  BY <1>1, <1>2, <1>3, StageDue
<1>5. Stage(t2, l, o, old, new)'
  BY <1>1, <1>2, <1>3, StageMoves
<1>6. /\ Journalled(d2, l, o, old, new)' /\ InOrder(d2, o)
      /\ file'[Auth(Default)] = old => ~Covers(d2, Auth(Default))
  BY <1>1, <1>2, <1>3, <1>4, JournalGrows
<1>7. Stage(todo[s], l, o, old, new)'
  BY <1>1, <1>5
<1>8. Journalled(done[s], l, o, old, new)' /\ InOrder(done[s], o)'
  BY <1>1, <1>6
<1>9. (file[Auth(Default)] = old => ~Covers(done[s], Auth(Default)))'
  BY <1>1, <1>6
<1>10. \A p \in Elsewhere(l, o) : file'[Auth(p)] = file[Auth(p)] /\ IdIn(p)' = IdIn(p)
  BY <1>2, <1>3, <1>4, Written DEF Elsewhere
<1> QED BY <1>7, <1>8, <1>9, <1>10

(***************************************************************************)
(* A write that fails, and what the rollback finds.                        *)
(***************************************************************************)
LEMMA MoveFailsTypes ==
  ASSUME TypeOK, NEW s \in Switchers, MoveFails(s)
  PROVE  /\ ProcsTyped' /\ Acts(s) /\ pc[s] = "move" /\ pc'[s] = "undo" /\ todo[s] # <<>>
         /\ UNCHANGED <<store, lock, job, copy, place, kept, mishaps>>
         /\ todo'[s] = Reverse(Noted(done[s], Head(todo[s]).file)) /\ done'[s] = <<>>
<1>1. ProcsTyped /\ todo[s] # <<>> /\ pc[s] = "move" /\ s \in Procs
  BY TypeParts, Names DEF MoveFails
<1>2. Head(todo[s]).file \in Files /\ done[s] \in Seq(Writes)
  BY <1>1, HeadFile
<1> DEFINE u == Reverse(Noted(done[s], Head(todo[s]).file))
<1>3. /\ todo' = [todo EXCEPT ![s] = u] /\ done' = [done EXCEPT ![s] = <<>>]
      /\ Goto(s, "undo") /\ UNCHANGED <<store, lock, job, copy, place, kept, mishaps>>
  BY RememberedIs DEF MoveFails
<1>4. u \in Seq(Writes) /\ <<>> \in Seq(Writes)
  <2>1. Noted(done[s], Head(todo[s]).file) \in Seq(Writes)
    BY <1>2, NotedIs
  <2>2. \A x \in Seq(Writes) : Reverse(x) \in Seq(Writes)
    BY Reversed
  <2> QED BY <2>1, <2>2
<1> HIDE DEF u
<1>5. /\ todo' \in [Switchers -> Seq(Writes)] /\ todo'[s] = u
      /\ \A x \in Switchers : x # s => todo'[x] = todo[x]
  BY <1>1, <1>3, <1>4 DEF ProcsTyped
<1>6. /\ done' \in [Switchers -> Seq(Writes)] /\ done'[s] = <<>>
      /\ \A x \in Switchers : x # s => done'[x] = done[x]
  BY <1>1, <1>3, <1>4 DEF ProcsTyped
<1>7. pc' \in [Procs -> Labels] /\ pc'[s] = "undo" /\ \A q \in Procs : q # s => pc'[q] = pc[q]
  <2>1. "undo" \in Labels
    BY DEF Labels
  <2> QED BY <1>1, <1>3, <2>1, GotoDoes
<1>8. ProcsTyped'
  BY <1>1, <1>3, <1>5, <1>6, <1>7 DEF ProcsTyped
<1>9. Acts(s)
  BY <1>3, <1>5, <1>6, <1>7 DEF Acts
<1> QED BY <1>1, <1>3, <1>5, <1>6, <1>7, <1>8, <1>9 DEF u

LEMMA MoveFailsStages ==
  ASSUME TypeOK, NEW s \in Switchers, MoveFails(s), NEW l \in Accounts, NEW o \in Places,
         NEW old \in Blobs \cup {Absent}, NEW new \in Blobs, Given(l, o, old, new),
         Stage(todo[s], l, o, old, new), Journalled(done[s], l, o, old, new),
         InOrder(done[s], o),
         file[Auth(Default)] = old => ~Covers(done[s], Auth(Default))
  PROVE  (Journalled(todo[s], l, o, old, new) /\ InReverse(todo[s], o) /\ Restores(l, o, old, new))'
<1>1. PICK t, d, h, n, u :
        /\ t = todo[s] /\ d = done[s] /\ h = Head(todo[s]) /\ u = todo'[s] /\ n = Noted(d, h.file)
  OBVIOUS
<1>2. t # <<>> /\ u = Reverse(n) /\ file' = file
  BY <1>1, MoveFailsTypes DEF store
<1>3. h \in Writes /\ h.file \in Files /\ d \in Seq(Writes)
  BY <1>1, <1>2, HeadFile
<1>4. Due(h.file, d, l, o, old, new)
  BY <1>1, <1>2, <1>3, StageDue
<1>5. Puts(n, l, o, old, new) /\ InOrder(n, o)
  BY <1>1, <1>3, <1>4, NotedOk DEF Journalled
<1>6. n \in Seq(Writes) /\ \A g : Covers(d, g) => Covers(n, g)
  BY <1>1, <1>3, NotedIs
<1>7. Puts(u, l, o, old, new) /\ InReverse(u, o) /\ \A g : Covers(d, g) => Covers(u, g)
  BY <1>2, <1>5, <1>6, Reversed
<1>8. Journalled(u, l, o, old, new)'
  BY <1>1, <1>2, <1>7 DEF Journalled
<1>9. Restores(l, o, old, new)
  <2>1. t = todo[s] /\ Stage(t, l, o, old, new)
    BY <1>1
  <2> QED BY <1>2, <2>1, Names DEF Stage, Restores
<1>10. Restores(l, o, old, new)'
  BY <1>2, <1>9 DEF Restores
<1>11. Journalled(todo[s], l, o, old, new)' /\ InReverse(todo[s], o)'
  BY <1>1, <1>7, <1>8
<1> QED BY <1>10, <1>11

(***************************************************************************)
(* A write of the rollback.                                                *)
(***************************************************************************)
LEMMA UndoTypes ==
  ASSUME TypeOK, NEW s \in Switchers, Undo(s)
  PROVE  /\ ProcsTyped' /\ FilesTyped' /\ Acts(s) /\ pc[s] = "undo" /\ todo[s] # <<>>
         /\ UNCHANGED <<lock, pc, job, done, copy, place, cache, issued, session, kept>>
         /\ mishaps \subseteq mishaps' /\ mishaps' \subseteq mishaps \cup {"torn"}
         /\ todo'[s] = Tail(todo[s])
         /\ \/ file' = [file EXCEPT ![Head(todo[s]).file] = Head(todo[s]).to]
            \/ file' = file /\ "torn" \in mishaps'
<1>1. ProcsTyped /\ todo[s] # <<>> /\ pc[s] = "undo"
  BY TypeParts DEF Undo
<1>2. Head(todo[s]) \in Writes /\ Tail(todo[s]) \in Seq(Writes)
  BY <1>1, HeadFile
<1>3. /\ todo' = [todo EXCEPT ![s] = Tail(todo[s])]
      /\ UNCHANGED <<lock, pc, job, done, copy, place, cache, issued, session, kept>>
      /\ mishaps \subseteq mishaps' /\ mishaps' \subseteq mishaps \cup {"torn"}
      /\ \/ file' = [file EXCEPT ![Head(todo[s]).file] = Head(todo[s]).to]
         \/ file' = file /\ "torn" \in mishaps'
  <2>1. /\ todo' = [todo EXCEPT ![s] = Tail(todo[s])]
        /\ UNCHANGED <<lock, pc, job, done, copy, place, cache, issued, session, kept>>
    BY DEF Undo
  <2>2. /\ mishaps' = mishaps \/ mishaps' = mishaps \cup {"torn"}
        /\ \/ file' = [file EXCEPT ![Head(todo[s]).file] = Head(todo[s]).to]
           \/ file' = file /\ mishaps' = mishaps \cup {"torn"}
    BY DEF Undo
  <2> QED BY <2>1, <2>2
<1>4. FilesTyped'
  BY <1>2, <1>3, Written, FilesSame
<1>5. /\ todo' \in [Switchers -> Seq(Writes)] /\ todo'[s] = Tail(todo[s])
      /\ \A x \in Switchers : x # s => todo'[x] = todo[x]
  BY <1>1, <1>2, <1>3 DEF ProcsTyped
<1>6. ProcsTyped'
  BY <1>1, <1>3, <1>5 DEF ProcsTyped
<1>7. Acts(s)
  BY <1>3, <1>5 DEF Acts
<1> QED BY <1>1, <1>3, <1>4, <1>5, <1>6, <1>7

LEMMA UndoStages ==
  ASSUME TypeOK, NEW s \in Switchers, Undo(s), "torn" \notin mishaps',
         NEW l \in Accounts, NEW o \in Places,
         NEW old \in Blobs \cup {Absent}, NEW new \in Blobs, Given(l, o, old, new),
         Journalled(todo[s], l, o, old, new), InReverse(todo[s], o), Restores(l, o, old, new)
  PROVE  /\ (Journalled(todo[s], l, o, old, new) /\ InReverse(todo[s], o) /\ Restores(l, o, old, new))'
         /\ \A p \in Elsewhere(l, o) : file'[Auth(p)] = file[Auth(p)] /\ IdIn(p)' = IdIn(p)
<1>1. PICK u, h, v : u = todo[s] /\ h = Head(todo[s]) /\ v = todo'[s]
  OBVIOUS
<1>2. u # <<>> /\ v = Tail(u) /\ file' = [file EXCEPT ![h.file] = h.to]
  BY <1>1, UndoTypes
<1>3. h \in Writes /\ h.file \in Files /\ u \in Seq(Writes)
  BY <1>1, <1>2, HeadFile
<1>4. /\ DOMAIN u = 1 .. Len(u) /\ Len(u) \in Nat /\ Len(u) >= 1
      /\ DOMAIN v = 1 .. Len(u) - 1
      /\ \A k \in DOMAIN v : k + 1 \in DOMAIN u /\ v[k] = u[k + 1]
      /\ \A k \in DOMAIN u : k = 1 \/ k - 1 \in DOMAIN v
      /\ u[1] = h /\ 1 \in DOMAIN u
  BY <1>1, <1>2, <1>3, ListStep
<1>5. Puts(u, l, o, old, new) /\ InReverse(u, o)
  BY <1>1 DEF Journalled
<1>6. Puts(v, l, o, old, new)
  BY <1>4, <1>5 DEF Puts
<1>7. InReverse(v, o)
  <2> SUFFICES ASSUME o # Default, NEW i \in DOMAIN v, NEW j \in DOMAIN v,
                      v[i].file = Auth(Default), v[j].file = Auth(o)
               PROVE  i < j
    BY DEF InReverse
  <2>1. i + 1 < j + 1
    BY <1>4, <1>5 DEF InReverse
  <2> QED BY <1>4, <2>1
<1>8. \A g : Covers(u, g) => Covers(v, g) \/ g = h.file
  <2> SUFFICES ASSUME NEW k \in DOMAIN u, u[k].file # h.file PROVE Covers(v, u[k].file)
    BY DEF Covers
  <2>1. k - 1 \in DOMAIN v /\ v[k - 1] = u[k]
    BY <1>4
  <2> QED BY <2>1 DEF Covers
<1>9. /\ h.file = Auth(Default) => h.to = old
      /\ h.file = Auth(l) => h.to = new
      /\ o # Default /\ h.file = Auth(o) => h.to = Absent
      /\ \A p \in Elsewhere(l, o) : h.file # Auth(p)
  BY <1>4, <1>5 DEF Puts
<1>10. \A g \in Files : file'[g] = IF g = h.file THEN h.to ELSE file[g]
  BY <1>2, <1>3, Written
<1>11. /\ Auth(o) \in Files /\ Auth(l) \in Files /\ Auth(Default) \in Files
       /\ Auth(l) # Auth(Default) /\ Auth(o) # Auth(l)
       /\ o # Default => Auth(o) # Auth(Default)
  BY Names, FileNames DEF Given
<1>12. file[Auth(Default)] = old \/ Covers(u, Auth(Default))
  BY <1>1 DEF Journalled
<1>13. o # Default => file[Auth(o)] = Absent \/ Covers(u, Auth(o))
  BY <1>1 DEF Journalled
<1>14. file'[Auth(Default)] = old \/ Covers(v, Auth(Default))
  BY <1>8, <1>9, <1>10, <1>11, <1>12
<1>15. o # Default => file'[Auth(o)] = Absent \/ Covers(v, Auth(o))
  BY <1>8, <1>9, <1>10, <1>11, <1>13
<1>16. Journalled(v, l, o, old, new)'
  BY <1>6, <1>14, <1>15 DEF Journalled
<1>17. o # Default /\ h.file = Auth(o) => file[Auth(Default)] = old
  <2> SUFFICES ASSUME o # Default, h.file = Auth(o), NEW k \in DOMAIN u, u[k].file = Auth(Default)
               PROVE  FALSE
    BY <1>12 DEF Covers
  <2>1. k < 1
    BY <1>4, <1>5 DEF InReverse
  <2> QED BY <1>4, <2>1
<1>18. file'[Auth(l)] = new /\ file'[Auth(Default)] \in {old, new}
  BY <1>9, <1>10, <1>11 DEF Restores
<1>19. ASSUME o # Default
       PROVE  /\ file'[Auth(o)] \in {old, Absent}
              /\ file'[Auth(Default)] = old \/ file'[Auth(o)] = old
  <2>1. CASE h.file = Auth(o)
    BY <1>9, <1>10, <1>11, <1>17, <1>19, <2>1
  <2>2. CASE h.file # Auth(o)
    BY <1>9, <1>10, <1>11, <1>19, <2>2 DEF Restores
  <2> QED BY <2>1, <2>2
<1>20. Restores(l, o, old, new)'
  BY <1>18, <1>19 DEF Restores
<1>21. Journalled(todo[s], l, o, old, new)' /\ InReverse(todo[s], o)'
  BY <1>1, <1>7, <1>16
<1>22. \A p \in Elsewhere(l, o) : file'[Auth(p)] = file[Auth(p)] /\ IdIn(p)' = IdIn(p)
  BY <1>2, <1>3, <1>9, Written DEF Elsewhere
<1> QED BY <1>20, <1>21, <1>22

(***************************************************************************)
(* The steps of a fetch.                                                   *)
(***************************************************************************)
LEMMA PlaceSet ==
  ASSUME TypeOK, NEW f \in Fetchers, NEW j \in [at : Places, looks : 0 .. ROUTE_ATTEMPTS],
         place' = [place EXCEPT ![f] = j]
  PROVE  /\ place' \in [Fetchers -> [at : Places, looks : 0 .. ROUTE_ATTEMPTS]]
         /\ place'[f] = j /\ \A g \in Fetchers : g # f => place'[g] = place[g]
<1>1. place \in [Fetchers -> [at : Places, looks : 0 .. ROUTE_ATTEMPTS]]
  BY TypeParts DEF ProcsTyped
<1> QED BY <1>1

LEMMA CopySet ==
  ASSUME TypeOK, NEW f \in Fetchers, NEW c \in Blobs \cup {Absent}, copy' = [copy EXCEPT ![f] = c]
  PROVE  /\ copy' \in [Fetchers -> Blobs \cup {Absent}]
         /\ copy'[f] = c /\ \A g \in Fetchers : g # f => copy'[g] = copy[g]
<1>1. copy \in [Fetchers -> Blobs \cup {Absent}]
  BY TypeParts DEF ProcsTyped
<1> QED BY <1>1

LEMMA FetchDoes ==
  ASSUME TypeOK, NEW f \in Fetchers, Fetch(f)
  PROVE  /\ ProcsTyped' /\ Acts(f) /\ pc[f] = "idle" /\ pc'[f] = "lock"
         /\ place'[f].at \in {Default, f}
         /\ UNCHANGED <<store, lock, history>>
<1>1. ProcsTyped /\ f \in Procs /\ f \in Places /\ Default \in Places
  BY TypeParts, Names DEF ProcsTyped
<1>2. PICK p \in {Default, f} : place' = [place EXCEPT ![f] = [at |-> p, looks |-> 0]]
  BY DEF Fetch
<1>3. [at |-> p, looks |-> 0] \in [at : Places, looks : 0 .. ROUTE_ATTEMPTS]
  BY <1>1 DEF ROUTE_ATTEMPTS
<1>4. /\ place' \in [Fetchers -> [at : Places, looks : 0 .. ROUTE_ATTEMPTS]]
      /\ place'[f] = [at |-> p, looks |-> 0] /\ \A g \in Fetchers : g # f => place'[g] = place[g]
  BY <1>2, <1>3, PlaceSet
<1>5. Goto(f, "lock") /\ pc[f] = "idle" /\ UNCHANGED <<store, lock, job, todo, done, copy, history>>
  BY DEF Fetch
<1>6. pc' \in [Procs -> Labels] /\ pc'[f] = "lock" /\ \A q \in Procs : q # f => pc'[q] = pc[q]
  <2>1. "lock" \in Labels
    BY DEF Labels
  <2> QED BY <1>1, <1>5, <2>1, GotoDoes
<1>7. ProcsTyped'
  BY <1>1, <1>4, <1>5, <1>6 DEF ProcsTyped
<1>8. Acts(f)
  BY <1>4, <1>5, <1>6 DEF Acts
<1> QED BY <1>4, <1>5, <1>6, <1>7, <1>8

LEMMA FetchLocksDoes ==
  ASSUME TypeOK, NEW f \in Fetchers, FetchLocks(f)
  PROVE  /\ ProcsTyped' /\ Acts(f) /\ pc[f] = "lock"
         /\ UNCHANGED <<store, history>>
         /\ \/ Return(f)
            \/ /\ pc'[f] = "route" /\ UNCHANGED <<copy, place>>
               /\ lock'[place[f].at] = f
<1>1. ProcsTyped /\ f \in Procs /\ place[f].at \in Places
  BY TypeParts, Names DEF ProcsTyped
<1>2. pc[f] = "lock" /\ UNCHANGED <<store, history>>
  BY DEF FetchLocks
<1>3. CASE Return(f)
  BY <1>2, <1>3, ReturnActs
<1>4. CASE ~Return(f)
  <2>1. /\ lock[place[f].at] = Absent /\ lock' = [lock EXCEPT ![place[f].at] = f]
        /\ Goto(f, "route") /\ UNCHANGED <<copy, place, job, todo, done>>
    BY <1>4 DEF FetchLocks
  <2>2. pc' \in [Procs -> Labels] /\ pc'[f] = "route" /\ \A q \in Procs : q # f => pc'[q] = pc[q]
    <3>1. "route" \in Labels
      BY DEF Labels
    <3> QED BY <1>1, <2>1, <3>1, GotoDoes
  <2>3. /\ lock' \in [Places -> Procs \cup {Absent}]
        /\ \A q \in Places : lock'[q] = IF q = place[f].at THEN f ELSE lock[q]
    BY <1>1, <2>1 DEF ProcsTyped
  <2>4. ProcsTyped'
    BY <1>1, <2>1, <2>2, <2>3 DEF ProcsTyped
  <2>5. Acts(f)
    BY <2>1, <2>2, <2>3 DEF Acts
  <2> QED BY <1>1, <1>2, <2>1, <2>2, <2>3, <2>4, <2>5
<1> QED BY <1>3, <1>4

LEMMA RouteIs ==
  ASSUME NEW f \in Fetchers
  PROVE  /\ Route(f) \in {Default, f} /\ Route(f) \in Places
         /\ Route(f) = f \/ (f \in Accounts /\ Owners = {f} /\ file[Auth(f)] = Absent)
BY Names DEF Route

LEMMA RerouteDoes ==
  ASSUME TypeOK, NEW f \in Fetchers, Reroute(f)
  PROVE  /\ ProcsTyped' /\ Acts(f) /\ pc[f] = "route"
         /\ UNCHANGED <<store, history>>
         /\ \/ Return(f)
            \/ pc'[f] = "lock" /\ place'[f].at = Route(f)
            \/ /\ pc'[f] = "read" /\ lock' = lock
               /\ place'[f].at = place[f].at /\ Route(f) = place[f].at
<1>1. ProcsTyped /\ f \in Procs /\ Route(f) \in Places
  BY TypeParts, Names, RouteIs DEF ProcsTyped
<1>2. pc[f] = "route" /\ UNCHANGED <<store, history>>
  BY DEF Reroute
<1>3. place[f] \in [at : Places, looks : 0 .. ROUTE_ATTEMPTS]
  BY <1>1 DEF ProcsTyped
<1>4. CASE Return(f)
  BY <1>2, <1>4, ReturnActs
<1>5. CASE Route(f) = place[f].at
  <2> DEFINE j == [place[f] EXCEPT !.looks = 0]
  <2>1. /\ place' = [place EXCEPT ![f] = j] /\ Goto(f, "read")
        /\ UNCHANGED <<lock, job, todo, done, copy>>
    BY <1>5 DEF Reroute
  <2>2. j \in [at : Places, looks : 0 .. ROUTE_ATTEMPTS] /\ j.at = place[f].at
    BY <1>3 DEF ROUTE_ATTEMPTS
  <2> HIDE DEF j
  <2>3. /\ place' \in [Fetchers -> [at : Places, looks : 0 .. ROUTE_ATTEMPTS]]
        /\ place'[f] = j /\ \A g \in Fetchers : g # f => place'[g] = place[g]
    BY <2>1, <2>2, PlaceSet
  <2>4. pc' \in [Procs -> Labels] /\ pc'[f] = "read" /\ \A q \in Procs : q # f => pc'[q] = pc[q]
    <3>1. "read" \in Labels
      BY DEF Labels
    <3> QED BY <1>1, <2>1, <3>1, GotoDoes
  <2>5. ProcsTyped'
    BY <1>1, <2>1, <2>3, <2>4 DEF ProcsTyped
  <2>6. Acts(f)
    BY <2>1, <2>3, <2>4 DEF Acts
  <2> QED BY <1>2, <1>5, <2>1, <2>2, <2>3, <2>4, <2>5, <2>6
<1>6. CASE ~Return(f) /\ Route(f) # place[f].at
  <2> DEFINE j == [at |-> Route(f), looks |-> place[f].looks + 1]
  <2>1. /\ place' = [place EXCEPT ![f] = j] /\ Goto(f, "lock") /\ lock' = Unlocked(f)
        /\ UNCHANGED <<job, todo, done, copy>>
        /\ place[f].looks + 1 < ROUTE_ATTEMPTS
    BY <1>6 DEF Reroute
  <2>2. j \in [at : Places, looks : 0 .. ROUTE_ATTEMPTS] /\ j.at = Route(f)
    BY <1>1, <1>3, <2>1 DEF ROUTE_ATTEMPTS
  <2> HIDE DEF j
  <2>3. /\ place' \in [Fetchers -> [at : Places, looks : 0 .. ROUTE_ATTEMPTS]]
        /\ place'[f] = j /\ \A g \in Fetchers : g # f => place'[g] = place[g]
    BY <2>1, <2>2, PlaceSet
  <2>4. pc' \in [Procs -> Labels] /\ pc'[f] = "lock" /\ \A q \in Procs : q # f => pc'[q] = pc[q]
    <3>1. "lock" \in Labels
      BY DEF Labels
    <3> QED BY <1>1, <2>1, <3>1, GotoDoes
  <2>5. /\ lock' \in [Places -> Procs \cup {Absent}]
        /\ \A q \in Places : lock'[q] = IF lock[q] = f THEN Absent ELSE lock[q]
    BY <1>1, <2>1, Released
  <2>6. ProcsTyped'
    BY <1>1, <2>1, <2>3, <2>4, <2>5 DEF ProcsTyped
  <2>7. Acts(f)
    BY <2>1, <2>3, <2>4, <2>5 DEF Acts
  <2> QED BY <1>2, <2>2, <2>3, <2>4, <2>6, <2>7
<1> QED BY <1>4, <1>5, <1>6

LEMMA ReadAuthDoes ==
  ASSUME TypeOK, NEW f \in Fetchers, ReadAuth(f)
  PROVE  /\ ProcsTyped' /\ Acts(f) /\ pc[f] = "read"
         /\ UNCHANGED <<store, history>>
         /\ \/ Return(f)
            \/ /\ pc'[f] \in {"refresh", "usage"} /\ UNCHANGED <<lock, place>>
               /\ file[Auth(place[f].at)] # Absent /\ copy'[f] = file[Auth(place[f].at)]
<1>1. ProcsTyped /\ f \in Procs /\ place[f].at \in Places
  BY TypeParts, Names DEF ProcsTyped
<1>2. pc[f] = "read" /\ UNCHANGED <<store, history>>
  BY DEF ReadAuth
<1>3. CASE Return(f)
  BY <1>2, <1>3, ReturnActs
<1>4. CASE ~Return(f)
  <2>1. PICK next \in {"refresh", "usage"} : Goto(f, next)
    BY <1>4 DEF ReadAuth
  <2>2. /\ file[Auth(place[f].at)] # Absent /\ copy' = [copy EXCEPT ![f] = file[Auth(place[f].at)]]
        /\ UNCHANGED <<lock, job, todo, done, place>>
    BY <1>4 DEF ReadAuth
  <2>3. pc' \in [Procs -> Labels] /\ pc'[f] = next /\ \A q \in Procs : q # f => pc'[q] = pc[q]
    <3>1. next \in Labels
      BY DEF Labels
    <3> QED BY <1>1, <2>1, <3>1, GotoDoes
  <2>4. /\ copy' \in [Fetchers -> Blobs \cup {Absent}]
        /\ copy'[f] = file[Auth(place[f].at)] /\ \A g \in Fetchers : g # f => copy'[g] = copy[g]
    BY <1>1, <2>2, IdFacts, CopySet
  <2>5. ProcsTyped'
    BY <1>1, <2>2, <2>3, <2>4 DEF ProcsTyped
  <2>6. Acts(f)
    BY <2>2, <2>3, <2>4 DEF Acts
  <2> QED BY <1>2, <2>2, <2>3, <2>4, <2>5, <2>6
<1> QED BY <1>3, <1>4

LEMMA RestSame ==
  ASSUME TypeOK, UNCHANGED <<cache, issued, session, kept, mishaps>>
  PROVE  RestTyped'
<1>1. RestTyped
  BY TypeParts
<1> QED BY <1>1 DEF RestTyped

LEMMA IssuedNext ==
  ASSUME TypeOK, NEW id \in Ids, issued' = [issued EXCEPT ![id] = @ + 1]
  PROVE  /\ issued' \in [Ids -> Nat \ {0}] /\ issued'[id] = issued[id] + 1
         /\ \A i \in Ids : i # id => issued'[i] = issued[i]
         /\ \A i \in Ids : issued[i] \in Nat /\ issued[i] >= 1 /\ issued'[i] >= issued[i]
<1>1. issued \in [Ids -> Nat \ {0}]
  BY TypeParts DEF RestTyped
<1> QED BY <1>1

LEMMA RefreshDoes ==
  ASSUME TypeInv, NEW f \in Fetchers, Refresh(f)
  PROVE  /\ ProcsTyped' /\ RestTyped' /\ Acts(f) /\ pc[f] = "refresh"
         /\ UNCHANGED <<file, cache, session, kept, troubles>>
         /\ copy[f] \in Blobs /\ mishaps \subseteq mishaps' /\ mishaps' \subseteq mishaps \cup {"lost"}
         /\ \/ Return(f) /\ issued' = issued
            \/ Return(f) /\ "lost" \in mishaps'
            \/ /\ pc'[f] = "save" /\ UNCHANGED <<lock, place, mishaps>>
               /\ copy[f].rt = issued[copy[f].id]
               /\ issued' = [issued EXCEPT ![copy[f].id] = @ + 1]
               /\ copy'[f] \in Blobs /\ copy'[f].id = copy[f].id /\ copy'[f].rt = copy[f].rt + 1
<1>1. TypeOK /\ ProcsTyped /\ RestTyped /\ f \in Procs
  BY TypeParts, Names DEF TypeInv
<1>2. pc[f] = "refresh" /\ UNCHANGED <<file, cache, session, kept, troubles>>
  BY DEF Refresh
<1>3. copy[f] \in Blobs /\ copy[f].id \in Ids
  BY <1>1, <1>2, BlobFields DEF TypeInv, Asking, ProcsTyped
<1>4. /\ mishaps' = mishaps \/ mishaps' = mishaps \cup {"lost"}
      /\ issued' = issued \/ issued' = [issued EXCEPT ![copy[f].id] = @ + 1]
  BY DEF Refresh
<1>5. RestTyped' /\ mishaps \subseteq mishaps' /\ mishaps' \subseteq mishaps \cup {"lost"}
  <2>1. issued' \in [Ids -> Nat \ {0}]
    BY <1>1, <1>3, <1>4, IssuedNext DEF RestTyped
  <2> QED BY <1>1, <1>2, <1>4, <2>1 DEF RestTyped
<1>6. CASE Return(f)
  <2>1. issued' = issued \/ mishaps' = mishaps \cup {"lost"} \/ pc'[f] = "save"
    <3>1. pc \in [Procs -> Labels]
      BY <1>1 DEF ProcsTyped
    <3>2. \/ UNCHANGED <<issued, mishaps>>
          \/ mishaps' = mishaps \cup {"lost"}
          \/ Goto(f, "save")
      BY DEF Refresh
    <3> QED BY <1>1, <3>1, <3>2 DEF Goto
  <2>2. pc'[f] = "idle"
    BY <1>1, <1>6, ReturnActs
  <2> QED BY <1>1, <1>2, <1>3, <1>5, <1>6, <2>1, <2>2, ReturnActs
<1>7. CASE ~Return(f)
  <2>1. /\ copy[f].rt = issued[copy[f].id] /\ issued' = [issued EXCEPT ![copy[f].id] = @ + 1]
        /\ copy' = [copy EXCEPT ![f].rt = @ + 1] /\ Goto(f, "save")
        /\ UNCHANGED <<lock, job, todo, done, place, mishaps>>
    BY <1>7 DEF Refresh
  <2> DEFINE c == [id |-> copy[f].id, rt |-> copy[f].rt + 1]
  <2>2. c \in Blobs /\ c.id = copy[f].id /\ c.rt = copy[f].rt + 1
    BY <1>3, BlobFields
  <2>3. copy' = [copy EXCEPT ![f] = c]
    <3>1. \A b \in Blobs : [b EXCEPT !.rt = b.rt + 1] = [id |-> b.id, rt |-> b.rt + 1]
      BY DEF Blobs
    <3>2. copy' = [copy EXCEPT ![f] = [copy[f] EXCEPT !.rt = copy[f].rt + 1]]
      BY <1>1, <2>1 DEF ProcsTyped
    <3> QED BY <1>3, <3>1, <3>2
  <2> HIDE DEF c
  <2>4. /\ copy' \in [Fetchers -> Blobs \cup {Absent}]
        /\ copy'[f] = c /\ \A g \in Fetchers : g # f => copy'[g] = copy[g]
    BY <1>1, <2>2, <2>3, CopySet
  <2>5. pc' \in [Procs -> Labels] /\ pc'[f] = "save" /\ \A q \in Procs : q # f => pc'[q] = pc[q]
    <3>1. "save" \in Labels
      BY DEF Labels
    <3> QED BY <1>1, <2>1, <3>1, GotoDoes
  <2>6. ProcsTyped'
    BY <1>1, <2>1, <2>4, <2>5 DEF ProcsTyped
  <2>7. Acts(f)
    BY <2>1, <2>4, <2>5 DEF Acts
  <2> QED BY <1>2, <1>3, <1>5, <2>1, <2>2, <2>4, <2>5, <2>6, <2>7
<1> QED BY <1>6, <1>7

LEMMA SaveAuthDoes ==
  ASSUME TypeInv, NEW f \in Fetchers, SaveAuth(f)
  PROVE  /\ ProcsTyped' /\ FilesTyped' /\ RestTyped' /\ Acts(f) /\ pc[f] = "save"
         /\ UNCHANGED <<cache, issued, session, kept>>
         /\ mishaps \subseteq mishaps' /\ mishaps' \subseteq mishaps \cup {"lost"}
         /\ copy[f] \in Blobs
         /\ \/ Return(f) /\ "lost" \in mishaps' /\ file' = file
            \/ /\ pc'[f] = "usage" /\ UNCHANGED <<lock, copy, place, mishaps>>
               /\ file' = [file EXCEPT ![Auth(place[f].at)] = copy[f]]
<1>1. TypeOK /\ ProcsTyped /\ RestTyped /\ f \in Procs /\ place[f].at \in Places
  BY TypeParts, Names DEF TypeInv, ProcsTyped
<1>2. pc[f] = "save" /\ UNCHANGED <<cache, issued, session, kept>>
  BY DEF SaveAuth
<1>3. copy[f] \in Blobs
  BY <1>1, <1>2, BlobFields DEF TypeInv, Asking, ProcsTyped
<1>4. \/ Return(f) /\ mishaps' = mishaps \cup {"lost"} /\ file' = file
      \/ /\ file' = [file EXCEPT ![Auth(place[f].at)] = copy[f]]
         /\ Goto(f, "usage") /\ UNCHANGED <<lock, locals, mishaps>>
  BY DEF SaveAuth
<1>5. RestTyped' /\ mishaps \subseteq mishaps' /\ mishaps' \subseteq mishaps \cup {"lost"}
  BY <1>1, <1>2, <1>4 DEF RestTyped
<1>6. CASE Return(f) /\ mishaps' = mishaps \cup {"lost"} /\ file' = file
  BY <1>1, <1>2, <1>3, <1>5, <1>6, ReturnActs, FilesSame
<1>7. CASE /\ file' = [file EXCEPT ![Auth(place[f].at)] = copy[f]]
           /\ Goto(f, "usage") /\ UNCHANGED <<lock, locals, mishaps>>
  <2>1. ProcsTyped' /\ Acts(f) /\ pc'[f] = "usage"
    <3>1. "usage" \in Labels /\ UNCHANGED <<lock, job, todo, done, copy, place>>
      BY <1>7 DEF Labels, locals
    <3> QED BY <1>1, <1>7, <3>1, GotoActs
  <2>2. FilesTyped'
    BY <1>1, <1>3, <1>7, AuthWritten
  <2> QED BY <1>2, <1>3, <1>5, <1>7, <2>1, <2>2 DEF locals
<1> QED BY <1>4, <1>6, <1>7

LEMMA UsageDoes ==
  ASSUME TypeInv, NEW f \in Fetchers, Usage(f)
  PROVE  /\ ProcsTyped' /\ RestTyped' /\ Acts(f) /\ pc[f] = "usage" /\ Return(f)
         /\ UNCHANGED <<file, issued, session, history>>
         /\ \A g \in Fetchers : g # f => cache'[g] = cache[g]
         /\ cache'[f] = cache[f] \/ cache'[f] = copy[f].id
<1>1. TypeOK /\ ProcsTyped /\ RestTyped
  BY TypeParts DEF TypeInv
<1>2. /\ pc[f] = "usage" /\ Return(f) /\ UNCHANGED <<file, issued, session, history>>
      /\ cache' = [cache EXCEPT ![f] = copy[f].id] \/ cache' = cache
  BY DEF Usage
<1>3. copy[f].id \in Ids
  BY <1>1, <1>2, BlobFields DEF TypeInv, Asking, ProcsTyped
<1>4. /\ cache' \in [Fetchers -> Ids \cup {Absent}]
      /\ \A g \in Fetchers : g # f => cache'[g] = cache[g]
      /\ cache'[f] = cache[f] \/ cache'[f] = copy[f].id
  BY <1>1, <1>2, <1>3 DEF RestTyped
<1>5. RestTyped'
  BY <1>1, <1>2, <1>4 DEF RestTyped, history
<1> QED BY <1>1, <1>2, <1>4, <1>5, ReturnActs

(***************************************************************************)
(* What is left of the steps of a switch.                                  *)
(***************************************************************************)
LEMMA ForgetDoes ==
  ASSUME TypeOK, NEW s \in Switchers, Forget(s)
  PROVE  /\ ProcsTyped' /\ RestTyped' /\ Acts(s) /\ pc[s] = "forget" /\ pc'[s] = "idle"
         /\ UNCHANGED <<file, issued, session, lock, locals, history>>
         /\ \A f \in Fetchers : cache'[f] = IF f = Default THEN Absent ELSE cache[f]
<1>1. ProcsTyped /\ RestTyped /\ s \in Procs
  BY TypeParts, Names
<1>2. /\ pc[s] = "forget" /\ Goto(s, "idle")
      /\ UNCHANGED <<file, issued, session, lock, locals, history>>
      /\ cache' = [f \in Fetchers |-> IF f = Default THEN Absent ELSE cache[f]]
  BY DEF Forget
<1>3. ProcsTyped' /\ Acts(s) /\ pc'[s] = "idle"
  <2>1. "idle" \in Labels /\ UNCHANGED <<lock, job, todo, done, copy, place>>
    BY <1>2 DEF Labels, locals
  <2> QED BY <1>1, <1>2, <2>1, GotoActs
<1>4. /\ cache' \in [Fetchers -> Ids \cup {Absent}]
      /\ \A f \in Fetchers : cache'[f] = IF f = Default THEN Absent ELSE cache[f]
  BY <1>1, <1>2 DEF RestTyped
<1>5. RestTyped'
  BY <1>1, <1>2, <1>4 DEF RestTyped, history
<1> QED BY <1>2, <1>3, <1>4, <1>5

LEMMA AdoptDoes ==
  ASSUME TypeOK, LockInv, NEW s \in Switchers, Adopt(s)
  PROVE  /\ ProcsTyped' /\ FilesTyped' /\ Acts(s) /\ pc[s] = "decide" /\ Leave(s, "idle")
         /\ UNCHANGED <<cache, issued, session, history>>
         /\ lock[Default] = s
         /\ \A p \in Places : file'[Auth(p)] = file[Auth(p)] /\ IdIn(p)' = IdIn(p)
<1>1. /\ pc[s] = "decide" /\ Leave(s, "idle")
      /\ UNCHANGED <<cache, issued, session, history>>
      /\ file' = [file EXCEPT ![Marker(job[s].label)] = IdIn(Default)] \/ file' = file
  BY DEF Adopt
<1>2. job[s].label \in Accounts /\ lock[Default] = s
  BY <1>1 DEF LockInv, SwitchLocks, LockDirs
<1>3. ProcsTyped' /\ Acts(s)
  BY <1>1, LeaveActs
<1>4. FilesTyped' /\ \A p \in Places : file'[Auth(p)] = file[Auth(p)] /\ IdIn(p)' = IdIn(p)
  <2>1. IdIn(Default) \in Ids \cup {Absent}
    <3>1. IdIn(Default) = Absent \/ IdIn(Default) \in Ids
      BY Names, IdFacts
    <3> QED BY <3>1
  <2>2. CASE file' = file
    BY <2>2, FilesSame
  <2>3. CASE file' = [file EXCEPT ![Marker(job[s].label)] = IdIn(Default)]
    BY <1>2, <2>1, <2>3, MarkerWritten
  <2> QED BY <1>1, <2>2, <2>3
<1> QED BY <1>1, <1>2, <1>3, <1>4

LEMMA CrashDoes ==
  ASSUME TypeOK, NEW p \in Procs, Crash(p)
  PROVE  /\ ProcsTyped' /\ RestTyped' /\ Acts(p)
         /\ pc[p] \in {"move", "undo", "forget", "save"}
         /\ \/ p \in Switchers /\ Leave(p, "idle")
            \/ p \in Fetchers /\ Return(p)
         /\ UNCHANGED <<store, kept>>
         /\ mishaps \subseteq mishaps' /\ mishaps' \subseteq mishaps \cup {"crash", "lost"}
         /\ pc[p] = "save" => "lost" \in mishaps'
         /\ pc[p] # "save" => "crash" \in mishaps'
<1>1. /\ pc[p] \in {"move", "undo", "forget", "save"}
      /\ UNCHANGED <<store, kept>>
      /\ mishaps' = mishaps \cup {IF pc[p] = "save" THEN "lost" ELSE "crash"}
  BY DEF Crash
<1>2. \/ p \in Switchers /\ Leave(p, "idle")
      \/ p \in Fetchers /\ Return(p)
  BY DEF Crash, Procs
<1>3. ProcsTyped' /\ Acts(p)
  BY <1>2, LeaveActs, ReturnActs
<1>4. /\ mishaps \subseteq mishaps' /\ mishaps' \subseteq mishaps \cup {"crash", "lost"}
      /\ pc[p] = "save" => "lost" \in mishaps'
      /\ pc[p] # "save" => "crash" \in mishaps'
  BY <1>1
<1>5. RestTyped'
  BY <1>1, <1>4, TypeParts DEF RestTyped, store
<1> QED BY <1>1, <1>2, <1>3, <1>4, <1>5

LEMMA SignInDoes ==
  ASSUME TypeOK, NEW p \in Places, NEW id \in Ids, SignIn(p, id)
  PROVE  /\ ProcsTyped' /\ FilesTyped' /\ RestTyped' /\ Acts(Absent)
         /\ UNCHANGED <<lock, pc, locals, cache, session>>
         /\ session = Absent /\ \A s \in Switchers : ~Moving(s)
         /\ lock[p] = Absent
         /\ p \in Fetchers => pc[p] = "idle"
         /\ \A q \in Places : IdIn(q) # id
         /\ issued' = [issued EXCEPT ![id] = @ + 1]
         /\ file' = [file EXCEPT ![Auth(p)] = [id |-> id, rt |-> issued[id] + 1]]
         /\ [id |-> id, rt |-> issued[id] + 1] \in Blobs
         /\ kept' = (kept \ {IdIn(p)}) \cup {id}
         /\ mishaps \subseteq mishaps' /\ mishaps' \subseteq mishaps \cup {"signin"}
         /\ p = Default => "signin" \in mishaps'
<1>1. /\ UNCHANGED <<lock, pc, locals, cache, session>>
      /\ session = Absent /\ \A s \in Switchers : pc[s] \notin {"move", "undo"}
      /\ lock[p] = Absent
      /\ p \in Fetchers => pc[p] = "idle"
      /\ \A q \in Places : IdIn(q) # id
      /\ issued' = [issued EXCEPT ![id] = @ + 1]
      /\ file' = [file EXCEPT ![Auth(p)] = [id |-> id, rt |-> issued[id] + 1]]
      /\ kept' = (kept \ {IdIn(p)}) \cup {id}
      /\ mishaps' = IF p = Default THEN mishaps \cup {"signin"} ELSE mishaps
  BY DEF SignIn
<1>2. /\ issued' \in [Ids -> Nat \ {0}] /\ issued[id] \in Nat
  BY <1>1, IssuedNext
<1>3. [id |-> id, rt |-> issued[id] + 1] \in Blobs
  BY <1>2, BlobFields
<1>4. FilesTyped'
  BY <1>1, <1>3, AuthWritten
<1>5. mishaps \subseteq mishaps' /\ mishaps' \subseteq mishaps \cup {"signin"} /\ kept' \subseteq Ids
  BY <1>1, TypeParts DEF RestTyped
<1>6. RestTyped'
  BY <1>1, <1>2, <1>5, TypeParts DEF RestTyped
<1>7. ProcsTyped' /\ Acts(Absent)
  <2>1. UNCHANGED <<lock, pc, job, todo, done, copy, place>>
    BY <1>1 DEF locals
  <2> QED BY <2>1, SameActs
<1> QED BY <1>1, <1>3, <1>4, <1>5, <1>6, <1>7 DEF Moving

LEMMA SessionReloadsDoes ==
  ASSUME TypeOK, SessionReloads
  PROVE  /\ ProcsTyped' /\ RestTyped' /\ Acts(Absent)
         /\ UNCHANGED <<file, cache, issued, lock, pc, locals, kept>>
         /\ file[Auth(Default)] # Absent /\ session' = file[Auth(Default)]
         /\ mishaps \subseteq mishaps' /\ mishaps' \subseteq mishaps \cup {"crossed"}
         /\ (\E s \in Switchers : Moving(s)) => "crossed" \in mishaps'
<1>1. /\ UNCHANGED <<file, cache, issued, lock, pc, locals, kept>>
      /\ file[Auth(Default)] # Absent /\ session' = file[Auth(Default)]
      /\ mishaps' = IF \E s \in Switchers : pc[s] \in {"move", "undo"}
                    THEN mishaps \cup {"crossed"} ELSE mishaps
  BY DEF SessionReloads
<1>2. mishaps \subseteq mishaps' /\ mishaps' \subseteq mishaps \cup {"crossed"}
  BY <1>1
<1>3. session' \in Blobs \cup {Absent}
  BY <1>1, Names, IdFacts
<1>4. RestTyped'
  BY <1>1, <1>2, <1>3, TypeParts DEF RestTyped
<1>5. ProcsTyped' /\ Acts(Absent)
  <2>1. UNCHANGED <<lock, pc, job, todo, done, copy, place>>
    BY <1>1 DEF locals
  <2> QED BY <2>1, SameActs
<1> QED BY <1>1, <1>2, <1>4, <1>5 DEF Moving

LEMMA SessionRefreshesDoes ==
  ASSUME TypeOK, SessionRefreshes
  PROVE  /\ ProcsTyped' /\ FilesTyped' /\ RestTyped' /\ Acts(Absent)
         /\ UNCHANGED <<cache, lock, pc, locals, history>>
         /\ session \in Blobs /\ session' = Absent
         /\ \/ UNCHANGED <<issued, file>>
            \/ /\ session.rt = issued[session.id]
               /\ issued' = [issued EXCEPT ![session.id] = @ + 1]
               /\ file' = [file EXCEPT ![Auth(Default)] = [id |-> session.id, rt |-> session.rt + 1]]
               /\ [id |-> session.id, rt |-> session.rt + 1] \in Blobs
<1>1. TypeOK /\ RestTyped
  BY TypeParts
<1>2. session \in Blobs /\ session.id \in Ids /\ session.rt \in Nat
  BY <1>1, BlobFields DEF SessionRefreshes, RestTyped
<1>3. UNCHANGED <<cache, lock, pc, locals, history>> /\ session' = Absent
  BY DEF SessionRefreshes
<1>4. \/ UNCHANGED <<issued, file>>
      \/ /\ session.rt = issued[session.id]
         /\ issued' = [issued EXCEPT ![session.id] = @ + 1]
         /\ file' = [file EXCEPT ![Auth(Default)] = [id |-> session.id, rt |-> session.rt + 1]]
  <2>1. \A b \in Blobs : [b EXCEPT !.rt = b.rt + 1] = [id |-> b.id, rt |-> b.rt + 1]
    BY DEF Blobs
  <2>2. [session EXCEPT !.rt = @ + 1] = [id |-> session.id, rt |-> session.rt + 1]
    BY <1>2, <2>1
  <2> QED BY <2>2 DEF SessionRefreshes
<1>5. [id |-> session.id, rt |-> session.rt + 1] \in Blobs
  BY <1>2, BlobFields
<1>6. FilesTyped'
  BY <1>4, <1>5, Names, FilesSame, AuthWritten
<1>7. issued' \in [Ids -> Nat \ {0}]
  BY <1>1, <1>2, <1>4, IssuedNext DEF RestTyped
<1>8. RestTyped'
  BY <1>1, <1>3, <1>7 DEF RestTyped, history
<1>9. ProcsTyped' /\ Acts(Absent)
  <2>1. UNCHANGED <<lock, pc, job, todo, done, copy, place>>
    BY <1>3 DEF locals
  <2> QED BY <2>1, SameActs
<1> QED BY <1>2, <1>3, <1>4, <1>5, <1>6, <1>8, <1>9

(***************************************************************************)
(* The shape of the state, and the locks.                                  *)
(***************************************************************************)
LEMMA TypeInit == Init => TypeInv /\ LockInv
<1> SUFFICES ASSUME Init PROVE TypeInv /\ LockInv
  OBVIOUS
<1>1. FilesTyped
  <2>1. \A f \in Files : file[f] \in Blobs \cup {Absent}
    <3>1. [id : Ids, rt : {1}] \subseteq Blobs
      BY DEF Blobs
    <3> QED BY <3>1 DEF Init
  <2>2. file \in [Files -> Blobs \cup Ids \cup {Absent}]
    <3>1. DOMAIN file = Files /\ file = [f \in Files |-> file[f]]
      BY DEF Init
    <3> QED BY <2>1, <3>1
  <2>3. \A a \in Accounts : file[Marker(a)] = Absent
    BY DEF Init
  <2> QED BY <2>1, <2>2, <2>3, FileNames DEF FilesTyped
<1>2. ProcsTyped
  <2>1. lock \in [Places -> Procs \cup {Absent}]
    BY DEF Init
  <2>2. pc \in [Procs -> Labels]
    BY DEF Init, Labels
  <2>3. job \in [Switchers -> Jobs]
    BY NoJobType DEF Init
  <2>4. todo \in [Switchers -> Seq(Writes)] /\ done \in [Switchers -> Seq(Writes)]
    <3>1. <<>> \in Seq(Writes)
      OBVIOUS
    <3> QED BY <3>1 DEF Init
  <2>5. copy \in [Fetchers -> Blobs \cup {Absent}]
    BY DEF Init
  <2>6. place \in [Fetchers -> [at : Places, looks : 0 .. ROUTE_ATTEMPTS]]
    <3>1. NoPlace \in [at : Places, looks : 0 .. ROUTE_ATTEMPTS]
      BY Names DEF NoPlace, ROUTE_ATTEMPTS
    <3> QED BY <3>1 DEF Init
  <2> QED BY <2>1, <2>2, <2>3, <2>4, <2>5, <2>6 DEF ProcsTyped
<1>3. RestTyped
  <2>1. issued \in [Ids -> Nat \ {0}] /\ cache \in [Fetchers -> Ids \cup {Absent}]
    BY DEF Init
  <2>2. kept \subseteq Ids
    <3>1. \A p \in Places : IdIn(p) \in Ids \cup {Absent}
      BY <1>1, BlobFields DEF FilesTyped, IdIn
    <3> QED BY <3>1 DEF Init
  <2>3. session = Absent /\ mishaps = {}
    BY DEF Init
  <2> QED BY <2>1, <2>2, <2>3 DEF RestTyped
<1>4. /\ \A q \in Procs : pc[q] = "idle"
      /\ \A s \in Switchers : done[s] = <<>>
  BY DEF Init
<1>5. TypeInv
  BY <1>1, <1>2, <1>3, <1>4, Names, TypeParts DEF TypeInv, Asking
<1>6. LockInv
  BY <1>4, Names DEF LockInv, SwitchLocks, FetchLocked, Moving
<1> QED BY <1>5, <1>6

LEMMA LockFrame ==
  ASSUME TypeOK, LockInv, NEW p, Acts(p),
         p \in Switchers => SwitchLocks(p)', p \in Fetchers => FetchLocked(p)'
  PROVE  LockInv'
<1>1. ProcsTyped
  BY TypeParts
<1>2. ASSUME NEW x \in Switchers, x # p PROVE SwitchLocks(x)'
  <2>1. /\ pc'[x] = pc[x] /\ job'[x] = job[x] /\ done'[x] = done[x]
        /\ \A q \in Places : lock[q] = x => lock'[q] = x
    BY <1>2, Names DEF Acts
  <2>2. LockDirs(job[x].label, job[x].guess) \subseteq Places
    <3>1. job[x] \in Jobs
      BY <1>1 DEF ProcsTyped
    <3>2. job[x].label \in Places /\ job[x].guess \subseteq Places
      BY <3>1, Names DEF Jobs
    <3> QED BY <3>2, Names DEF LockDirs
  <2>3. SwitchLocks(x)
    BY DEF LockInv
  <2>4. /\ pc'[x] = "lock" => \A q \in LockDirs(job[x].label, job[x].guess) :
                                lock'[q] = x \/ q \in job'[x].want
        /\ pc'[x] = "decide" => \A q \in LockDirs(job[x].label, job[x].guess) : lock'[q] = x
    BY <2>1, <2>2, <2>3 DEF SwitchLocks
  <2>5. /\ pc'[x] \in {"lock", "decide"} => job'[x].label \in Accounts
        /\ Moving(x)' => lock'[Default] = x
        /\ pc'[x] # "move" => done'[x] = <<>>
    BY <2>1, <2>3, Names DEF SwitchLocks, Moving
  <2> QED BY <2>1, <2>4, <2>5 DEF SwitchLocks
<1>3. ASSUME NEW g \in Fetchers, g # p PROVE FetchLocked(g)'
  <2>1. /\ pc'[g] = pc[g] /\ place'[g] = place[g] /\ place[g].at \in Places
        /\ \A q \in Places : lock[q] = g => lock'[q] = g
    BY <1>1, <1>3, Names DEF Acts, ProcsTyped
  <2> QED BY <2>1 DEF LockInv, FetchLocked
<1> QED BY <1>2, <1>3 DEF LockInv

LEMMA TypeFrame ==
  ASSUME TypeInv, ProcsTyped', FilesTyped', RestTyped', NEW p, Acts(p),
         p \in Fetchers => (Asking(p) => copy[p] # Absent)'
  PROVE  TypeInv'
<1>1. TypeOK'
  BY TypeParts, PTL
<1>2. ASSUME NEW g \in Fetchers, g # p, Asking(g)' PROVE copy'[g] # Absent
  <2>1. pc'[g] = pc[g] /\ copy'[g] = copy[g]
    BY <1>2, Names DEF Acts
  <2> QED BY <1>2, <2>1 DEF TypeInv, Asking
<1> QED BY <1>1, <1>2 DEF TypeInv

LEMMA LeaveBasic ==
  ASSUME TypeInv, LockInv, NEW s \in Switchers, NEW label \in {"idle", "forget"}, Leave(s, label),
         FilesTyped', RestTyped'
  PROVE  TypeInv' /\ LockInv'
<1>1. TypeOK /\ s \notin Fetchers
  BY Names DEF TypeInv
<1>2. ProcsTyped' /\ Acts(s) /\ pc'[s] = label /\ done'[s] = <<>>
  BY <1>1, LeaveActs
<1>3. SwitchLocks(s)'
  BY <1>2 DEF SwitchLocks, Moving
<1> QED BY <1>1, <1>2, <1>3, TypeFrame, LockFrame

LEMMA ReturnBasic ==
  ASSUME TypeInv, LockInv, NEW f \in Fetchers, Return(f), FilesTyped', RestTyped'
  PROVE  TypeInv' /\ LockInv'
<1>1. TypeOK /\ f \notin Switchers
  BY Names DEF TypeInv
<1>2. ProcsTyped' /\ Acts(f) /\ pc'[f] = "idle"
  BY <1>1, ReturnActs
<1>3. FetchLocked(f)' /\ ~Asking(f)'
  BY <1>2 DEF FetchLocked, Asking
<1> QED BY <1>1, <1>2, <1>3, TypeFrame, LockFrame

LEMMA StoreSame ==
  ASSUME TypeOK, UNCHANGED <<store, history>>
  PROVE  FilesTyped' /\ RestTyped'
<1>1. file' = file /\ UNCHANGED <<cache, issued, session, kept, mishaps>>
  BY DEF store, history
<1> QED BY <1>1, FilesSame, RestSame

LEMMA BasicSwitch ==
  ASSUME TypeInv, LockInv, NEW s \in Switchers, Begin(s) \/ BeginAdopt(s) \/ SwitchStep(s)
  PROVE  TypeInv' /\ LockInv'
<1>1. TypeOK /\ s \notin Fetchers /\ SwitchLocks(s) /\ s \in Procs
  BY Names DEF TypeInv, LockInv
<1>2. CASE Begin(s) \/ BeginAdopt(s)
  <2>1. /\ ProcsTyped' /\ Acts(s) /\ pc[s] = "idle" /\ pc'[s] = "lock"
        /\ job'[s].label \in Accounts
        /\ job'[s].want = LockDirs(job'[s].label, job'[s].guess)
        /\ UNCHANGED <<store, history>>
    BY <1>1, <1>2, BeginDoes
  <2>2. done'[s] = done[s]
    BY <1>2 DEF Begin, BeginAdopt
  <2>3. SwitchLocks(s)'
    BY <1>1, <2>1, <2>2 DEF SwitchLocks, Moving
  <2> QED BY <1>1, <2>1, <2>3, StoreSame, TypeFrame, LockFrame
<1>3. CASE Lock(s)
  <2>1. ProcsTyped' /\ Acts(s) /\ UNCHANGED <<store, history>>
    BY <1>1, <1>3, LockDoes
  <2>2. done'[s] = done[s]
    BY <1>3 DEF Lock
  <2>3. SwitchLocks(s)'
    <3>1. CASE /\ job[s].want = {} /\ pc'[s] = "decide" /\ job'[s] = job[s] /\ lock' = lock
      BY <1>1, <1>3, <2>2, <3>1, LockDoes DEF SwitchLocks, Moving
    <3>2. CASE /\ pc'[s] = "lock"
               /\ job'[s].label = job[s].label /\ job'[s].guess = job[s].guess
               /\ \E p : /\ job'[s].want = job[s].want \ {p}
                         /\ \A q \in Places : lock'[q] = IF q = p THEN s ELSE lock[q]
      <4>1. PICK p : /\ job'[s].want = job[s].want \ {p}
                     /\ \A q \in Places : lock'[q] = IF q = p THEN s ELSE lock[q]
        BY <3>2
      <4>2. LockDirs(job[s].label, job[s].guess) \subseteq Places
        <5>1. job[s] \in Jobs
          BY <1>1, TypeParts DEF ProcsTyped
        <5>2. job[s].label \in Places /\ job[s].guess \subseteq Places
          BY <5>1, Names DEF Jobs
        <5> QED BY <5>2, Names DEF LockDirs
      <4>3. pc[s] = "lock"
        BY <1>1, <1>3, LockDoes
      <4>4. \A q \in LockDirs(job[s].label, job[s].guess) : lock'[q] = s \/ q \in job'[s].want
        BY <1>1, <4>1, <4>2, <4>3 DEF SwitchLocks
      <4> QED BY <1>1, <2>2, <3>2, <4>3, <4>4 DEF SwitchLocks, Moving
    <3> QED BY <1>1, <1>3, <3>1, <3>2, LockDoes
  <2> QED BY <1>1, <2>1, <2>3, StoreSame, TypeFrame, LockFrame
<1>4. CASE LockTimesOut(s) \/ Undone(s)
  <2>1. Leave(s, "idle") /\ UNCHANGED <<store, history>>
    BY <1>4 DEF LockTimesOut, Undone
  <2> QED BY <1>1, <2>1, StoreSame, LeaveBasic
<1>5. CASE Finish(s)
  <2>1. Leave(s, "forget") /\ UNCHANGED <<store, history>>
    BY <1>5 DEF Finish
  <2> QED BY <1>1, <2>1, StoreSame, LeaveBasic
<1>6. CASE Decide(s)
  <2>1. /\ ProcsTyped' /\ Acts(s) /\ kept' \subseteq kept
        /\ mishaps' \subseteq mishaps \cup {"crossed"}
        /\ UNCHANGED <<store, troubles>> /\ done'[s] = <<>>
        /\ pc'[s] = "idle" \/ (pc'[s] = "move" /\ lock' = lock /\ lock[Default] = s)
    BY <1>1, <1>6, DecideDoes
  <2>2. FilesTyped' /\ RestTyped'
    <3>1. file' = file /\ UNCHANGED <<cache, issued, session>>
      BY <2>1 DEF store
    <3>2. RestTyped
      BY <1>1, TypeParts
    <3>3. RestTyped'
      BY <2>1, <3>1, <3>2 DEF RestTyped
    <3> QED BY <1>1, <3>1, <3>3, FilesSame
  <2>3. SwitchLocks(s)'
    BY <2>1 DEF SwitchLocks, Moving
  <2> QED BY <1>1, <2>1, <2>2, <2>3, TypeFrame, LockFrame
<1>7. CASE Move(s)
  <2>1. /\ ProcsTyped' /\ FilesTyped' /\ Acts(s) /\ pc[s] = "move"
        /\ UNCHANGED <<lock, pc, cache, issued, session, history>>
    BY <1>1, <1>7, MoveTypes
  <2>2. RestTyped'
    BY <1>1, <2>1, RestSame DEF history
  <2>3. SwitchLocks(s)'
    BY <1>1, <2>1 DEF SwitchLocks, Moving
  <2> QED BY <1>1, <2>1, <2>2, <2>3, TypeFrame, LockFrame
<1>8. CASE MoveFails(s)
  <2>1. /\ ProcsTyped' /\ Acts(s) /\ pc[s] = "move" /\ pc'[s] = "undo" /\ done'[s] = <<>>
        /\ UNCHANGED <<store, lock, kept, mishaps>>
    BY <1>1, <1>8, MoveFailsTypes
  <2>2. FilesTyped' /\ RestTyped'
    BY <1>1, <2>1, FilesSame, RestSame DEF store
  <2>3. SwitchLocks(s)'
    BY <1>1, <2>1 DEF SwitchLocks, Moving
  <2> QED BY <1>1, <2>1, <2>2, <2>3, TypeFrame, LockFrame
<1>9. CASE Undo(s)
  <2>1. /\ ProcsTyped' /\ FilesTyped' /\ Acts(s) /\ pc[s] = "undo"
        /\ UNCHANGED <<lock, pc, done, cache, issued, session, kept>>
        /\ mishaps' \subseteq mishaps \cup {"torn"}
    BY <1>1, <1>9, UndoTypes
  <2>2. RestTyped'
    BY <1>1, <2>1, TypeParts DEF RestTyped
  <2>3. SwitchLocks(s)'
    BY <1>1, <2>1 DEF SwitchLocks, Moving
  <2> QED BY <1>1, <2>1, <2>2, <2>3, TypeFrame, LockFrame
<1>10. CASE Forget(s)
  <2>1. /\ ProcsTyped' /\ RestTyped' /\ Acts(s) /\ pc[s] = "forget" /\ pc'[s] = "idle"
        /\ file' = file /\ done' = done
    BY <1>1, <1>10, ForgetDoes DEF locals
  <2>2. SwitchLocks(s)'
    BY <1>1, <2>1 DEF SwitchLocks, Moving
  <2> QED BY <1>1, <2>1, <2>2, FilesSame, TypeFrame, LockFrame
<1>11. CASE Adopt(s)
  <2>1. FilesTyped' /\ Leave(s, "idle") /\ UNCHANGED <<cache, issued, session, history>>
    BY <1>1, <1>11, AdoptDoes
  <2>2. RestTyped'
    BY <1>1, <2>1, RestSame DEF history
  <2> QED BY <1>1, <2>1, <2>2, LeaveBasic
<1> QED BY <1>2, <1>3, <1>4, <1>5, <1>6, <1>7, <1>8, <1>9, <1>10, <1>11 DEF SwitchStep

LEMMA BasicFetch ==
  ASSUME TypeInv, LockInv, NEW f \in Fetchers, Fetch(f) \/ FetchStep(f)
  PROVE  TypeInv' /\ LockInv'
<1>1. TypeOK /\ f \notin Switchers /\ FetchLocked(f) /\ f \in Procs
  BY Names DEF TypeInv, LockInv
<1>2. CASE Fetch(f)
  <2>1. /\ ProcsTyped' /\ Acts(f) /\ pc'[f] = "lock" /\ UNCHANGED <<store, history>>
    BY <1>1, <1>2, FetchDoes
  <2>2. FetchLocked(f)' /\ ~Asking(f)'
    BY <2>1 DEF FetchLocked, Asking
  <2> QED BY <1>1, <2>1, <2>2, StoreSame, TypeFrame, LockFrame
<1>3. CASE FetchLocks(f)
  <2>1. /\ ProcsTyped' /\ Acts(f) /\ UNCHANGED <<store, history>>
        /\ \/ Return(f)
           \/ pc'[f] = "route" /\ UNCHANGED <<copy, place>> /\ lock'[place[f].at] = f
    BY <1>1, <1>3, FetchLocksDoes
  <2>2. CASE Return(f)
    BY <1>1, <2>1, <2>2, StoreSame, ReturnBasic
  <2>3. CASE pc'[f] = "route" /\ UNCHANGED <<copy, place>> /\ lock'[place[f].at] = f
    <3>1. FetchLocked(f)' /\ ~Asking(f)'
      BY <2>3 DEF FetchLocked, Asking
    <3> QED BY <1>1, <2>1, <3>1, StoreSame, TypeFrame, LockFrame
  <2> QED BY <2>1, <2>2, <2>3
<1>4. CASE Reroute(f)
  <2>1. /\ ProcsTyped' /\ Acts(f) /\ UNCHANGED <<store, history>> /\ pc[f] = "route"
        /\ \/ Return(f)
           \/ pc'[f] = "lock"
           \/ pc'[f] = "read" /\ lock' = lock /\ place'[f].at = place[f].at
    BY <1>1, <1>4, RerouteDoes
  <2>2. CASE Return(f)
    BY <1>1, <2>1, <2>2, StoreSame, ReturnBasic
  <2>3. CASE \/ pc'[f] = "lock"
             \/ pc'[f] = "read" /\ lock' = lock /\ place'[f].at = place[f].at
    <3>1. FetchLocked(f)' /\ ~Asking(f)'
      BY <1>1, <2>1, <2>3 DEF FetchLocked, Asking
    <3> QED BY <1>1, <2>1, <3>1, StoreSame, TypeFrame, LockFrame
  <2> QED BY <2>1, <2>2, <2>3
<1>5. CASE ReadAuth(f)
  <2>1. /\ ProcsTyped' /\ Acts(f) /\ UNCHANGED <<store, history>> /\ pc[f] = "read"
        /\ \/ Return(f)
           \/ /\ pc'[f] \in {"refresh", "usage"} /\ UNCHANGED <<lock, place>>
              /\ file[Auth(place[f].at)] # Absent /\ copy'[f] = file[Auth(place[f].at)]
    BY <1>1, <1>5, ReadAuthDoes
  <2>2. CASE Return(f)
    BY <1>1, <2>1, <2>2, StoreSame, ReturnBasic
  <2>3. CASE ~Return(f)
    <3>1. FetchLocked(f)' /\ copy'[f] # Absent
      BY <1>1, <2>1, <2>3 DEF FetchLocked
    <3> QED BY <1>1, <2>1, <3>1, StoreSame, TypeFrame, LockFrame
  <2> QED BY <2>2, <2>3
<1>6. CASE Refresh(f)
  <2>1. /\ ProcsTyped' /\ RestTyped' /\ Acts(f) /\ pc[f] = "refresh" /\ file' = file
        /\ \/ Return(f)
           \/ /\ pc'[f] = "save" /\ UNCHANGED <<lock, place>> /\ copy'[f] \in Blobs
    BY <1>6, RefreshDoes
  <2>2. CASE Return(f)
    BY <1>1, <2>1, <2>2, FilesSame, ReturnBasic
  <2>3. CASE ~Return(f)
    <3>1. FetchLocked(f)' /\ copy'[f] # Absent
      BY <1>1, <2>1, <2>3, BlobFields DEF FetchLocked
    <3> QED BY <1>1, <2>1, <3>1, FilesSame, TypeFrame, LockFrame
  <2> QED BY <2>2, <2>3
<1>7. CASE SaveAuth(f)
  <2>1. /\ ProcsTyped' /\ RestTyped' /\ FilesTyped' /\ Acts(f) /\ pc[f] = "save"
        /\ copy[f] \in Blobs
        /\ \/ Return(f)
           \/ pc'[f] = "usage" /\ UNCHANGED <<lock, copy, place>>
    BY <1>7, SaveAuthDoes
  <2>2. CASE Return(f)
    BY <2>1, <2>2, ReturnBasic
  <2>3. CASE ~Return(f)
    <3>1. FetchLocked(f)' /\ copy'[f] # Absent
      BY <1>1, <2>1, <2>3, BlobFields DEF FetchLocked
    <3> QED BY <1>1, <2>1, <3>1, TypeFrame, LockFrame
  <2> QED BY <2>2, <2>3
<1>8. CASE Usage(f)
  <2>1. Return(f) /\ RestTyped' /\ file' = file
    BY <1>8, UsageDoes
  <2> QED BY <1>1, <2>1, FilesSame, ReturnBasic
<1> QED BY <1>2, <1>3, <1>4, <1>5, <1>6, <1>7, <1>8 DEF FetchStep

LEMMA BasicStep ==
  ASSUME TypeInv, LockInv, [Next]_vars
  PROVE  TypeInv' /\ LockInv'
<1>1. TypeOK /\ Absent \notin Procs /\ Absent \notin Switchers /\ Absent \notin Fetchers
  BY Names DEF TypeInv
<1>2. ASSUME NEW s \in Switchers, Begin(s) \/ BeginAdopt(s) \/ SwitchStep(s)
      PROVE  TypeInv' /\ LockInv'
  BY <1>2, BasicSwitch
<1>3. ASSUME NEW f \in Fetchers, Fetch(f) \/ FetchStep(f)
      PROVE  TypeInv' /\ LockInv'
  BY <1>3, BasicFetch
<1>4. ASSUME NEW p \in Procs, Crash(p) PROVE TypeInv' /\ LockInv'
  <2>1. RestTyped' /\ file' = file
    BY <1>1, <1>4, CrashDoes DEF store
  <2>2. FilesTyped'
    BY <1>1, <2>1, FilesSame
  <2> QED BY <1>1, <1>4, <2>1, <2>2, CrashDoes, LeaveBasic, ReturnBasic
<1>5. ASSUME NEW p \in Places, NEW id \in Ids, SignIn(p, id) PROVE TypeInv' /\ LockInv'
  <2>1. ProcsTyped' /\ FilesTyped' /\ RestTyped' /\ Acts(Absent)
    BY <1>1, <1>5, SignInDoes
  <2> QED BY <1>1, <2>1, TypeFrame, LockFrame
<1>6. CASE SessionReloads
  <2>1. ProcsTyped' /\ FilesTyped' /\ RestTyped' /\ Acts(Absent)
    BY <1>1, <1>6, SessionReloadsDoes, FilesSame
  <2> QED BY <1>1, <2>1, TypeFrame, LockFrame
<1>7. CASE SessionRefreshes
  <2>1. ProcsTyped' /\ FilesTyped' /\ RestTyped' /\ Acts(Absent)
    BY <1>1, <1>7, SessionRefreshesDoes
  <2> QED BY <1>1, <2>1, TypeFrame, LockFrame
<1>8. CASE UNCHANGED vars
  <2>1. /\ UNCHANGED <<lock, pc, job, todo, done, copy, place>>
        /\ UNCHANGED <<store, history>>
    BY <1>8 DEF vars, store, history
  <2>2. ProcsTyped' /\ Acts(Absent) /\ FilesTyped' /\ RestTyped'
    BY <1>1, <2>1, SameActs, StoreSame
  <2> QED BY <1>1, <2>2, TypeFrame, LockFrame
<1> QED BY <1>2, <1>3, <1>4, <1>5, <1>6, <1>7, <1>8 DEF Next

(***************************************************************************)
(* The files, the caches, the locks and what is under way have the shape   *)
(* the code gives them.                                                    *)
(***************************************************************************)
THEOREM CodexTypes == Spec => []TypeOK
<1>1. TypeInv /\ LockInv /\ [Next]_vars => TypeInv' /\ LockInv'
  BY BasicStep
<1>2. TypeInv => TypeOK
  BY DEF TypeInv
<1> QED BY <1>1, <1>2, TypeInit, PTL DEF Spec

-----------------------------------------------------------------------------
(* What a step leaves standing. *)

LEMMA Nested ==
  /\ Tidy => Calm
  /\ Fresh => Tidy
  /\ Followed => Tidy
BY DEF Calm, Tidy, Fresh, Followed

LEMMA NoWay ==
  ASSUME mishaps \subseteq mishaps'
  PROVE  (Calm' => Calm) /\ (Tidy' => Tidy) /\ (Fresh' => Fresh) /\ (Followed' => Followed)
BY DEF Calm, Tidy, Fresh, Followed

LEMMA OneMover ==
  ASSUME LockInv, NEW s \in Switchers, NEW x \in Switchers, Moving(s), Moving(x)
  PROVE  s = x
BY DEF LockInv, SwitchLocks

(***************************************************************************)
(* What the parties of a move hold at every stage of it.                   *)
(***************************************************************************)
Carried(l, o, old, new) ==
  /\ file[Auth(Default)] \in {old, new} /\ file[Auth(l)] \in {new, Absent}
  /\ file[Auth(Default)] = new \/ file[Auth(l)] = new
  /\ o # Default => /\ file[Auth(o)] \in {old, Absent}
                    /\ file[Auth(Default)] = old \/ file[Auth(o)] = old

LEMMA StageCarries ==
  ASSUME NEW t, NEW l \in Accounts, NEW o \in Places, NEW old, NEW new,
         Stage(t, l, o, old, new)
  PROVE  Carried(l, o, old, new)
BY Names DEF Stage, Carried

LEMMA WorkCarries ==
  ASSUME NEW s \in Switchers, Moving(s), NEW l \in Accounts, NEW o \in Places, NEW old, NEW new,
         WorkOk(s, l, o, old, new)
  PROVE  Parties(s, l, o, old, new) /\ Carried(l, o, old, new)
<1>1. CASE pc[s] = "move"
  <2>1. Parties(s, l, o, old, new) /\ Stage(todo[s], l, o, old, new)
    BY <1>1 DEF WorkOk, MoveOk
  <2>2. PICK t : t = todo[s]
    OBVIOUS
  <2> QED BY <2>1, <2>2, StageCarries
<1>2. CASE pc[s] = "undo"
  BY <1>2 DEF WorkOk, UndoOk, Restores, Carried
<1> QED BY <1>1, <1>2 DEF Moving

LEMMA Places3 ==
  ASSUME NEW l \in Accounts, NEW o \in Places
  PROVE  /\ l \in Places /\ Default \in Places
         /\ \A p \in Places : p \in {Default, l, o} \/ p \in Elsewhere(l, o)
         /\ \A p \in Elsewhere(l, o) : p \in Places /\ p \notin {Default, l, o}
BY Names DEF Elsewhere

(***************************************************************************)
(* The parties of a move while nothing happens to them.                    *)
(***************************************************************************)
LEMMA PartiesFrame ==
  ASSUME TypeInv, NEW s \in Switchers, NEW l \in Accounts, NEW o \in Places,
         NEW old \in Blobs \cup {Absent}, NEW new \in Blobs, Parties(s, l, o, old, new),
         mishaps \subseteq mishaps', kept' \subseteq kept, session' = Absent,
         \A q \in {Default, l, o} : lock'[q] = s,
         \A q \in Elsewhere(l, o) : IdIn(q)' = IdIn(q),
         Fresh' => \A id \in Ids : issued'[id] = issued[id] \/ \E q \in Elsewhere(l, o) : IdIn(q) = id,
         Default \in Fetchers /\ Followed' => cache'[Default] \in {cache[Default], Absent},
         Forgetting /\ Followed' =>
           Forgetting' \/ (Default \in Fetchers => cache'[Default] = Absent)
  PROVE  Parties(s, l, o, old, new)'
<1>1. Given(l, o, old, new)'
  BY DEF Parties, Given
<1>2. (Tidy => Apart(l, o, old, new))'
  BY NoWay DEF Parties, Apart
<1>3. (Fresh => Untouched(old, new))'
  <2> SUFFICES ASSUME Fresh' PROVE Untouched(old, new)'
    OBVIOUS
  <2>1. Apart(l, o, old, new) /\ Untouched(old, new)
    BY NoWay, Nested DEF Parties
  <2>2. new.id \in Ids /\ (old # Absent => old.id \in Ids)
    BY BlobFields
  <2>3. issued'[new.id] = issued[new.id]
    BY <2>1, <2>2, Names DEF Apart
  <2>4. old # Absent => issued'[old.id] = issued[old.id]
    BY <2>1, <2>2, Names DEF Apart
  <2> QED BY <2>1, <2>3, <2>4 DEF Untouched
<1>4. (Followed => Shown(old))'
  <2> SUFFICES ASSUME Followed', Default \in Fetchers
               PROVE  \/ Forgetting' \/ cache'[Default] = Absent
                      \/ old # Absent /\ cache'[Default] = old.id
    BY DEF Shown
  <2>1. Forgetting \/ cache[Default] = Absent \/ (old # Absent /\ cache[Default] = old.id)
    BY NoWay DEF Parties, Shown
  <2> QED BY <2>1
<1> QED BY <1>1, <1>2, <1>3, <1>4 DEF Parties

LEMMA StageFrame ==
  ASSUME NEW t, NEW l \in Accounts, NEW o \in Places, NEW old, NEW new,
         \A q \in {Default, l, o} : file'[Auth(q)] = file[Auth(q)],
         Stage(t, l, o, old, new)
  PROVE  Stage(t, l, o, old, new)'
BY DEF Stage

(***************************************************************************)
(* A move while another process p takes a step that leaves its files       *)
(* alone.                                                                  *)
(***************************************************************************)
Spares(s) ==
  /\ mishaps \subseteq mishaps' /\ kept' \subseteq kept
  /\ session' = session \/ session' = Absent
  /\ \A q \in Places : lock[q] = s => file'[Auth(q)] = file[Auth(q)]
  /\ \A q \in Places : IdIn(q)' = IdIn(q)
  /\ Fresh' => \A id \in Ids : issued'[id] = issued[id] \/ \E q \in Places : IdIn(q) = id /\ lock[q] # s
  /\ Default \in Fetchers /\ Followed' => cache'[Default] \in {cache[Default], Absent}
  /\ Forgetting /\ Followed' =>
       Forgetting' \/ (Default \in Fetchers => cache'[Default] = Absent)

LEMMA WorkFrame ==
  ASSUME TypeInv, LockInv, NEW p, Acts(p), NEW s \in Switchers, s # p, Moving(s), Spares(s),
         NEW l \in Accounts, NEW o \in Places, NEW old \in Blobs \cup {Absent}, NEW new \in Blobs,
         WorkOk(s, l, o, old, new)
  PROVE  WorkOk(s, l, o, old, new)'
<1>1. Parties(s, l, o, old, new)
  BY WorkCarries
<1>2. pc'[s] = pc[s] /\ todo'[s] = todo[s] /\ done'[s] = done[s]
  BY Names DEF Acts
<1>3. \A q \in {Default, l, o} : q \in Places /\ lock[q] = s
  BY <1>1, Places3 DEF Parties
<1>4. \A q \in {Default, l, o} : lock'[q] = s
  BY <1>3, Names DEF Acts
<1>5. \A q \in {Default, l, o} : file'[Auth(q)] = file[Auth(q)]
  BY <1>3 DEF Spares
<1>6. Parties(s, l, o, old, new)'
  <2>1. session' = Absent
    BY <1>1 DEF Spares, Parties
  <2>2. \A q \in Elsewhere(l, o) : IdIn(q)' = IdIn(q)
    BY Places3 DEF Spares
  <2>3. ASSUME Fresh', NEW id \in Ids
        PROVE  issued'[id] = issued[id] \/ \E q \in Elsewhere(l, o) : IdIn(q) = id
    BY <1>3, <2>3, Places3 DEF Spares
  <2>4. /\ mishaps \subseteq mishaps' /\ kept' \subseteq kept
        /\ Default \in Fetchers /\ Followed' => cache'[Default] \in {cache[Default], Absent}
        /\ Forgetting /\ Followed' =>
             Forgetting' \/ (Default \in Fetchers => cache'[Default] = Absent)
    BY DEF Spares
  <2> QED BY <1>1, <1>4, <2>1, <2>2, <2>3, <2>4, PartiesFrame
<1>7. PICK t, d : t = todo[s] /\ d = done[s]
  OBVIOUS
<1>8. \A u : Journalled(u, l, o, old, new) => Journalled(u, l, o, old, new)'
  BY <1>5 DEF Journalled
<1>9. CASE pc[s] = "move"
  <2>1. /\ Stage(t, l, o, old, new) /\ Journalled(d, l, o, old, new) /\ InOrder(d, o)
        /\ file[Auth(Default)] = old => ~Covers(d, Auth(Default))
    BY <1>7, <1>9 DEF WorkOk, MoveOk
  <2>2. Stage(t, l, o, old, new)'
    BY <1>5, <2>1, StageFrame
  <2>3. Stage(todo[s], l, o, old, new)'
    BY <1>2, <1>7, <2>2
  <2>4. Journalled(done[s], l, o, old, new)' /\ InOrder(done[s], o)'
    BY <1>2, <1>7, <1>8, <2>1
  <2>5. (file[Auth(Default)] = old => ~Covers(done[s], Auth(Default)))'
    BY <1>2, <1>5, <1>7, <2>1
  <2>6. MoveOk(s, l, o, old, new)'
    BY <1>6, <2>3, <2>4, <2>5 DEF MoveOk
  <2> QED BY <1>2, <1>9, <2>6 DEF WorkOk
<1>10. CASE pc[s] = "undo"
  <2>1. Journalled(t, l, o, old, new) /\ InReverse(t, o) /\ Restores(l, o, old, new)
    BY <1>7, <1>10 DEF WorkOk, UndoOk
  <2>2. Restores(l, o, old, new)'
    BY <1>5, <2>1 DEF Restores
  <2>3. Journalled(todo[s], l, o, old, new)' /\ InReverse(todo[s], o)'
    BY <1>2, <1>7, <1>8, <2>1
  <2>4. UndoOk(s, l, o, old, new)'
    BY <1>6, <2>2, <2>3 DEF UndoOk
  <2> QED BY <1>2, <1>10, <2>4 DEF WorkOk
<1> QED BY <1>9, <1>10 DEF Moving

LEMMA WorkAside ==
  ASSUME TypeInv, LockInv, NEW p, Acts(p), p \in Switchers => ~Moving(p)', WorkInv,
         \A s \in Switchers : Moving(s) => Spares(s)
  PROVE  WorkInv'
<1> SUFFICES ASSUME NEW s \in Switchers, Moving(s)'
             PROVE  \E l \in Accounts, o \in Places, old \in Blobs \cup {Absent}, new \in Blobs :
                      WorkOk(s, l, o, old, new)'
  BY DEF WorkInv
<1>1. s # p
  OBVIOUS
<1>2. Moving(s)
  BY <1>1, Names DEF Acts, Moving
<1>3. PICK l \in Accounts, o \in Places, old \in Blobs \cup {Absent}, new \in Blobs :
        WorkOk(s, l, o, old, new)
  BY <1>2 DEF WorkInv
<1>4. WorkOk(s, l, o, old, new)'
  BY <1>1, <1>2, <1>3, WorkFrame
<1> QED BY <1>4

LEMMA KeptAside ==
  ASSUME KeptInv, kept' \subseteq kept, \A q \in Places : IdIn(q)' = IdIn(q)
  PROVE  KeptInv'
BY DEF KeptInv

LEMMA SessionAside ==
  ASSUME SessionInv, session' = session \/ session' = Absent, IdIn(Default)' = IdIn(Default)
  PROVE  SessionInv'
BY DEF SessionInv

LEMMA CopyAside ==
  ASSUME TypeInv, CopyInv, NEW p, Acts(p), p \in Fetchers => CopyOk(p)',
         \A q \in Places : (\E g \in Fetchers : lock[q] = g) => IdIn(q)' = IdIn(q), LockInv
  PROVE  CopyInv'
<1> SUFFICES ASSUME NEW g \in Fetchers, g # p, Asking(g)'
             PROVE  (IdIn(place[g].at) = copy[g].id)'
  BY DEF CopyInv, CopyOk
<1>1. pc'[g] = pc[g] /\ copy'[g] = copy[g] /\ place'[g] = place[g]
  BY Names DEF Acts
<1>2. Asking(g) /\ lock[place[g].at] = g /\ place[g].at \in Places
  BY <1>1, TypeParts DEF Asking, LockInv, FetchLocked, TypeInv, ProcsTyped
<1>3. PICK q \in Places : q = place[g].at
  BY <1>2
<1>4. IdIn(q)' = IdIn(q)
  BY <1>2, <1>3
<1>5. IdIn(q) = copy[g].id
  BY <1>2, <1>3 DEF CopyInv, CopyOk
<1> QED BY <1>1, <1>3, <1>4, <1>5 DEF IdIn

LEMMA RouteAside ==
  ASSUME TypeInv, RouteInv, NEW p, Acts(p), p \in Fetchers => RouteOk(p)', LockInv,
         \A g \in Fetchers : g # p /\ lock[Default] = g /\ place[g].at = Default /\ pc[g] # "idle" =>
           /\ IdIn(g) = Absent => IdIn(g)' = Absent
           /\ g \in Accounts => file'[Marker(g)] = file[Marker(g)]
           /\ IdIn(Default)' = IdIn(Default)
  PROVE  RouteInv'
<1> SUFFICES ASSUME NEW g \in Fetchers, g # p PROVE RouteOk(g)'
  BY DEF RouteInv
<1>1. pc'[g] = pc[g] /\ place'[g] = place[g]
  BY Names DEF Acts
<1>2. RouteOk(g)
  BY DEF RouteInv
<1>3. place'[g].at \in {Default, g}
  BY <1>1, <1>2 DEF RouteOk
<1>4. ASSUME pc'[g] = "read" \/ Asking(g)', place'[g].at # g
      PROVE  (IdIn(g) = Absent /\ g \in Accounts /\ file[Marker(g)] = IdIn(Default))'
  <2>1. pc[g] = "read" \/ Asking(g)
    BY <1>1, <1>4 DEF Asking
  <2>2. lock[Default] = g /\ place[g].at = Default /\ pc[g] # "idle"
    BY <1>1, <1>2, <1>4, <2>1 DEF Asking, LockInv, FetchLocked, RouteOk
  <2>3. IdIn(g) = Absent /\ g \in Accounts /\ file[Marker(g)] = IdIn(Default)
    BY <1>1, <1>2, <1>4, <2>1 DEF RouteOk
  <2> QED BY <2>2, <2>3
<1> QED BY <1>3, <1>4 DEF RouteOk

LEMMA UniqueAside ==
  ASSUME TypeInv, UniqueInv, NEW p, Acts(p),
         p \in Switchers => (Moving(p) => Moving(p)' /\ lock' = lock),
         \A q \in Places : IdIn(q)' = IdIn(q)
  PROVE  UniqueInv'
<1> SUFFICES ASSUME NEW q \in Places, NEW r \in Places, IdIn(q) # Absent, IdIn(q) = IdIn(r), q # r
             PROVE  Held(q, r)'
  BY DEF UniqueInv
<1>1. PICK s \in Switchers : Moving(s) /\ lock[q] = s /\ lock[r] = s
  BY DEF UniqueInv, Held
<1>2. Moving(s)' /\ lock'[q] = s /\ lock'[r] = s
  BY <1>1, Names DEF Acts, Moving
<1> QED BY <1>2 DEF Held

LEMMA UnnamedAside ==
  ASSUME UnnamedInv, NEW p, Acts(p),
         p \in Switchers => (Moving(p) => Moving(p)'), TypeInv,
         Default \in Fetchers => cache'[Default] \in {cache[Default], Absent, IdIn(Default)},
         IdIn(Default)' = IdIn(Default),
         Forgetting => Forgetting' \/ (Default \in Fetchers => cache'[Default] = Absent)
  PROVE  UnnamedInv'
<1> SUFFICES ASSUME Default \in Fetchers,
                    ~(\E x \in Switchers : Moving(x)'), ~Forgetting'
             PROVE  cache'[Default] \in {Absent, IdIn(Default)'}
  BY DEF UnnamedInv
<1>1. \A x \in Switchers : ~Moving(x)
  <2> SUFFICES ASSUME NEW x \in Switchers, Moving(x) PROVE Moving(x)'
    OBVIOUS
  <2> QED BY Names DEF Acts, Moving
<1> QED BY <1>1 DEF UnnamedInv

LEMMA LiveAside ==
  ASSUME TypeInv, LiveInv, NEW p, Acts(p),
         \A q \in Places : file'[Auth(q)] = file[Auth(q)] /\ IdIn(q)' = IdIn(q),
         issued' = issued, session' = session \/ session' = Absent,
         p \in Fetchers => /\ pc[p] # "save" /\ pc'[p] # "save"
                           /\ pc'[p] = "refresh" => copy'[p].rt <= issued[copy'[p].id]
  PROVE  LiveInv'
<1>1. \A g \in Fetchers : g # p => pc'[g] = pc[g] /\ copy'[g] = copy[g] /\ place'[g] = place[g]
  BY Names DEF Acts
<1>2. \A q \in Places, g \in Fetchers : Saves(g, q) => Saves(g, q)'
  BY <1>1 DEF Saves
<1>3. ASSUME NEW q \in Places, file'[Auth(q)] # Absent
      PROVE  /\ file'[Auth(q)].rt <= issued'[IdIn(q)']
             /\ file'[Auth(q)].rt = issued'[IdIn(q)'] \/ \E g \in Fetchers : Saves(g, q)'
  BY <1>2, <1>3 DEF LiveInv
<1>4. \A g \in Fetchers : pc'[g] = "refresh" => copy'[g].rt <= issued'[copy'[g].id]
  BY <1>1 DEF LiveInv
<1>5. session' # Absent => session'.rt <= issued'[session'.id]
  BY DEF LiveInv
<1>6. ASSUME NEW g \in Fetchers, pc'[g] = "save"
      PROVE  /\ copy'[g].rt = issued'[copy'[g].id]
             /\ (file[Auth(place[g].at)].rt < issued[copy[g].id])'
             /\ place'[g].at = Default /\ session' # Absent => session'.rt < issued'[session'.id]
  <2>1. pc[g] = "save" /\ copy'[g] = copy[g] /\ place'[g] = place[g]
    BY <1>1, <1>6
  <2>2. file'[Auth(place[g].at)] = file[Auth(place[g].at)]
    BY TypeParts DEF TypeInv, ProcsTyped
  <2> QED BY <2>1, <2>2 DEF LiveInv
<1> QED BY <1>3, <1>4, <1>5, <1>6 DEF LiveInv

(***************************************************************************)
(* A step that writes no credential: what is left to check of it.          *)
(***************************************************************************)
Quiet(p) ==
  /\ Acts(p) /\ (p \in Switchers => ~Moving(p) /\ ~Moving(p)')
  /\ \A q \in Places : file'[Auth(q)] = file[Auth(q)] /\ IdIn(q)' = IdIn(q)
  /\ \A g \in Accounts : lock[Default] = g => file'[Marker(g)] = file[Marker(g)]
  /\ UNCHANGED <<issued, session>>
  /\ kept' \subseteq kept /\ mishaps \subseteq mishaps'

LEMMA QuietStep ==
  ASSUME Inv, TypeInv', LockInv', NEW p, Quiet(p),
         p \in Fetchers /\ Calm' => CopyOk(p)' /\ RouteOk(p)',
         p \in Fetchers /\ Fresh' =>
           /\ pc[p] # "save" /\ pc'[p] # "save"
           /\ pc'[p] = "refresh" => copy'[p].rt <= issued[copy'[p].id],
         Followed' /\ Default \in Fetchers =>
           \/ cache'[Default] \in {cache[Default], Absent}
           \/ cache'[Default] = IdIn(Default) /\ \A s \in Switchers : ~Moving(s),
         Followed' /\ Forgetting => Forgetting' \/ (Default \in Fetchers => cache'[Default] = Absent)
  PROVE  Inv'
<1>1. /\ TypeInv /\ LockInv /\ Acts(p) /\ (p \in Switchers => ~Moving(p) /\ ~Moving(p)')
      /\ \A q \in Places : file'[Auth(q)] = file[Auth(q)] /\ IdIn(q)' = IdIn(q)
      /\ \A g \in Accounts : lock[Default] = g => file'[Marker(g)] = file[Marker(g)]
      /\ UNCHANGED <<issued, session>> /\ kept' \subseteq kept /\ mishaps \subseteq mishaps'
  BY DEF Inv, Quiet
<1>2. (Calm' => Calm) /\ (Tidy' => Tidy) /\ (Fresh' => Fresh) /\ (Followed' => Followed)
  BY <1>1, NoWay
<1>3. IdIn(Default)' = IdIn(Default)
  BY <1>1, Names
<1>4. ASSUME Calm' PROVE CalmInv'
  <2>1. WorkInv /\ KeptInv /\ SessionInv /\ CopyInv /\ RouteInv
    BY <1>2, <1>4 DEF Inv, CalmInv
  <2>2. \A s \in Switchers : Moving(s) => Spares(s)
    BY <1>1, <1>3 DEF Spares
  <2>3. WorkInv'
    BY <1>1, <2>1, <2>2, WorkAside
  <2>4. KeptInv'
    BY <1>1, <2>1, KeptAside
  <2>5. SessionInv'
    BY <1>1, <1>3, <2>1, SessionAside
  <2>6. CopyInv'
    BY <1>1, <1>4, <2>1, CopyAside
  <2>7. RouteInv'
    <3>1. \A g \in Fetchers : g \in Places
      BY Names
    <3>2. \A g \in Fetchers : IdIn(g) = Absent => IdIn(g)' = Absent
      BY <1>1, <3>1
    <3> QED BY <1>1, <1>3, <1>4, <2>1, <3>2, RouteAside
  <2> QED BY <2>3, <2>4, <2>5, <2>6, <2>7 DEF CalmInv
<1>5. ASSUME Tidy' PROVE UniqueInv'
  BY <1>1, <1>2, <1>5, UniqueAside DEF Inv
<1>6. ASSUME Followed' PROVE UnnamedInv'
  <2>1. UnnamedInv
    BY <1>2, <1>6 DEF Inv
  <2>2. Default \in Fetchers => cache'[Default] \in {cache[Default], Absent, IdIn(Default)}
    BY <1>6
  <2>3. Forgetting => Forgetting' \/ (Default \in Fetchers => cache'[Default] = Absent)
    BY <1>6
  <2> QED BY <1>1, <1>3, <2>1, <2>2, <2>3, UnnamedAside
<1>7. ASSUME Fresh' PROVE LiveInv'
  <2>1. LiveInv
    BY <1>2, <1>7 DEF Inv
  <2> QED BY <1>1, <1>7, <2>1, LiveAside
<1> QED BY <1>4, <1>5, <1>6, <1>7 DEF Inv

LEMMA QuietSwitch ==
  ASSUME Inv, TypeInv', LockInv', NEW s \in Switchers,
         Begin(s) \/ BeginAdopt(s) \/ Lock(s) \/ LockTimesOut(s) \/ Forget(s) \/ Adopt(s)
  PROVE  Inv'
<1>1. TypeInv /\ TypeOK /\ LockInv /\ s \notin Fetchers /\ s \in Procs
  BY Names DEF Inv, TypeInv
<1>2. ASSUME Acts(s), pc[s] \notin {"move", "undo", "forget"}, pc'[s] \notin {"move", "undo"},
             UNCHANGED <<cache, issued, session, history>>,
             \A q \in Places : file'[Auth(q)] = file[Auth(q)] /\ IdIn(q)' = IdIn(q),
             \A g \in Accounts : lock[Default] = g => file'[Marker(g)] = file[Marker(g)]
      PROVE  Inv'
  <2>1. Quiet(s)
    BY <1>2 DEF Quiet, Moving, history
  <2>2. Forgetting => Forgetting'
    BY <1>2, Names DEF Forgetting, Acts
  <2>3. cache' = cache
    BY <1>2
  <2> QED BY <1>1, <2>1, <2>2, <2>3, QuietStep
<1>3. ASSUME UNCHANGED <<store, history>>
      PROVE  /\ UNCHANGED <<cache, issued, session, history>>
             /\ \A q \in Places : file'[Auth(q)] = file[Auth(q)] /\ IdIn(q)' = IdIn(q)
             /\ \A g \in Accounts : lock[Default] = g => file'[Marker(g)] = file[Marker(g)]
  BY <1>1, <1>3, FilesSame DEF store
<1>4. CASE Begin(s) \/ BeginAdopt(s)
  BY <1>1, <1>2, <1>3, <1>4, BeginDoes
<1>5. CASE Lock(s)
  BY <1>1, <1>2, <1>3, <1>5, LockDoes
<1>6. CASE LockTimesOut(s)
  <2>1. pc[s] = "lock" /\ Leave(s, "idle") /\ UNCHANGED <<store, history>>
    BY <1>6 DEF LockTimesOut
  <2> QED BY <1>1, <1>2, <1>3, <2>1, LeaveActs
<1>7. CASE Forget(s)
  <2>1. /\ Acts(s) /\ pc[s] = "forget" /\ pc'[s] = "idle"
        /\ UNCHANGED <<file, issued, session, lock, locals, history>>
        /\ \A f \in Fetchers : cache'[f] = IF f = Default THEN Absent ELSE cache[f]
    BY <1>1, <1>7, ForgetDoes
  <2>2. Quiet(s)
    BY <1>1, <2>1, FilesSame DEF Quiet, Moving, history
  <2>3. Default \in Fetchers => cache'[Default] = Absent
    BY <2>1
  <2> QED BY <1>1, <2>2, <2>3, QuietStep
<1>8. CASE Adopt(s)
  <2>1. /\ Acts(s) /\ pc[s] = "decide" /\ Leave(s, "idle") /\ lock[Default] = s
        /\ UNCHANGED <<cache, issued, session, history>>
        /\ \A q \in Places : file'[Auth(q)] = file[Auth(q)] /\ IdIn(q)' = IdIn(q)
    BY <1>1, <1>8, AdoptDoes
  <2>2. pc'[s] = "idle"
    BY <1>1, <2>1, LeaveActs
  <2>3. \A g \in Accounts : g # s
    BY CodexAssumption, Names
  <2> QED BY <1>2, <2>1, <2>2, <2>3
<1> QED BY <1>4, <1>5, <1>6, <1>7, <1>8

LEMMA ReturnOk ==
  ASSUME TypeOK, NEW f \in Fetchers, Return(f)
  PROVE  CopyOk(f)' /\ RouteOk(f)' /\ pc'[f] = "idle" /\ Acts(f)
BY ReturnActs DEF CopyOk, RouteOk, Asking

(***************************************************************************)
(* The forgetting switches are the same before and after a fetch's step.   *)
(***************************************************************************)
LEMMA ForgettingSame ==
  ASSUME NEW f, f \notin Switchers, Acts(f)
  PROVE  Forgetting => Forgetting'
BY Names DEF Forgetting, Acts

LEMMA QuietFetch ==
  ASSUME Inv, TypeInv', LockInv', NEW f \in Fetchers,
         Fetch(f) \/ FetchLocks(f) \/ Reroute(f) \/ ReadAuth(f)
  PROVE  Inv'
<1>1. TypeInv /\ TypeOK /\ LockInv /\ f \notin Switchers /\ f \in Procs /\ f \in Places
  BY Names DEF Inv, TypeInv
<1>2. ASSUME Acts(f), UNCHANGED <<store, history>>, Calm' => CopyOk(f)' /\ RouteOk(f)',
             Fresh' => pc[f] # "save" /\ pc'[f] # "save"
                       /\ (pc'[f] = "refresh" => copy'[f].rt <= issued[copy'[f].id])
      PROVE  Inv'
  <2>1. Quiet(f)
    BY <1>1, <1>2, FilesSame DEF Quiet, store, history
  <2>2. Forgetting => Forgetting'
    BY <1>1, <1>2, ForgettingSame
  <2>3. cache' = cache
    BY <1>2 DEF store
  <2> QED BY <1>2, <2>1, <2>2, <2>3, QuietStep
<1>3. ASSUME Calm'
      PROVE  UNCHANGED <<store, history>> => Calm /\ CopyOk(f) /\ RouteOk(f)
  <2>1. UNCHANGED <<store, history>> => Calm
    BY <1>3 DEF Calm, history
  <2> QED BY <2>1 DEF Inv, CalmInv, CopyInv, RouteInv
<1>4. CASE Fetch(f)
  <2>1. /\ Acts(f) /\ pc[f] = "idle" /\ pc'[f] = "lock" /\ place'[f].at \in {Default, f}
        /\ UNCHANGED <<store, history>>
    BY <1>1, <1>4, FetchDoes
  <2>2. CopyOk(f)' /\ RouteOk(f)'
    BY <2>1 DEF CopyOk, RouteOk, Asking
  <2> QED BY <1>2, <2>1, <2>2
<1>5. ASSUME Return(f), UNCHANGED <<store, history>>, pc[f] # "save" PROVE Inv'
  BY <1>1, <1>2, <1>5, ReturnOk
<1>6. CASE FetchLocks(f)
  <2>1. /\ Acts(f) /\ pc[f] = "lock" /\ UNCHANGED <<store, history>>
        /\ \/ Return(f)
           \/ pc'[f] = "route" /\ UNCHANGED <<copy, place>>
    BY <1>1, <1>6, FetchLocksDoes
  <2>2. CASE pc'[f] = "route" /\ UNCHANGED <<copy, place>>
    <3>1. Calm' => CopyOk(f)' /\ RouteOk(f)'
      BY <1>3, <2>1, <2>2 DEF CopyOk, RouteOk, Asking
    <3> QED BY <1>2, <2>1, <2>2, <3>1
  <2> QED BY <1>5, <2>1, <2>2
<1>7. CASE Reroute(f)
  <2>1. /\ Acts(f) /\ pc[f] = "route" /\ UNCHANGED <<store, history>>
        /\ \/ Return(f)
           \/ pc'[f] = "lock" /\ place'[f].at = Route(f)
           \/ /\ pc'[f] = "read" /\ lock' = lock
              /\ place'[f].at = place[f].at /\ Route(f) = place[f].at
    BY <1>1, <1>7, RerouteDoes
  <2>2. CASE pc'[f] = "lock" /\ place'[f].at = Route(f)
    <3>1. CopyOk(f)' /\ RouteOk(f)'
      BY <2>2, RouteIs DEF CopyOk, RouteOk, Asking
    <3> QED BY <1>2, <2>1, <2>2, <3>1
  <2>3. CASE /\ pc'[f] = "read" /\ lock' = lock
             /\ place'[f].at = place[f].at /\ Route(f) = place[f].at
    <3>1. CopyOk(f)'
      BY <2>3 DEF CopyOk, Asking
    <3>2. ASSUME place[f].at # f
          PROVE  IdIn(f) = Absent /\ f \in Accounts /\ file[Marker(f)] = IdIn(Default)
      <4>1. f \in Accounts /\ Owners = {f} /\ file[Auth(f)] = Absent
        BY <2>3, <3>2, RouteIs
      <4>2. IdIn(f) = Absent /\ Identity(f) = IdIn(Default)
        BY <4>1 DEF IdIn, Owners
      <4> QED BY <4>1, <4>2 DEF Identity
    <3>3. file' = file
      BY <2>1 DEF store
    <3>4. RouteOk(f)'
      <4>1. place'[f].at \in {Default, f}
        BY <2>3, RouteIs
      <4>2. place'[f].at = f \/ (IdIn(f) = Absent /\ f \in Accounts /\ file[Marker(f)] = IdIn(Default))'
        BY <2>3, <3>2, <3>3 DEF IdIn
      <4> QED BY <4>1, <4>2 DEF RouteOk
    <3> QED BY <1>2, <2>1, <2>3, <3>1, <3>4
  <2> QED BY <1>5, <2>1, <2>2, <2>3
<1>8. CASE ReadAuth(f)
  <2>1. /\ Acts(f) /\ pc[f] = "read" /\ UNCHANGED <<store, history>>
        /\ \/ Return(f)
           \/ /\ pc'[f] \in {"refresh", "usage"} /\ UNCHANGED <<lock, place>>
              /\ file[Auth(place[f].at)] # Absent /\ copy'[f] = file[Auth(place[f].at)]
    BY <1>1, <1>8, ReadAuthDoes
  <2>2. CASE /\ pc'[f] \in {"refresh", "usage"} /\ UNCHANGED <<lock, place>>
             /\ file[Auth(place[f].at)] # Absent /\ copy'[f] = file[Auth(place[f].at)]
    <3>1. PICK at \in Places : at = place[f].at
      BY <1>1, TypeParts DEF ProcsTyped
    <3>2. IdIn(at) = copy'[f].id /\ file' = file
      BY <2>1, <2>2, <3>1 DEF IdIn, store
    <3>3. place'[f].at = at /\ IdIn(at)' = IdIn(at)
      BY <1>1, <2>2, <3>1, <3>2, FilesSame
    <3>4. CopyOk(f)'
      BY <3>2, <3>3 DEF CopyOk, IdIn
    <3>5. Calm' => RouteOk(f)'
      <4> SUFFICES ASSUME Calm' PROVE RouteOk(f)'
        OBVIOUS
      <4>1. RouteOk(f)
        BY <1>3, <2>1
      <4> QED BY <2>1, <2>2, <3>2, <4>1 DEF RouteOk, Asking, IdIn
    <3>6. Fresh' => copy'[f].rt <= issued[copy'[f].id]
      <4> SUFFICES ASSUME Fresh' PROVE copy'[f].rt <= issued[copy'[f].id]
        OBVIOUS
      <4>1. Fresh
        BY <2>1 DEF Fresh, history
      <4>2. file[Auth(at)].rt <= issued[IdIn(at)]
        BY <2>2, <3>1, <4>1 DEF Inv, LiveInv
      <4> QED BY <2>2, <3>1, <3>2, <4>2
    <3> QED BY <1>2, <2>1, <2>2, <3>4, <3>5, <3>6
  <2> QED BY <1>5, <2>1, <2>2
<1> QED BY <1>4, <1>6, <1>7, <1>8

LEMMA UsageOk ==
  ASSUME Inv, TypeInv', LockInv', NEW f \in Fetchers, Usage(f)
  PROVE  Inv'
<1>1. TypeInv /\ TypeOK /\ LockInv /\ f \notin Switchers
  BY Names DEF Inv, TypeInv
<1>2. /\ pc[f] = "usage" /\ Return(f) /\ UNCHANGED <<file, issued, session, history>>
      /\ \A g \in Fetchers : g # f => cache'[g] = cache[g]
      /\ cache'[f] = cache[f] \/ cache'[f] = copy[f].id
  BY <1>1, UsageDoes
<1>3. CopyOk(f)' /\ RouteOk(f)' /\ pc'[f] = "idle" /\ Acts(f)
  BY <1>1, <1>2, ReturnOk
<1>4. Quiet(f)
  BY <1>1, <1>2, <1>3, FilesSame DEF Quiet, history
<1>5. Forgetting => Forgetting'
  BY <1>1, <1>3, ForgettingSame
<1>6. ASSUME Followed', f = Default
      PROVE  cache'[Default] = cache[Default]
             \/ (cache'[Default] = IdIn(Default) /\ \A s \in Switchers : ~Moving(s))
  <2>1. Calm
    BY <1>2, <1>6, Nested DEF Followed, Tidy, Calm, history
  <2>2. IdIn(place[f].at) = copy[f].id /\ place[f].at \in {Default, f}
    BY <1>2, <2>1 DEF Inv, CalmInv, CopyInv, CopyOk, RouteInv, RouteOk, Asking
  <2>3. IdIn(Default) = copy[f].id
    BY <1>6, <2>2
  <2>4. lock[Default] = f
    BY <1>1, <1>2, <1>6, <2>2 DEF LockInv, FetchLocked
  <2>5. \A s \in Switchers : ~Moving(s)
    BY <1>1, <2>4 DEF LockInv, SwitchLocks
  <2> QED BY <1>2, <1>6, <2>3, <2>5
<1>7. Followed' /\ Default \in Fetchers =>
        \/ cache'[Default] \in {cache[Default], Absent}
        \/ cache'[Default] = IdIn(Default) /\ \A s \in Switchers : ~Moving(s)
  BY <1>2, <1>6
<1> QED BY <1>2, <1>3, <1>4, <1>5, <1>7, QuietStep

(***************************************************************************)
(* Where the login of a fetch is: in one place only.                       *)
(***************************************************************************)
LEMMA AskedAlone ==
  ASSUME Inv, Tidy, NEW f \in Fetchers, Asking(f)
  PROVE  /\ place[f].at \in Places /\ lock[place[f].at] = f
         /\ IdIn(place[f].at) = copy[f].id /\ copy[f] \in Blobs
         /\ \A q \in Places : IdIn(q) = copy[f].id => q = place[f].at
         /\ \A g \in Fetchers : Asking(g) /\ copy[g].id = copy[f].id => g = f
<1>1. TypeInv /\ TypeOK /\ LockInv /\ f \notin Switchers /\ Calm
  BY Names, Nested DEF Inv, TypeInv
<1>2. ASSUME NEW g \in Fetchers, Asking(g)
      PROVE  /\ place[g].at \in Places /\ lock[place[g].at] = g
             /\ IdIn(place[g].at) = copy[g].id /\ copy[g] \in Blobs
  <2>1. place[g].at \in Places /\ lock[place[g].at] = g
    BY <1>1, <1>2, TypeParts DEF ProcsTyped, LockInv, FetchLocked, Asking
  <2>2. copy[g] \in Blobs
    BY <1>1, <1>2, TypeParts DEF ProcsTyped, TypeInv
  <2>3. IdIn(place[g].at) = copy[g].id
    BY <1>1, <1>2 DEF Inv, CalmInv, CopyInv, CopyOk
  <2> QED BY <2>1, <2>2, <2>3
<1>3. ASSUME NEW q \in Places, IdIn(q) = copy[f].id PROVE q = place[f].at
  <2>1. copy[f].id # Absent
    BY <1>2, BlobFields, Names
  <2>2. q = place[f].at \/ Held(q, place[f].at)
    BY <1>2, <1>3, <2>1 DEF Inv, UniqueInv
  <2> QED BY <1>1, <1>2, <2>2 DEF Held
<1> QED BY <1>2, <1>3

LEMMA RefreshLive ==
  ASSUME Inv, Fresh, NEW f \in Fetchers, Refresh(f), pc'[f] = "save",
         UNCHANGED <<file, session>>, Acts(f), place' = place, pc[f] = "refresh",
         copy[f].rt = issued[copy[f].id], issued' = [issued EXCEPT ![copy[f].id] = @ + 1],
         copy'[f].id = copy[f].id, copy'[f].rt = copy[f].rt + 1
  PROVE  LiveInv'
<1>1. TypeOK /\ Tidy /\ LiveInv /\ Asking(f) /\ Calm
  BY Nested DEF Inv, TypeInv, Asking
<1>2. PICK id, at : id = copy[f].id /\ at = place[f].at
  OBVIOUS
<1>3. /\ at \in Places /\ IdIn(at) = id /\ id \in Ids
      /\ \A q \in Places : IdIn(q) = id => q = at
      /\ \A g \in Fetchers : Asking(g) /\ copy[g].id = id => g = f
  BY <1>1, <1>2, AskedAlone, BlobFields
<1>4. /\ issued'[id] = issued[id] + 1 /\ issued[id] \in Nat
      /\ \A i \in Ids : i # id => issued'[i] = issued[i]
      /\ \A i \in Ids : issued[i] \in Nat /\ issued'[i] \in Nat /\ issued'[i] >= issued[i]
  BY <1>1, <1>2, <1>3, IssuedNext
<1>5. \A g \in Fetchers : g # f => pc'[g] = pc[g] /\ copy'[g] = copy[g]
  BY Names DEF Acts
<1>6. \A q \in Places : file'[Auth(q)] = file[Auth(q)] /\ IdIn(q)' = IdIn(q)
  BY <1>1, FilesSame
<1>7. \A q \in Places : file[Auth(q)] # Absent =>
        file[Auth(q)] \in Blobs /\ IdIn(q) \in Ids /\ file[Auth(q)].rt \in Nat
  BY <1>1, IdFacts, BlobFields
<1>8. ASSUME NEW q \in Places, file'[Auth(q)] # Absent
      PROVE  /\ file'[Auth(q)].rt <= issued'[IdIn(q)']
             /\ file'[Auth(q)].rt = issued'[IdIn(q)'] \/ \E g \in Fetchers : Saves(g, q)'
  <2>1. file[Auth(q)].rt <= issued[IdIn(q)]
        /\ (file[Auth(q)].rt = issued[IdIn(q)] \/ \E g \in Fetchers : Saves(g, q))
    BY <1>1, <1>6, <1>8 DEF LiveInv
  <2>2. file'[Auth(q)].rt <= issued'[IdIn(q)']
    BY <1>4, <1>6, <1>7, <1>8, <2>1
  <2>3. CASE q = at
    <3>1. Saves(f, q)'
      BY <1>2, <2>3 DEF Saves
    <3> QED BY <2>2, <3>1
  <2>4. CASE q # at
    <3>1. issued'[IdIn(q)] = issued[IdIn(q)]
      BY <1>3, <1>4, <1>6, <1>7, <1>8, <2>4
    <3>2. \A g \in Fetchers : Saves(g, q) => Saves(g, q)'
      BY <1>5 DEF Saves
    <3> QED BY <1>6, <2>1, <2>2, <3>1, <3>2
  <2> QED BY <2>3, <2>4
<1>9. ASSUME NEW g \in Fetchers, pc'[g] = "refresh" PROVE copy'[g].rt <= issued'[copy'[g].id]
  <2>1. g # f /\ pc[g] = "refresh" /\ copy'[g] = copy[g]
    BY <1>5, <1>9
  <2>2. copy[g].rt <= issued[copy[g].id] /\ copy[g] \in Blobs
    BY <1>1, <2>1, AskedAlone DEF LiveInv, Asking
  <2> QED BY <1>4, <2>1, <2>2, BlobFields
<1>10. session' # Absent => session'.rt <= issued'[session'.id]
  <2>1. session # Absent => session \in Blobs
    BY <1>1, TypeParts DEF RestTyped
  <2> QED BY <1>1, <1>4, <2>1, BlobFields DEF LiveInv
<1>11. ASSUME NEW g \in Fetchers, pc'[g] = "save"
       PROVE  /\ copy'[g].rt = issued'[copy'[g].id]
              /\ (file[Auth(place[g].at)].rt < issued[copy[g].id])'
              /\ place'[g].at = Default /\ session' # Absent => session'.rt < issued'[session'.id]
  <2>1. session # Absent => session \in Blobs /\ IdIn(Default) = session.id
                            /\ session.rt <= issued[session.id] /\ session.rt \in Nat
    BY <1>1, TypeParts, BlobFields DEF RestTyped, LiveInv, Inv, CalmInv, SessionInv
  <2>2. CASE g = f
    <3>1. copy'[g].rt = issued'[copy'[g].id]
      BY <1>2, <1>4, <2>2
    <3>2. ASSUME place'[g].at = Default, session' # Absent PROVE session'.rt < issued'[session'.id]
      <4>1. session.id = id
        BY <1>2, <1>3, <2>1, <2>2, <3>2
      <4> QED BY <1>4, <2>1, <3>2, <4>1
    <3>3. file[Auth(at)].rt < issued'[id]
      <4>1. file[Auth(at)] # Absent
        BY <1>1, <1>3, IdFacts, BlobFields, Names
      <4>2. file[Auth(at)].rt <= issued[id] /\ file[Auth(at)].rt \in Nat
        BY <1>1, <1>3, <1>7, <4>1 DEF LiveInv
      <4> QED BY <1>4, <4>2
    <3>4. (file[Auth(place[g].at)].rt < issued[copy[g].id])'
      BY <1>2, <2>2, <3>3
    <3> QED BY <3>1, <3>2, <3>4
  <2>3. CASE g # f
    <3>1. pc[g] = "save" /\ copy'[g] = copy[g] /\ Asking(g)
      BY <1>5, <1>11, <2>3 DEF Asking
    <3>2. /\ copy[g].id # id /\ copy[g] \in Blobs /\ IdIn(place[g].at) = copy[g].id
          /\ place'[g] = place[g]
      BY <1>1, <1>3, <2>3, <3>1, AskedAlone
    <3>3. copy'[g].rt = issued'[copy'[g].id]
      BY <1>1, <1>4, <3>1, <3>2, BlobFields DEF LiveInv
    <3>4. ASSUME place'[g].at = Default, session' # Absent PROVE session'.rt < issued'[session'.id]
      <4>1. session.id = copy[g].id /\ session.id \in Ids
        BY <2>1, <3>2, <3>4, BlobFields
      <4>2. issued'[session.id] = issued[session.id]
        BY <1>4, <3>2, <4>1
      <4>3. session.rt < issued[session.id]
        BY <1>1, <3>1, <3>4 DEF LiveInv
      <4> QED BY <4>2, <4>3
    <3>5. (file[Auth(place[g].at)].rt < issued[copy[g].id])'
      <4>1. file[Auth(place[g].at)].rt < issued[copy[g].id]
        BY <1>1, <3>1 DEF LiveInv
      <4> QED BY <1>4, <3>1, <3>2, <4>1, BlobFields
    <3> QED BY <3>3, <3>4, <3>5
  <2> QED BY <2>2, <2>3
<1> QED BY <1>8, <1>9, <1>10, <1>11 DEF LiveInv

LEMMA RefreshOk ==
  ASSUME Inv, TypeInv', LockInv', NEW f \in Fetchers, Refresh(f)
  PROVE  Inv'
<1>1. TypeInv /\ TypeOK /\ LockInv /\ f \notin Switchers
  BY Names DEF Inv, TypeInv
<1>2. /\ Acts(f) /\ pc[f] = "refresh" /\ UNCHANGED <<file, cache, session, kept>>
      /\ mishaps \subseteq mishaps'
      /\ \/ Return(f) /\ issued' = issued
         \/ Return(f) /\ "lost" \in mishaps'
         \/ /\ pc'[f] = "save" /\ UNCHANGED <<lock, place, mishaps>>
            /\ copy[f].rt = issued[copy[f].id]
            /\ issued' = [issued EXCEPT ![copy[f].id] = @ + 1]
            /\ copy'[f] \in Blobs /\ copy'[f].id = copy[f].id /\ copy'[f].rt = copy[f].rt + 1
  BY <1>1, RefreshDoes
<1>3. Forgetting => Forgetting'
  BY <1>1, <1>2, ForgettingSame
<1>4. \A q \in Places : file'[Auth(q)] = file[Auth(q)] /\ IdIn(q)' = IdIn(q)
  BY <1>1, <1>2, FilesSame
<1>5. CASE Return(f) /\ issued' = issued
  <2>1. CopyOk(f)' /\ RouteOk(f)' /\ pc'[f] = "idle"
    BY <1>1, <1>5, ReturnOk
  <2>2. Quiet(f)
    BY <1>1, <1>2, <1>4, <1>5 DEF Quiet
  <2>3. cache' = cache
    BY <1>2
  <2> QED BY <1>2, <1>3, <2>1, <2>2, <2>3, QuietStep
<1>6. CASE ~(Return(f) /\ issued' = issued)
  <2>1. (Calm' => Calm) /\ (Tidy' => Tidy) /\ (Fresh' => Fresh) /\ (Followed' => Followed)
    BY <1>2, NoWay
  <2>2. ASSUME Calm' PROVE CopyOk(f)' /\ RouteOk(f)'
    <3>1. CopyOk(f) /\ RouteOk(f)
      BY <2>1, <2>2 DEF Inv, CalmInv, CopyInv, RouteInv
    <3>2. CASE Return(f)
      BY <1>1, <3>2, ReturnOk
    <3>3. CASE ~Return(f)
      <4>1. pc'[f] = "save" /\ place' = place /\ copy'[f].id = copy[f].id /\ file' = file
        BY <1>2, <3>3
      <4> QED BY <1>2, <3>1, <4>1 DEF CopyOk, RouteOk, Asking, IdIn
    <3> QED BY <3>2, <3>3
  <2>3. ASSUME Calm' PROVE CalmInv'
    <3>1. WorkInv /\ KeptInv /\ SessionInv /\ CopyInv /\ RouteInv
      BY <2>1, <2>3 DEF Inv, CalmInv
    <3>2. Fresh' => issued' = [issued EXCEPT ![copy[f].id] = @ + 1]
      BY <1>2, <1>6 DEF Fresh
    <3>3. ASSUME NEW s \in Switchers, Moving(s) PROVE Spares(s)
      <4>1. ASSUME Fresh', NEW id \in Ids
            PROVE  issued'[id] = issued[id] \/ \E q \in Places : IdIn(q) = id /\ lock[q] # s
        <5>1. Tidy /\ Asking(f)
          BY <1>2, <2>1, <4>1, Nested DEF Asking
        <5>2. place[f].at \in Places /\ lock[place[f].at] = f /\ IdIn(place[f].at) = copy[f].id
          BY <5>1, AskedAlone
        <5>3. copy[f].id \in Ids
          BY <5>1, AskedAlone, BlobFields
        <5>4. id # copy[f].id => issued'[id] = issued[id]
          BY <1>1, <3>2, <4>1, <5>3, IssuedNext
        <5> QED BY <1>1, <5>2, <5>4
      <4> QED BY <1>2, <1>3, <1>4, <4>1 DEF Spares
    <3>4. WorkInv'
      BY <1>1, <1>2, <3>1, <3>3, WorkAside
    <3>5. KeptInv'
      BY <1>2, <1>4, <3>1, KeptAside
    <3>6. SessionInv'
      BY <1>2, <1>4, <3>1, Names, SessionAside
    <3>7. CopyInv'
      BY <1>1, <1>2, <1>4, <2>2, <2>3, <3>1, CopyAside
    <3>8. RouteInv'
      <4>1. \A g \in Fetchers : g \in Places
        BY Names
      <4>2. IdIn(Default)' = IdIn(Default) /\ \A g \in Fetchers : IdIn(g) = Absent => IdIn(g)' = Absent
        BY <1>4, <4>1, Names
      <4> QED BY <1>1, <1>2, <2>2, <2>3, <3>1, <4>2, RouteAside
    <3> QED BY <3>4, <3>5, <3>6, <3>7, <3>8 DEF CalmInv
  <2>4. ASSUME Tidy' PROVE UniqueInv'
    BY <1>1, <1>2, <1>4, <2>1, <2>4, UniqueAside DEF Inv
  <2>5. ASSUME Followed' PROVE UnnamedInv'
    <3>1. IdIn(Default)' = IdIn(Default) /\ cache' = cache
      BY <1>2, <1>4, Names
    <3> QED BY <1>1, <1>2, <1>3, <2>1, <2>5, <3>1, UnnamedAside DEF Inv
  <2>6. ASSUME Fresh' PROVE LiveInv'
    <3>1. /\ pc'[f] = "save" /\ place' = place
          /\ copy[f].rt = issued[copy[f].id]
          /\ issued' = [issued EXCEPT ![copy[f].id] = @ + 1]
          /\ copy'[f].id = copy[f].id /\ copy'[f].rt = copy[f].rt + 1
      BY <1>2, <1>6, <2>6 DEF Fresh
    <3> QED BY <1>2, <2>1, <2>6, <3>1, RefreshLive
  <2> QED BY <2>3, <2>4, <2>5, <2>6 DEF Inv
<1> QED BY <1>5, <1>6

LEMMA SaveAuthLive ==
  ASSUME Inv, Fresh, NEW f \in Fetchers, Acts(f), pc[f] = "save", pc'[f] = "usage",
         UNCHANGED <<copy, place, issued, session>>,
         file' = [file EXCEPT ![Auth(place[f].at)] = copy[f]]
  PROVE  LiveInv'
<1>1. TypeInv /\ TypeOK /\ Tidy /\ LiveInv /\ Asking(f)
  BY Nested DEF Inv, TypeInv, Asking
<1>2. PICK at, c : at = place[f].at /\ c = copy[f]
  OBVIOUS
<1>3. at \in Places /\ c \in Blobs /\ IdIn(at) = c.id
  BY <1>1, <1>2, AskedAlone
<1>4. c.rt = issued[c.id] /\ c.rt \in Nat /\ c # Absent
  BY <1>1, <1>2, <1>3, BlobFields DEF LiveInv
<1>5. /\ file'[Auth(at)] = c /\ IdIn(at)' = c.id
      /\ \A q \in Places : q # at => file'[Auth(q)] = file[Auth(q)] /\ IdIn(q)' = IdIn(q)
  BY <1>1, <1>2, <1>3, <1>4, AuthWritten
<1>6. \A g \in Fetchers : g # f => pc'[g] = pc[g]
  BY Names DEF Acts
<1>7. \A g \in Fetchers : pc'[g] \in {"refresh", "save"} => pc[g] = pc'[g]
  BY <1>6
<1>8. ASSUME NEW q \in Places, file'[Auth(q)] # Absent
      PROVE  /\ file'[Auth(q)].rt <= issued'[IdIn(q)']
             /\ file'[Auth(q)].rt = issued'[IdIn(q)'] \/ \E g \in Fetchers : Saves(g, q)'
  <2>1. CASE q = at
    BY <1>4, <1>5, <2>1
  <2>2. CASE q # at
    <3>1. /\ file[Auth(q)].rt <= issued[IdIn(q)]
          /\ file[Auth(q)].rt = issued[IdIn(q)] \/ \E g \in Fetchers : Saves(g, q)
      BY <1>1, <1>5, <1>8, <2>2 DEF LiveInv
    <3>2. \A g \in Fetchers : Saves(g, q) => Saves(g, q)'
      BY <1>2, <1>6, <2>2 DEF Saves
    <3> QED BY <1>5, <2>2, <3>1, <3>2
  <2> QED BY <2>1, <2>2
<1>9. \A g \in Fetchers : pc'[g] = "refresh" => copy'[g].rt <= issued'[copy'[g].id]
  BY <1>1, <1>7 DEF LiveInv
<1>10. session' # Absent => session'.rt <= issued'[session'.id]
  BY <1>1 DEF LiveInv
<1>11. ASSUME NEW g \in Fetchers, pc'[g] = "save"
       PROVE  /\ copy'[g].rt = issued'[copy'[g].id]
              /\ (file[Auth(place[g].at)].rt < issued[copy[g].id])'
              /\ place'[g].at = Default /\ session' # Absent => session'.rt < issued'[session'.id]
  <2>1. pc[g] = "save" /\ Asking(g) /\ g # f
    BY <1>7, <1>11 DEF Asking
  <2>2. place[g].at \in Places /\ place[g].at # at
    BY <1>1, <1>2, <2>1, AskedAlone
  <2>3. file'[Auth(place[g].at)] = file[Auth(place[g].at)]
    BY <1>5, <2>2
  <2> QED BY <1>1, <2>1, <2>3 DEF LiveInv
<1> QED BY <1>8, <1>9, <1>10, <1>11 DEF LiveInv

LEMMA SaveAuthOk ==
  ASSUME Inv, TypeInv', LockInv', NEW f \in Fetchers, SaveAuth(f)
  PROVE  Inv'
<1>1. TypeInv /\ TypeOK /\ LockInv /\ f \notin Switchers
  BY Names DEF Inv, TypeInv
<1>2. /\ Acts(f) /\ pc[f] = "save" /\ UNCHANGED <<cache, issued, session, kept>>
      /\ mishaps \subseteq mishaps'
      /\ \/ Return(f) /\ "lost" \in mishaps' /\ file' = file
         \/ /\ pc'[f] = "usage" /\ UNCHANGED <<lock, copy, place, mishaps>>
            /\ file' = [file EXCEPT ![Auth(place[f].at)] = copy[f]]
  BY <1>1, SaveAuthDoes
<1>3. Forgetting => Forgetting'
  BY <1>1, <1>2, ForgettingSame
<1>4. CASE Return(f) /\ "lost" \in mishaps' /\ file' = file
  <2>1. CopyOk(f)' /\ RouteOk(f)'
    BY <1>1, <1>4, ReturnOk
  <2>2. Quiet(f)
    BY <1>1, <1>2, <1>4, FilesSame DEF Quiet
  <2>3. ~Fresh'
    BY <1>4 DEF Fresh
  <2>4. cache' = cache
    BY <1>2
  <2> QED BY <1>3, <2>1, <2>2, <2>3, <2>4, QuietStep
<1>5. CASE /\ pc'[f] = "usage" /\ UNCHANGED <<lock, copy, place, mishaps>>
           /\ file' = [file EXCEPT ![Auth(place[f].at)] = copy[f]]
  <2>1. (Calm' => Calm) /\ (Tidy' => Tidy) /\ (Fresh' => Fresh) /\ (Followed' => Followed)
    BY <1>2, NoWay
  <2>2. ASSUME Calm
        PROVE  /\ \A q \in Places : IdIn(q)' = IdIn(q)
               /\ \A q \in Places : lock[q] # f => file'[Auth(q)] = file[Auth(q)]
               /\ \A a \in Accounts : file'[Marker(a)] = file[Marker(a)]
    <3>1. PICK at, c : at = place[f].at /\ c = copy[f]
      OBVIOUS
    <3>2. at \in Places /\ lock[at] = f /\ c \in Blobs /\ c # Absent
      BY <1>1, <1>2, <3>1, TypeParts DEF ProcsTyped, LockInv, FetchLocked, TypeInv, Asking
    <3>3. IdIn(at) = c.id
      BY <1>2, <2>2, <3>1 DEF Inv, CalmInv, CopyInv, CopyOk, Asking
    <3> QED BY <1>1, <1>5, <3>1, <3>2, <3>3, AuthWritten
  <2>3. ASSUME Calm' PROVE CalmInv'
    <3>1. WorkInv /\ KeptInv /\ SessionInv /\ CopyInv /\ RouteInv /\ Calm
      BY <2>1, <2>3 DEF Inv, CalmInv
    <3>2. /\ \A q \in Places : IdIn(q)' = IdIn(q)
          /\ \A q \in Places : lock[q] # f => file'[Auth(q)] = file[Auth(q)]
          /\ \A a \in Accounts : file'[Marker(a)] = file[Marker(a)]
      BY <2>2, <3>1
    <3>3. ASSUME NEW s \in Switchers, Moving(s) PROVE Spares(s)
      BY <1>1, <1>2, <1>3, <3>2 DEF Spares
    <3>4. WorkInv'
      BY <1>1, <1>2, <3>1, <3>3, WorkAside
    <3>5. KeptInv'
      BY <1>2, <3>1, <3>2, KeptAside
    <3>6. SessionInv'
      BY <1>2, <3>1, <3>2, Names, SessionAside
    <3>7. CopyOk(f)'
      <4>1. place[f].at \in Places /\ IdIn(place[f].at) = copy[f].id
        BY <1>1, <1>2, <3>1, TypeParts DEF ProcsTyped, CopyInv, CopyOk, Asking
      <4>2. PICK at \in Places : at = place[f].at
        BY <4>1
      <4>3. IdIn(at)' = copy[f].id
        BY <3>2, <4>1, <4>2
      <4> QED BY <1>5, <4>2, <4>3 DEF CopyOk, IdIn
    <3>8. RouteOk(f)'
      <4>1. RouteOk(f) /\ f \in Places /\ Default \in Places
        BY <3>1, Names DEF RouteInv
      <4>2. IdIn(f)' = IdIn(f) /\ IdIn(Default)' = IdIn(Default)
        BY <3>2, <4>1
      <4> QED BY <1>2, <1>5, <3>2, <4>1, <4>2 DEF RouteOk, Asking
    <3>9. CopyInv'
      BY <1>1, <1>2, <3>1, <3>2, <3>7, CopyAside
    <3>10. RouteInv'
      <4>1. IdIn(Default)' = IdIn(Default) /\ \A g \in Fetchers : IdIn(g) = Absent => IdIn(g)' = Absent
        BY <3>2, Names
      <4> QED BY <1>1, <1>2, <3>1, <3>2, <3>8, <4>1, RouteAside
    <3> QED BY <3>4, <3>5, <3>6, <3>9, <3>10 DEF CalmInv
  <2>4. ASSUME Tidy' PROVE UniqueInv'
    <3>1. \A q \in Places : IdIn(q)' = IdIn(q)
      BY <2>1, <2>2, <2>4, Nested
    <3> QED BY <1>1, <1>2, <2>1, <2>4, <3>1, UniqueAside DEF Inv
  <2>5. ASSUME Followed' PROVE UnnamedInv'
    <3>1. IdIn(Default)' = IdIn(Default) /\ cache' = cache
      BY <1>2, <2>1, <2>2, <2>5, Nested, Names
    <3> QED BY <1>1, <1>2, <1>3, <2>1, <2>5, <3>1, UnnamedAside DEF Inv
  <2>6. ASSUME Fresh' PROVE LiveInv'
    BY <1>2, <1>5, <2>1, <2>6, SaveAuthLive
  <2> QED BY <2>3, <2>4, <2>5, <2>6 DEF Inv
<1> QED BY <1>2, <1>4, <1>5

(***************************************************************************)
(* A sign-in: its account is signed in nowhere, and no switch moves.       *)
(***************************************************************************)
LEMMA SignInLive ==
  ASSUME Inv, Fresh, NEW p \in Places, NEW id \in Ids, SignIn(p, id)
  PROVE  LiveInv'
<1>1. TypeInv /\ TypeOK /\ Tidy /\ LiveInv
  BY Nested DEF Inv, TypeInv
<1>2. /\ UNCHANGED <<lock, pc, locals, cache, session>> /\ session = Absent
      /\ \A q \in Places : IdIn(q) # id
      /\ issued' = [issued EXCEPT ![id] = @ + 1]
      /\ file' = [file EXCEPT ![Auth(p)] = [id |-> id, rt |-> issued[id] + 1]]
      /\ [id |-> id, rt |-> issued[id] + 1] \in Blobs
  BY <1>1, SignInDoes
<1>3. /\ issued'[id] = issued[id] + 1 /\ issued[id] \in Nat
      /\ \A i \in Ids : i # id => issued'[i] = issued[i]
  BY <1>1, <1>2, IssuedNext
<1>4. PICK c \in Blobs : c = [id |-> id, rt |-> issued[id] + 1]
  BY <1>2
<1>5. c.id = id /\ c.rt = issued[id] + 1 /\ c # Absent
  BY <1>4, BlobFields
<1>6. /\ file'[Auth(p)] = c /\ IdIn(p)' = id
      /\ \A q \in Places : q # p => file'[Auth(q)] = file[Auth(q)] /\ IdIn(q)' = IdIn(q)
  BY <1>1, <1>2, <1>4, <1>5, AuthWritten
<1>7. \A g \in Fetchers, q \in Places : Saves(g, q) => Saves(g, q)'
  BY <1>2 DEF Saves, locals
<1>8. ASSUME NEW q \in Places, file'[Auth(q)] # Absent
      PROVE  /\ file'[Auth(q)].rt <= issued'[IdIn(q)']
             /\ file'[Auth(q)].rt = issued'[IdIn(q)'] \/ \E g \in Fetchers : Saves(g, q)'
  <2>1. CASE q = p
    BY <1>3, <1>5, <1>6, <2>1
  <2>2. CASE q # p
    <3>1. /\ file[Auth(q)].rt <= issued[IdIn(q)]
          /\ file[Auth(q)].rt = issued[IdIn(q)] \/ \E g \in Fetchers : Saves(g, q)
      BY <1>1, <1>6, <1>8, <2>2 DEF LiveInv
    <3>2. IdIn(q) \in Ids /\ IdIn(q) # id
      BY <1>1, <1>2, <1>6, <1>8, <2>2, IdFacts
    <3> QED BY <1>3, <1>6, <1>7, <2>2, <3>1, <3>2
  <2> QED BY <2>1, <2>2
<1>9. ASSUME NEW g \in Fetchers, Asking(g)
      PROVE  copy'[g] = copy[g] /\ issued'[copy[g].id] = issued[copy[g].id]
  <2>1. copy[g].id \in Ids /\ copy[g].id # id
    BY <1>1, <1>2, <1>9, AskedAlone, BlobFields
  <2> QED BY <1>2, <1>3, <2>1 DEF locals
<1>10. \A g \in Fetchers : pc'[g] = "refresh" => copy'[g].rt <= issued'[copy'[g].id]
  <2> SUFFICES ASSUME NEW g \in Fetchers, pc'[g] = "refresh" PROVE copy'[g].rt <= issued'[copy'[g].id]
    OBVIOUS
  <2>1. pc[g] = "refresh" /\ Asking(g)
    BY <1>2 DEF Asking
  <2> QED BY <1>1, <1>9, <2>1 DEF LiveInv
<1>11. ASSUME NEW g \in Fetchers, pc'[g] = "save"
       PROVE  copy'[g].rt = issued'[copy'[g].id] /\ (file[Auth(place[g].at)].rt < issued[copy[g].id])'
  <2>1. pc[g] = "save" /\ Asking(g) /\ place'[g] = place[g]
    BY <1>2, <1>11 DEF Asking, locals
  <2>2. place[g].at \in Places /\ lock[place[g].at] = g
    BY <1>1, <2>1, AskedAlone
  <2>3. lock[p] = Absent /\ Absent \notin Fetchers
    BY <1>1, SignInDoes, Names DEF Procs
  <2>4. file'[Auth(place[g].at)] = file[Auth(place[g].at)]
    BY <1>6, <2>2, <2>3
  <2> QED BY <1>1, <1>9, <2>1, <2>4 DEF LiveInv
<1>12. session' = Absent
  BY <1>2
<1> QED BY <1>8, <1>10, <1>11, <1>12 DEF LiveInv

LEMMA SignInOk ==
  ASSUME Inv, TypeInv', LockInv', NEW p \in Places, NEW id \in Ids, SignIn(p, id)
  PROVE  Inv'
<1>1. TypeInv /\ TypeOK /\ LockInv /\ Absent \notin Switchers /\ Absent \notin Fetchers
  BY Names DEF Inv, TypeInv, Procs
<1>2. /\ Acts(Absent) /\ UNCHANGED <<lock, pc, locals, cache, session>>
      /\ session = Absent /\ \A s \in Switchers : ~Moving(s)
      /\ lock[p] = Absent /\ (p \in Fetchers => pc[p] = "idle")
      /\ \A q \in Places : IdIn(q) # id
      /\ file' = [file EXCEPT ![Auth(p)] = [id |-> id, rt |-> issued[id] + 1]]
      /\ [id |-> id, rt |-> issued[id] + 1] \in Blobs
      /\ kept' = (kept \ {IdIn(p)}) \cup {id}
      /\ mishaps \subseteq mishaps'
      /\ p = Default => "signin" \in mishaps'
  BY <1>1, SignInDoes
<1>3. (Calm' => Calm) /\ (Tidy' => Tidy) /\ (Fresh' => Fresh) /\ (Followed' => Followed)
  BY <1>2, NoWay
<1>4. PICK c \in Blobs : c = [id |-> id, rt |-> issued[id] + 1]
  BY <1>2
<1>5. /\ IdIn(p)' = id
      /\ \A q \in Places : q # p => IdIn(q)' = IdIn(q)
      /\ \A a \in Accounts : file'[Marker(a)] = file[Marker(a)]
  <2>1. c.id = id /\ c # Absent
    BY <1>4, BlobFields
  <2> QED BY <1>1, <1>2, <1>4, <2>1, AuthWritten
<1>6. \A s \in Switchers : ~Moving(s)'
  BY <1>2 DEF Moving
<1>7. ASSUME Calm' PROVE CalmInv'
  <2>1. KeptInv /\ CopyInv /\ RouteInv
    BY <1>3, <1>7 DEF Inv, CalmInv
  <2>2. WorkInv'
    BY <1>6 DEF WorkInv
  <2>3. KeptInv'
    <3> SUFFICES ASSUME NEW k \in kept' PROVE \E q \in Places : IdIn(q)' = k
      BY DEF KeptInv
    <3>1. CASE k = id
      BY <1>5, <3>1
    <3>2. CASE k # id
      <4>1. k \in kept /\ k # IdIn(p)
        BY <1>2, <3>2
      <4>2. PICK q \in Places : IdIn(q) = k
        BY <2>1, <4>1 DEF KeptInv
      <4> QED BY <1>5, <4>1, <4>2
    <3> QED BY <3>1, <3>2
  <2>4. SessionInv'
    BY <1>2 DEF SessionInv
  <2>5. CopyInv'
    <3>1. \A q \in Places : (\E g \in Fetchers : lock[q] = g) => IdIn(q)' = IdIn(q)
      BY <1>1, <1>2, <1>5
    <3> QED BY <1>1, <1>2, <2>1, <3>1, CopyAside
  <2>6. RouteInv'
    <3>1. ASSUME NEW g \in Fetchers, lock[Default] = g, place[g].at = Default, pc[g] # "idle"
          PROVE  /\ IdIn(g) = Absent => IdIn(g)' = Absent
                 /\ g \in Accounts => file'[Marker(g)] = file[Marker(g)]
                 /\ IdIn(Default)' = IdIn(Default)
      <4>1. g # p /\ Default # p /\ g \in Places /\ Default \in Places
        BY <1>1, <1>2, <3>1, Names
      <4> QED BY <1>5, <4>1
    <3> QED BY <1>1, <1>2, <2>1, <3>1, RouteAside
  <2> QED BY <2>2, <2>3, <2>4, <2>5, <2>6 DEF CalmInv
<1>8. ASSUME Tidy' PROVE UniqueInv'
  <2> SUFFICES ASSUME NEW q \in Places, NEW r \in Places,
                      IdIn(q)' # Absent, IdIn(q)' = IdIn(r)'
               PROVE  q = r
    BY DEF UniqueInv
  <2>1. \A x, y \in Places : ~Held(x, y)
    BY <1>2 DEF Held
  <2>2. CASE q = p \/ r = p
    BY <1>2, <1>5, <2>2
  <2>3. CASE q # p /\ r # p
    BY <1>3, <1>5, <1>8, <2>1, <2>3 DEF Inv, UniqueInv
  <2> QED BY <2>2, <2>3
<1>9. ASSUME Followed' PROVE UnnamedInv'
  <2>1. p # Default
    BY <1>2, <1>9 DEF Followed
  <2>2. IdIn(Default)' = IdIn(Default) /\ cache' = cache
    BY <1>2, <1>5, <2>1, Names
  <2>3. Forgetting => Forgetting'
    BY <1>2 DEF Forgetting
  <2> QED BY <1>1, <1>2, <1>3, <1>9, <2>2, <2>3, UnnamedAside DEF Inv
<1>10. ASSUME Fresh' PROVE LiveInv'
  BY <1>3, <1>10, SignInLive
<1> QED BY <1>7, <1>8, <1>9, <1>10 DEF Inv

(***************************************************************************)
(* The Codex session: it reads the default login, and later writes its     *)
(* refreshed form back.                                                    *)
(***************************************************************************)
LEMMA SessionReloadsOk ==
  ASSUME Inv, TypeInv', LockInv', SessionReloads
  PROVE  Inv'
<1>1. TypeInv /\ TypeOK /\ LockInv /\ Absent \notin Switchers /\ Absent \notin Fetchers
  BY Names DEF Inv, TypeInv, Procs
<1>2. /\ Acts(Absent) /\ UNCHANGED <<file, cache, issued, lock, pc, locals, kept>>
      /\ file[Auth(Default)] # Absent /\ session' = file[Auth(Default)]
      /\ mishaps \subseteq mishaps'
      /\ (\E s \in Switchers : Moving(s)) => "crossed" \in mishaps'
  BY <1>1, SessionReloadsDoes
<1>3. (Calm' => Calm) /\ (Tidy' => Tidy) /\ (Fresh' => Fresh) /\ (Followed' => Followed)
  BY <1>2, NoWay
<1>4. \A q \in Places : file'[Auth(q)] = file[Auth(q)] /\ IdIn(q)' = IdIn(q)
  BY <1>1, <1>2, FilesSame
<1>5. Calm' => \A s \in Switchers : ~Moving(s) /\ ~Moving(s)'
  BY <1>2 DEF Calm, Moving
<1>6. ASSUME Calm' PROVE CalmInv'
  <2>1. KeptInv /\ CopyInv /\ RouteInv
    BY <1>3, <1>6 DEF Inv, CalmInv
  <2>2. WorkInv'
    BY <1>5, <1>6 DEF WorkInv
  <2>3. KeptInv'
    BY <1>2, <1>4, <2>1, KeptAside
  <2>4. SessionInv'
    BY <1>2, <1>4, Names DEF SessionInv, IdIn
  <2>5. CopyInv'
    BY <1>1, <1>2, <1>4, <2>1, CopyAside
  <2>6. RouteInv'
    <3>1. IdIn(Default)' = IdIn(Default) /\ \A g \in Fetchers : IdIn(g) = Absent => IdIn(g)' = Absent
      BY <1>4, Names
    <3> QED BY <1>1, <1>2, <2>1, <3>1, RouteAside
  <2> QED BY <2>2, <2>3, <2>4, <2>5, <2>6 DEF CalmInv
<1>7. ASSUME Tidy' PROVE UniqueInv'
  BY <1>1, <1>2, <1>3, <1>4, <1>7, UniqueAside DEF Inv
<1>8. ASSUME Followed' PROVE UnnamedInv'
  <2>1. IdIn(Default)' = IdIn(Default) /\ cache' = cache
    BY <1>2, <1>4, Names
  <2>2. Forgetting => Forgetting'
    BY <1>2 DEF Forgetting
  <2> QED BY <1>1, <1>2, <1>3, <1>8, <2>1, <2>2, UnnamedAside DEF Inv
<1>9. ASSUME Fresh' PROVE LiveInv'
  <2>1. LiveInv /\ Tidy
    BY <1>3, <1>9, Nested DEF Inv
  <2>2. ASSUME NEW q \in Places, file'[Auth(q)] # Absent
        PROVE  /\ file'[Auth(q)].rt <= issued'[IdIn(q)']
               /\ file'[Auth(q)].rt = issued'[IdIn(q)'] \/ \E g \in Fetchers : Saves(g, q)'
    <3>1. \A g \in Fetchers : Saves(g, q) => Saves(g, q)'
      BY <1>2 DEF Saves, locals
    <3> QED BY <1>2, <1>4, <2>1, <2>2, <3>1 DEF LiveInv
  <2>3. session'.id = IdIn(Default) /\ session'.rt <= issued'[session'.id]
    BY <1>2, <2>1, Names DEF IdIn, LiveInv
  <2>4. ASSUME NEW g \in Fetchers, pc'[g] = "save"
        PROVE  /\ (copy[g].rt = issued[copy[g].id] /\ file[Auth(place[g].at)].rt < issued[copy[g].id])'
               /\ place'[g].at = Default => session'.rt < issued'[session'.id]
    <3>1. /\ pc[g] = "save" /\ Asking(g)
          /\ UNCHANGED <<copy, place, issued>>
      BY <1>2, <2>4 DEF Asking, locals
    <3>2. copy[g].rt = issued[copy[g].id] /\ file[Auth(place[g].at)].rt < issued[copy[g].id]
      BY <2>1, <3>1 DEF LiveInv
    <3>3. IdIn(place[g].at) = copy[g].id
      BY <2>1, <3>1, AskedAlone
    <3>4. place[g].at = Default => session'.rt < issued[session'.id]
      BY <1>2, <2>3, <3>2, <3>3
    <3> QED BY <1>2, <3>1, <3>2, <3>4
  <2>5. \A g \in Fetchers : pc'[g] = "refresh" => copy'[g].rt <= issued'[copy'[g].id]
    BY <1>2, <2>1 DEF LiveInv, locals
  <2> QED BY <2>2, <2>3, <2>4, <2>5 DEF LiveInv
<1> QED BY <1>6, <1>7, <1>8, <1>9 DEF Inv

LEMMA SessionAlone ==
  ASSUME Inv, Calm, session # Absent, NEW s \in Switchers
  PROVE  ~Moving(s)
<1> SUFFICES ASSUME Moving(s) PROVE FALSE
  OBVIOUS
<1>1. PICK l \in Accounts, o \in Places, old \in Blobs \cup {Absent}, new \in Blobs :
        WorkOk(s, l, o, old, new)
  BY DEF Inv, CalmInv, WorkInv
<1>2. Parties(s, l, o, old, new)
  BY <1>1, WorkCarries
<1> QED BY <1>2 DEF Parties

LEMMA SessionRefreshesLive ==
  ASSUME Inv, Fresh, session \in Blobs, session' = Absent,
         UNCHANGED <<lock, pc, copy, place>>,
         session.rt = issued[session.id],
         issued' = [issued EXCEPT ![session.id] = @ + 1],
         file' = [file EXCEPT ![Auth(Default)] = [id |-> session.id, rt |-> session.rt + 1]],
         [id |-> session.id, rt |-> session.rt + 1] \in Blobs
  PROVE  LiveInv'
<1>1. TypeInv /\ TypeOK /\ Tidy /\ Calm /\ LiveInv /\ Default \in Places /\ session # Absent
  BY Nested, Names DEF Inv, TypeInv
<1>2. PICK id \in Ids : id = session.id
  BY BlobFields
<1>c. PICK c \in Blobs : c = [id |-> session.id, rt |-> session.rt + 1]
  OBVIOUS
<1>3. id \in Ids /\ c.id = id /\ c.rt = issued[id] + 1 /\ c # Absent
  BY <1>2, <1>c, BlobFields
<1>4. /\ issued'[id] = issued[id] + 1 /\ issued[id] \in Nat
      /\ \A i \in Ids : i # id => issued'[i] = issued[i]
      /\ \A i \in Ids : issued[i] \in Nat /\ issued'[i] \in Nat /\ issued'[i] >= issued[i]
  BY <1>1, <1>2, <1>3, IssuedNext
<1>5. /\ file'[Auth(Default)] = c /\ IdIn(Default)' = id
      /\ \A q \in Places : q # Default => file'[Auth(q)] = file[Auth(q)] /\ IdIn(q)' = IdIn(q)
  BY <1>1, <1>c, <1>3, AuthWritten
<1>6. IdIn(Default) = id /\ id # Absent
  BY <1>1, <1>2, <1>3, Names DEF Inv, CalmInv, SessionInv
<1>7. \A q \in Places : IdIn(q) = id => q = Default
  <2>1. \A q \in Places : ~Held(q, Default)
    BY <1>1, SessionAlone DEF Held
  <2> QED BY <1>1, <1>6, <2>1 DEF Inv, UniqueInv
<1>8. ASSUME NEW q \in Places, file'[Auth(q)] # Absent
      PROVE  /\ file'[Auth(q)].rt <= issued'[IdIn(q)']
             /\ file'[Auth(q)].rt = issued'[IdIn(q)'] \/ \E g \in Fetchers : Saves(g, q)'
  <2>1. CASE q = Default
    BY <1>3, <1>4, <1>5, <2>1
  <2>2. CASE q # Default
    <3>1. /\ file[Auth(q)].rt <= issued[IdIn(q)]
          /\ file[Auth(q)].rt = issued[IdIn(q)] \/ \E g \in Fetchers : Saves(g, q)
      BY <1>1, <1>5, <1>8, <2>2 DEF LiveInv
    <3>2. IdIn(q) \in Ids /\ IdIn(q) # id
      BY <1>1, <1>5, <1>7, <1>8, <2>2, IdFacts
    <3>3. \A g \in Fetchers : Saves(g, q) => Saves(g, q)'
      BY DEF Saves
    <3> QED BY <1>4, <1>5, <2>2, <3>1, <3>2, <3>3
  <2> QED BY <2>1, <2>2
<1>9. ASSUME NEW g \in Fetchers, pc'[g] = "refresh" PROVE copy'[g].rt <= issued'[copy'[g].id]
  <2>1. pc[g] = "refresh" /\ copy'[g] = copy[g] /\ Asking(g)
    BY <1>9 DEF Asking
  <2>2. copy[g].rt <= issued[copy[g].id] /\ copy[g] \in Blobs
    BY <1>1, <2>1, AskedAlone DEF LiveInv
  <2> QED BY <1>4, <2>1, <2>2, BlobFields
<1>10. ASSUME NEW g \in Fetchers, pc'[g] = "save"
       PROVE  (copy[g].rt = issued[copy[g].id] /\ file[Auth(place[g].at)].rt < issued[copy[g].id])'
  <2>1. /\ pc[g] = "save" /\ copy'[g] = copy[g] /\ place'[g] = place[g] /\ Asking(g)
    BY <1>10 DEF Asking
  <2>2. /\ copy[g].rt = issued[copy[g].id] /\ file[Auth(place[g].at)].rt < issued[copy[g].id]
        /\ place[g].at # Default
    BY <1>1, <1>2, <1>3, <1>4, <2>1 DEF LiveInv
  <2>3. place[g].at \in Places /\ IdIn(place[g].at) = copy[g].id /\ copy[g].id \in Ids
    BY <1>1, <2>1, AskedAlone, BlobFields
  <2>4. issued'[copy[g].id] = issued[copy[g].id]
    BY <1>4, <1>7, <2>2, <2>3
  <2>5. file'[Auth(place[g].at)] = file[Auth(place[g].at)]
    BY <1>5, <2>2, <2>3
  <2> QED BY <2>1, <2>2, <2>4, <2>5
<1> QED BY <1>8, <1>9, <1>10 DEF LiveInv

LEMMA SessionRefreshesOk ==
  ASSUME Inv, TypeInv', LockInv', SessionRefreshes
  PROVE  Inv'
<1>1. /\ TypeInv /\ TypeOK /\ LockInv /\ Absent \notin Switchers /\ Absent \notin Fetchers
      /\ Default \in Places
  BY Names DEF Inv, TypeInv, Procs
<1>2. /\ Acts(Absent) /\ UNCHANGED <<cache, lock, pc, locals, history>>
      /\ session \in Blobs /\ session' = Absent
      /\ \/ UNCHANGED <<issued, file>>
         \/ /\ session.rt = issued[session.id]
            /\ issued' = [issued EXCEPT ![session.id] = @ + 1]
            /\ file' = [file EXCEPT ![Auth(Default)] = [id |-> session.id, rt |-> session.rt + 1]]
            /\ [id |-> session.id, rt |-> session.rt + 1] \in Blobs
  BY <1>1, SessionRefreshesDoes
<1>3. (Calm' => Calm) /\ (Tidy' => Tidy) /\ (Fresh' => Fresh) /\ (Followed' => Followed)
  BY <1>2, NoWay DEF history
<1>4. session # Absent
  BY <1>2, Names
<1>5. ASSUME Calm
      PROVE  /\ \A q \in Places : IdIn(q)' = IdIn(q)
             /\ \A a \in Accounts : file'[Marker(a)] = file[Marker(a)]
  <2>1. IdIn(Default) = session.id
    BY <1>4, <1>5 DEF Inv, CalmInv, SessionInv
  <2>2. CASE file' = file
    BY <1>1, <2>2, FilesSame
  <2>3. CASE file' # file
    <3>1. PICK c \in Blobs : /\ c = [id |-> session.id, rt |-> session.rt + 1]
                             /\ file' = [file EXCEPT ![Auth(Default)] = c]
      BY <1>2, <2>3
    <3>2. c.id = session.id /\ c # Absent
      BY <3>1, BlobFields
    <3>3. /\ IdIn(Default)' = c.id
          /\ \A q \in Places : q # Default => IdIn(q)' = IdIn(q)
          /\ \A a \in Accounts : file'[Marker(a)] = file[Marker(a)]
      BY <1>1, <3>1, <3>2, AuthWritten
    <3> QED BY <2>1, <3>2, <3>3
  <2> QED BY <2>2, <2>3
<1>6. ASSUME Calm' PROVE CalmInv'
  <2>1. KeptInv /\ SessionInv /\ CopyInv /\ RouteInv /\ Calm
    BY <1>3, <1>6 DEF Inv, CalmInv
  <2>2. /\ \A q \in Places : IdIn(q)' = IdIn(q)
        /\ \A a \in Accounts : file'[Marker(a)] = file[Marker(a)]
    BY <1>5, <2>1
  <2>3. WorkInv'
    <3>1. \A s \in Switchers : ~Moving(s)'
      BY <1>2, <1>4, <2>1, SessionAlone DEF Moving
    <3> QED BY <3>1 DEF WorkInv
  <2>4. KeptInv'
    BY <1>2, <2>1, <2>2, KeptAside DEF history
  <2>5. SessionInv'
    BY <1>2 DEF SessionInv
  <2>6. CopyInv'
    BY <1>1, <1>2, <2>1, <2>2, CopyAside
  <2>7. RouteInv'
    <3>1. IdIn(Default)' = IdIn(Default) /\ \A g \in Fetchers : IdIn(g) = Absent => IdIn(g)' = Absent
      BY <2>2, Names
    <3> QED BY <1>1, <1>2, <2>1, <2>2, <3>1, RouteAside
  <2> QED BY <2>3, <2>4, <2>5, <2>6, <2>7 DEF CalmInv
<1>7. ASSUME Tidy' PROVE UniqueInv'
  <2>1. \A q \in Places : IdIn(q)' = IdIn(q)
    BY <1>3, <1>5, <1>7, Nested
  <2> QED BY <1>1, <1>2, <1>3, <1>7, <2>1, UniqueAside DEF Inv
<1>8. ASSUME Followed' PROVE UnnamedInv'
  <2>1. IdIn(Default)' = IdIn(Default) /\ cache' = cache
    BY <1>1, <1>2, <1>3, <1>5, <1>8, Nested
  <2>2. Forgetting => Forgetting'
    BY <1>2 DEF Forgetting
  <2> QED BY <1>1, <1>2, <1>3, <1>8, <2>1, <2>2, UnnamedAside DEF Inv
<1>9. ASSUME Fresh' PROVE LiveInv'
  <2>1. Fresh /\ LiveInv
    BY <1>3, <1>9 DEF Inv
  <2>2. CASE UNCHANGED <<issued, file>>
    <3>1. \A q \in Places : file'[Auth(q)] = file[Auth(q)] /\ IdIn(q)' = IdIn(q)
      BY <1>1, <2>2, FilesSame
    <3> QED BY <1>1, <1>2, <2>1, <2>2, <3>1, LiveAside
  <2>3. CASE ~UNCHANGED <<issued, file>>
    BY <1>2, <2>1, <2>3, SessionRefreshesLive DEF locals
  <2> QED BY <2>2, <2>3
<1> QED BY <1>6, <1>7, <1>8, <1>9 DEF Inv

(***************************************************************************)
(* The decision: the parties of the move are found under their locks.      *)
(***************************************************************************)
LEMMA DecideParties ==
  ASSUME Inv, NEW s \in Switchers, \A x \in Switchers : ~Moving(x),
         UNCHANGED <<file, cache, issued, session, lock>>,
         mishaps \subseteq mishaps', session # Absent => "crossed" \in mishaps',
         Forgetting => Forgetting', lock[Default] = s,
         NEW l \in Accounts, NEW o \in Places, NEW old \in Blobs \cup {Absent}, NEW new \in Blobs,
         Given(l, o, old, new)', lock[l] = s, lock[o] = s,
         file[Auth(Default)] = old, file[Auth(l)] = new, Calm'
  PROVE  Parties(s, l, o, old, new)'
<1>1. TypeInv /\ TypeOK /\ LockInv /\ l \in Places /\ Default \in Places /\ s \notin Fetchers
  BY Names DEF Inv, TypeInv
<1>2. (Calm' => Calm) /\ (Tidy' => Tidy) /\ (Fresh' => Fresh) /\ (Followed' => Followed)
  BY NoWay
<1>3. session' = Absent
  BY DEF Calm
<1>4. \A q \in Places : IdIn(q)' = IdIn(q)
  BY <1>1, FilesSame
<1>5. IdIn(l) = new.id /\ IdIn(l) # Absent /\ (old # Absent => IdIn(Default) = old.id /\ IdIn(Default) # Absent)
      /\ (old = Absent => IdIn(Default) = Absent)
  BY <1>1, IdFacts, BlobFields, Names
<1>6. ASSUME Tidy' PROVE Apart(l, o, old, new)'
  <2>1. \A p, q \in Places : IdIn(p) # Absent /\ IdIn(p) = IdIn(q) => p = q
    BY <1>2, <1>6 DEF Inv, UniqueInv, Held
  <2>2. \A p \in Elsewhere(l, o) : p \in Places /\ p # Default /\ p # l
    BY Places3
  <2>3. Apart(l, o, old, new)
    BY <1>1, <1>5, <2>1, <2>2 DEF Apart
  <2> QED BY <1>4, <2>2, <2>3 DEF Apart
<1>7. ASSUME Fresh' PROVE Untouched(old, new)'
  <2>1. \A f \in Fetchers : ~Saves(f, l) /\ ~Saves(f, Default)
    BY <1>1 DEF Saves, LockInv, FetchLocked
  <2>2. LiveInv
    BY <1>2, <1>7 DEF Inv
  <2>3. new.rt = issued[new.id]
    BY <1>1, <1>5, <2>1, <2>2, BlobFields DEF LiveInv
  <2>4. old # Absent => old.rt = issued[old.id]
    BY <1>1, <1>5, <2>1, <2>2 DEF LiveInv
  <2> QED BY <2>3, <2>4 DEF Untouched
<1>8. ASSUME Followed' PROVE Shown(old)'
  BY <1>2, <1>5, <1>8 DEF Inv, UnnamedInv, Shown
<1> QED BY <1>3, <1>6, <1>7, <1>8 DEF Parties

LEMMA DecideOk ==
  ASSUME Inv, TypeInv', LockInv', NEW s \in Switchers, Decide(s)
  PROVE  Inv'
<1>1. TypeInv /\ TypeOK /\ LockInv /\ s \notin Fetchers /\ s \in Procs /\ pc[s] = "decide"
  BY Names DEF Inv, TypeInv, Decide
<1>2. /\ Acts(s) /\ kept' \subseteq kept /\ mishaps \subseteq mishaps'
      /\ UNCHANGED <<file, cache, issued, session>>
      /\ \/ pc'[s] = "idle"
         \/ /\ pc'[s] = "move" /\ lock' = lock /\ done'[s] = <<>>
            /\ session # Absent => "crossed" \in mishaps'
            /\ lock[Default] = s
            /\ \E l \in Accounts, o \in Places, old \in Blobs \cup {Absent}, new \in Blobs :
                 /\ Given(l, o, old, new)' /\ lock[l] = s /\ lock[o] = s
                 /\ Stage(todo'[s], l, o, old, new)
                 /\ file[Auth(Default)] = old
                 /\ o # Default => file[Auth(o)] = Absent
  BY <1>1, DecideDoes DEF store
<1>3. Forgetting => Forgetting'
  BY <1>1, <1>2, Names DEF Forgetting, Acts
<1>4. /\ \A q \in Places : file'[Auth(q)] = file[Auth(q)] /\ IdIn(q)' = IdIn(q)
      /\ \A a \in Accounts : file'[Marker(a)] = file[Marker(a)]
  BY <1>1, <1>2, FilesSame
<1>5. CASE pc'[s] = "idle"
  <2>1. Quiet(s)
    BY <1>1, <1>2, <1>4, <1>5 DEF Quiet, Moving
  <2> QED BY <1>1, <1>2, <1>3, <2>1, QuietStep
<1>6. CASE pc'[s] = "move"
  <2>1. (Calm' => Calm) /\ (Tidy' => Tidy) /\ (Fresh' => Fresh) /\ (Followed' => Followed)
    BY <1>2, NoWay
  <2>2. lock[Default] = s /\ lock' = lock /\ done'[s] = <<>> /\ Moving(s)'
    BY <1>2, <1>6 DEF Moving
  <2>3. \A x \in Switchers : ~Moving(x)
    BY <1>1, <2>2 DEF LockInv, SwitchLocks, Moving
  <2>4. IdIn(Default)' = IdIn(Default) /\ \A g \in Fetchers : IdIn(g) = Absent => IdIn(g)' = Absent
    BY <1>4, Names
  <2>5. ASSUME Calm' PROVE CalmInv'
    <3>1. KeptInv /\ SessionInv /\ CopyInv /\ RouteInv
      BY <2>1, <2>5 DEF Inv, CalmInv
    <3>2. PICK l \in Accounts, o \in Places, old \in Blobs \cup {Absent}, new \in Blobs :
            /\ Given(l, o, old, new)' /\ lock[l] = s /\ lock[o] = s
            /\ Stage(todo'[s], l, o, old, new)
            /\ file[Auth(Default)] = old
            /\ o # Default => file[Auth(o)] = Absent
      BY <1>2, <1>6
    <3>3. file[Auth(l)] = new
      BY <3>2, BlobFields DEF Stage, Given
    <3>4. Parties(s, l, o, old, new)'
      BY <1>2, <1>3, <1>6, <2>2, <2>3, <2>5, <3>2, <3>3, DecideParties
    <3>5. Stage(todo[s], l, o, old, new)'
      <4>1. PICK t : t = todo'[s]
        OBVIOUS
      <4>2. Stage(t, l, o, old, new)
        BY <3>2, <4>1
      <4>3. Stage(t, l, o, old, new)'
        BY <1>2, <4>2, StageFrame
      <4> QED BY <4>1, <4>3
    <3>6. /\ \A f : ~Covers(<<>>, f)
          /\ Puts(<<>>, l, o, old, new) /\ InOrder(<<>>, o)
      BY DEF Covers, Puts, InOrder
    <3>7. Journalled(<<>>, l, o, old, new)'
      BY <1>2, <3>2, <3>6 DEF Journalled
    <3>8. MoveOk(s, l, o, old, new)'
      BY <2>2, <3>4, <3>5, <3>6, <3>7 DEF MoveOk
    <3>9. WorkOk(s, l, o, old, new)'
      BY <1>6, <3>8 DEF WorkOk
    <3>10. WorkInv'
      <4> SUFFICES ASSUME NEW x \in Switchers, Moving(x)'
                   PROVE  \E l1 \in Accounts, o1 \in Places, old1 \in Blobs \cup {Absent}, new1 \in Blobs :
                            WorkOk(x, l1, o1, old1, new1)'
        BY DEF WorkInv
      <4>1. x = s
        BY <1>2, <2>3, Names DEF Acts, Moving
      <4> QED BY <3>9, <4>1
    <3>11. KeptInv'
      BY <1>2, <1>4, <3>1, KeptAside
    <3>12. SessionInv'
      BY <1>2, <2>4, <3>1, SessionAside
    <3>13. CopyInv'
      BY <1>1, <1>2, <1>4, <3>1, CopyAside
    <3>14. RouteInv'
      BY <1>1, <1>2, <1>4, <2>4, <3>1, RouteAside
    <3> QED BY <3>10, <3>11, <3>12, <3>13, <3>14 DEF CalmInv
  <2>6. ASSUME Tidy' PROVE UniqueInv'
    BY <1>1, <1>2, <1>4, <2>1, <2>3, <2>6, UniqueAside DEF Inv
  <2>7. UnnamedInv'
    BY <2>2 DEF UnnamedInv
  <2>8. ASSUME Fresh' PROVE LiveInv'
    BY <1>1, <1>2, <1>4, <2>1, <2>8, LiveAside DEF Inv
  <2> QED BY <2>5, <2>6, <2>7, <2>8 DEF Inv
<1> QED BY <1>2, <1>5, <1>6

(***************************************************************************)
(* A step of the mover: every place but its own is as it was, and its own  *)
(* hold what the stages say.                                               *)
(***************************************************************************)
LEMMA CarriedIds ==
  ASSUME TypeOK, NEW l \in Accounts, NEW o \in Places,
         NEW old \in Blobs \cup {Absent}, NEW new \in Blobs,
         Given(l, o, old, new), Carried(l, o, old, new)
  PROVE  /\ \A p \in {Default, l, o} :
              /\ p \in Places
              /\ file[Auth(p)] \in {old, new, Absent}
              /\ IdIn(p) # Absent =>
                   \/ old # Absent /\ file[Auth(p)] = old /\ IdIn(p) = old.id
                   \/ file[Auth(p)] = new /\ IdIn(p) = new.id
         /\ \E p \in Places : IdIn(p) = new.id
         /\ old # Absent /\ o # Default => \E p \in Places : IdIn(p) = old.id
<1>1. l \in Places /\ Default \in Places /\ new # Absent
  BY Names, BlobFields
<1>2. \A p \in {Default, l, o} : p \in Places /\ file[Auth(p)] \in {old, new, Absent}
  BY <1>1 DEF Carried, Given
<1>3. \A p \in Places : IdIn(p) = IF file[Auth(p)] = Absent THEN Absent ELSE file[Auth(p)].id
  BY DEF IdIn
<1>4. \E p \in Places : IdIn(p) = new.id
  BY <1>1, <1>3 DEF Carried
<1>5. old # Absent /\ o # Default => \E p \in Places : IdIn(p) = old.id
  BY <1>1, <1>3 DEF Carried
<1> QED BY <1>2, <1>3, <1>4, <1>5

LEMMA MoverStep ==
  ASSUME Inv, TypeInv', LockInv', NEW s \in Switchers, Moving(s), Moving(s)', Acts(s), Calm,
         NEW l \in Accounts, NEW o \in Places, NEW old \in Blobs \cup {Absent}, NEW new \in Blobs,
         Parties(s, l, o, old, new), Carried(l, o, old, new),
         Parties(s, l, o, old, new)', Carried(l, o, old, new)', WorkOk(s, l, o, old, new)',
         UNCHANGED <<lock, copy, place, cache, issued, session, kept>>, mishaps \subseteq mishaps',
         \A p \in Elsewhere(l, o) : file'[Auth(p)] = file[Auth(p)] /\ IdIn(p)' = IdIn(p)
  PROVE  Inv'
<1>1. TypeInv /\ TypeOK /\ TypeOK' /\ LockInv /\ s \notin Fetchers /\ CalmInv
  BY Names DEF Inv, TypeInv
<1>2. (Calm' => Calm) /\ (Tidy' => Tidy) /\ (Fresh' => Fresh) /\ (Followed' => Followed)
  BY NoWay
<1>3. /\ \A p \in {Default, l, o} : p \in Places /\ lock[p] = s /\ lock'[p] = s
      /\ \A p \in Places : p \in {Default, l, o} \/ p \in Elsewhere(l, o)
      /\ \A p \in Elsewhere(l, o) : p \in Places
  BY Places3 DEF Parties
<1>4. \A p \in Places : lock[p] # s => file'[Auth(p)] = file[Auth(p)] /\ IdIn(p)' = IdIn(p)
  BY <1>3
<1>5. Given(l, o, old, new) /\ Given(l, o, old, new)'
  BY DEF Parties
<1>6. /\ \A p \in {Default, l, o} :
           IdIn(p) # Absent => (old # Absent /\ IdIn(p) = old.id) \/ IdIn(p) = new.id
  BY <1>1, <1>5, CarriedIds
<1>7. /\ \A p \in {Default, l, o} :
           IdIn(p)' # Absent =>
             \/ old # Absent /\ file'[Auth(p)] = old /\ IdIn(p)' = old.id
             \/ file'[Auth(p)] = new /\ IdIn(p)' = new.id
      /\ \E p \in Places : IdIn(p)' = new.id
      /\ old # Absent /\ o # Default => \E p \in Places : IdIn(p)' = old.id
  <2>1. new # Absent /\ l \in Places /\ Default \in Places
    BY Names, BlobFields
  <2>2. \A p \in {Default, l, o} : file'[Auth(p)] \in {old, new, Absent}
    BY <1>5 DEF Carried, Given
  <2>3. \A p \in Places : IdIn(p)' = IF file'[Auth(p)] = Absent THEN Absent ELSE file'[Auth(p)].id
    BY DEF IdIn
  <2>4. \E p \in Places : IdIn(p)' = new.id
    BY <2>1, <2>3 DEF Carried
  <2>5. old # Absent /\ o # Default => \E p \in Places : IdIn(p)' = old.id
    BY <2>1, <2>3 DEF Carried
  <2> QED BY <1>3, <2>2, <2>3, <2>4, <2>5
<1>8. \A x \in Switchers : x # s => ~Moving(x) /\ ~Moving(x)'
  BY <1>1, OneMover, Names DEF Acts, Moving
<1>9. WorkInv'
  <2> SUFFICES ASSUME NEW x \in Switchers, Moving(x)'
               PROVE  \E l1 \in Accounts, o1 \in Places, old1 \in Blobs \cup {Absent}, new1 \in Blobs :
                        WorkOk(x, l1, o1, old1, new1)'
    BY DEF WorkInv
  <2>1. x = s
    BY <1>8
  <2> QED BY <2>1
<1>10. KeptInv'
  <2> SUFFICES ASSUME NEW id \in kept PROVE \E p \in Places : IdIn(p)' = id
    BY DEF KeptInv
  <2>1. PICK p \in Places : IdIn(p) = id
    BY <1>1 DEF CalmInv, KeptInv
  <2>2. CASE p \in Elsewhere(l, o)
    BY <2>1, <2>2
  <2>3. CASE p \in {Default, l, o}
    <3>1. id # Absent
      BY <1>1, TypeParts, Names DEF RestTyped
    <3>2. (old # Absent /\ id = old.id) \/ id = new.id
      BY <1>6, <2>1, <2>3, <3>1
    <3>3. old # Absent /\ id = old.id => o # Default
      BY <1>5 DEF Given
    <3> QED BY <1>7, <3>2, <3>3
  <2> QED BY <1>3, <2>2, <2>3
<1>11. SessionInv'
  BY DEF SessionInv, Parties
<1>12. CopyInv'
  <2>1. \A q \in Places : (\E g \in Fetchers : lock[q] = g) => IdIn(q)' = IdIn(q)
    BY <1>1, <1>4
  <2> QED BY <1>1, <2>1, CopyAside DEF CalmInv
<1>13. RouteInv'
  <2>1. \A g \in Fetchers : lock[Default] # g
    BY <1>1, <1>3
  <2> QED BY <1>1, <2>1, RouteAside DEF CalmInv
<1>14. ASSUME Tidy' PROVE UniqueInv'
  <2> SUFFICES ASSUME NEW p \in Places, NEW q \in Places, IdIn(p)' # Absent, IdIn(p)' = IdIn(q)'
               PROVE  p = q \/ Held(p, q)'
    BY DEF UniqueInv
  <2>1. Apart(l, o, old, new)'
    BY <1>14 DEF Parties
  <2>2. CASE p \in {Default, l, o} /\ q \in {Default, l, o}
    BY <1>3, <2>2 DEF Held
  <2>3. CASE p \in Elsewhere(l, o) \/ q \in Elsewhere(l, o)
    BY <1>3, <1>7, <2>1, <2>3 DEF Apart
  <2> QED BY <1>3, <2>2, <2>3
<1>15. UnnamedInv'
  BY DEF UnnamedInv
<1>16. ASSUME Fresh' PROVE LiveInv'
  <2>1. LiveInv /\ Untouched(old, new)'
    BY <1>2, <1>16 DEF Inv, Parties
  <2>2. \A g \in Fetchers : pc'[g] = pc[g] /\ copy'[g] = copy[g] /\ place'[g] = place[g]
    BY <1>1, Names DEF Acts
  <2>3. new.rt = issued'[new.id] /\ new.rt \in Nat /\ (old # Absent => old.rt = issued'[old.id] /\ old.rt \in Nat)
    BY <2>1, BlobFields DEF Untouched
  <2>4. ASSUME NEW q \in Places, file'[Auth(q)] # Absent
        PROVE  /\ file'[Auth(q)].rt <= issued'[IdIn(q)']
               /\ file'[Auth(q)].rt = issued'[IdIn(q)'] \/ \E g \in Fetchers : Saves(g, q)'
    <3>1. CASE q \in {Default, l, o}
      <4>1. IdIn(q)' # Absent
        <5>1. file'[Auth(q)] \in Blobs
          BY <1>1, <1>3, <2>4, <3>1 DEF TypeOK
        <5> QED BY <2>4, <5>1, BlobFields, Names DEF IdIn
      <4>2. file'[Auth(q)].rt = issued'[IdIn(q)'] /\ file'[Auth(q)].rt \in Nat
        BY <1>7, <2>3, <3>1, <4>1
      <4> QED BY <4>2
    <3>2. CASE q \in Elsewhere(l, o)
      <4>1. \A g \in Fetchers : Saves(g, q) => Saves(g, q)'
        BY <2>2 DEF Saves
      <4> QED BY <1>3, <2>1, <2>4, <3>2, <4>1 DEF LiveInv
    <3> QED BY <1>3, <3>1, <3>2
  <2>5. \A g \in Fetchers : pc'[g] = "refresh" => copy'[g].rt <= issued'[copy'[g].id]
    BY <2>1, <2>2 DEF LiveInv
  <2>6. session' = Absent
    BY DEF Parties
  <2>7. ASSUME NEW g \in Fetchers, pc'[g] = "save"
        PROVE  (copy[g].rt = issued[copy[g].id] /\ file[Auth(place[g].at)].rt < issued[copy[g].id])'
    <3>1. pc[g] = "save" /\ place[g].at \in Places /\ lock[place[g].at] = g
      BY <1>1, <2>2, <2>7, TypeParts DEF ProcsTyped, LockInv, FetchLocked
    <3>2. file'[Auth(place[g].at)] = file[Auth(place[g].at)]
      BY <1>1, <1>4, <3>1
    <3> QED BY <2>1, <2>2, <3>1, <3>2 DEF LiveInv
  <2> QED BY <2>4, <2>5, <2>6, <2>7 DEF LiveInv
<1> QED BY <1>9, <1>10, <1>11, <1>12, <1>13, <1>14, <1>15, <1>16 DEF Inv, CalmInv

LEMMA MoverOk ==
  ASSUME Inv, TypeInv', LockInv', NEW s \in Switchers,
         Move(s) \/ MoveFails(s) \/ Undo(s)
  PROVE  Inv'
<1>1. TypeInv /\ TypeOK /\ LockInv /\ s \in Procs
  BY Names DEF Inv, TypeInv
<1>2. /\ Acts(s) /\ Moving(s) /\ Moving(s)'
      /\ UNCHANGED <<lock, copy, place, cache, issued, session, kept>>
      /\ mishaps \subseteq mishaps'
  <2>1. CASE Move(s)
    BY <1>1, <2>1, MoveTypes DEF Moving, history
  <2>2. CASE MoveFails(s)
    BY <1>1, <2>2, MoveFailsTypes DEF Moving, store
  <2>3. CASE Undo(s)
    BY <1>1, <2>3, UndoTypes DEF Moving
  <2> QED BY <2>1, <2>2, <2>3
<1>3. (Calm' => Calm) /\ (Tidy' => Tidy) /\ (Fresh' => Fresh) /\ (Followed' => Followed)
  BY <1>2, NoWay
<1>4. ASSUME Calm' PROVE Inv'
  <2>1. PICK l \in Accounts, o \in Places, old \in Blobs \cup {Absent}, new \in Blobs :
          WorkOk(s, l, o, old, new)
    BY <1>2, <1>3, <1>4 DEF Inv, CalmInv, WorkInv
  <2>2. Parties(s, l, o, old, new) /\ Carried(l, o, old, new)
    BY <1>2, <2>1, WorkCarries
  <2>3. Given(l, o, old, new) /\ \A q \in {Default, l, o} : lock'[q] = s
    BY <1>2, <2>2 DEF Parties
  <2>4. ASSUME \A q \in Elsewhere(l, o) : IdIn(q)' = IdIn(q)
        PROVE  Parties(s, l, o, old, new)'
    <3>1. session' = Absent
      BY <1>2, <2>2 DEF Parties
    <3>2. Forgetting => Forgetting'
      BY <1>2, Names DEF Forgetting, Acts, Moving
    <3> QED BY <1>1, <1>2, <2>2, <2>3, <2>4, <3>1, <3>2, PartiesFrame
  <2>5. ASSUME /\ \A q \in Elsewhere(l, o) : file'[Auth(q)] = file[Auth(q)] /\ IdIn(q)' = IdIn(q)
               /\ Carried(l, o, old, new)'
               /\ Parties(s, l, o, old, new)' => WorkOk(s, l, o, old, new)'
        PROVE  Inv'
    <3>1. Parties(s, l, o, old, new)'
      BY <2>4, <2>5
    <3> QED BY <1>2, <1>3, <1>4, <2>2, <2>5, <3>1, MoverStep
  <2>6. CASE Move(s)
    <3>1. pc[s] = "move" /\ pc'[s] = "move"
      BY <1>1, <2>6, MoveTypes
    <3>2. /\ Stage(todo[s], l, o, old, new) /\ Journalled(done[s], l, o, old, new)
          /\ InOrder(done[s], o)
          /\ file[Auth(Default)] = old => ~Covers(done[s], Auth(Default))
      BY <2>1, <3>1 DEF WorkOk, MoveOk
    <3>3. /\ (Stage(todo[s], l, o, old, new) /\ Journalled(done[s], l, o, old, new))'
          /\ (InOrder(done[s], o) /\ (file[Auth(Default)] = old => ~Covers(done[s], Auth(Default))))'
          /\ \A p \in Elsewhere(l, o) : file'[Auth(p)] = file[Auth(p)] /\ IdIn(p)' = IdIn(p)
      BY <1>1, <2>3, <2>6, <3>2, MoveStages
    <3>4. Carried(l, o, old, new)'
      <4>1. PICK t : t = todo'[s]
        OBVIOUS
      <4>2. Stage(t, l, o, old, new)'
        BY <3>3, <4>1
      <4> QED BY <4>2, Names DEF Stage, Carried
    <3>5. Parties(s, l, o, old, new)' => WorkOk(s, l, o, old, new)'
      BY <3>1, <3>3 DEF WorkOk, MoveOk
    <3> QED BY <2>5, <3>3, <3>4, <3>5
  <2>7. CASE MoveFails(s)
    <3>1. pc[s] = "move" /\ pc'[s] = "undo" /\ file' = file
      BY <1>1, <2>7, MoveFailsTypes DEF store
    <3>2. /\ Stage(todo[s], l, o, old, new) /\ Journalled(done[s], l, o, old, new)
          /\ InOrder(done[s], o)
          /\ file[Auth(Default)] = old => ~Covers(done[s], Auth(Default))
      BY <2>1, <3>1 DEF WorkOk, MoveOk
    <3>3. (Journalled(todo[s], l, o, old, new) /\ InReverse(todo[s], o) /\ Restores(l, o, old, new))'
      BY <1>1, <2>3, <2>7, <3>2, MoveFailsStages
    <3>4. Carried(l, o, old, new)'
      BY <3>3 DEF Restores, Carried
    <3>5. Parties(s, l, o, old, new)' => WorkOk(s, l, o, old, new)'
      BY <3>1, <3>3 DEF WorkOk, UndoOk
    <3>6. \A p \in Elsewhere(l, o) : file'[Auth(p)] = file[Auth(p)] /\ IdIn(p)' = IdIn(p)
      BY <1>1, <3>1, FilesSame, Places3
    <3> QED BY <2>5, <3>4, <3>5, <3>6
  <2>8. CASE Undo(s)
    <3>1. pc[s] = "undo" /\ pc'[s] = "undo"
      BY <1>1, <2>8, UndoTypes
    <3>2. Journalled(todo[s], l, o, old, new) /\ InReverse(todo[s], o) /\ Restores(l, o, old, new)
      BY <2>1, <3>1 DEF WorkOk, UndoOk
    <3>3. "torn" \notin mishaps'
      BY <1>4 DEF Calm
    <3>4. /\ (Journalled(todo[s], l, o, old, new) /\ InReverse(todo[s], o) /\ Restores(l, o, old, new))'
          /\ \A p \in Elsewhere(l, o) : file'[Auth(p)] = file[Auth(p)] /\ IdIn(p)' = IdIn(p)
      BY <1>1, <2>3, <2>8, <3>2, <3>3, UndoStages
    <3>5. Carried(l, o, old, new)'
      BY <3>4 DEF Restores, Carried
    <3>6. Parties(s, l, o, old, new)' => WorkOk(s, l, o, old, new)'
      BY <3>1, <3>4 DEF WorkOk, UndoOk
    <3> QED BY <2>5, <3>4, <3>5, <3>6
  <2> QED BY <2>6, <2>7, <2>8
<1>5. ASSUME ~Calm' PROVE Inv'
  <2>1. ~Tidy' /\ ~Fresh' /\ ~Followed'
    BY <1>5 DEF Calm, Tidy, Fresh, Followed
  <2> QED BY <1>5, <2>1 DEF Inv
<1> QED BY <1>4, <1>5

(***************************************************************************)
(* The end of a move, for better or worse.                                 *)
(***************************************************************************)
LEMMA MoverEnds ==
  ASSUME Inv, TypeInv', LockInv', NEW s \in Switchers, Moving(s), ~Moving(s)', Acts(s),
         UNCHANGED <<file, cache, issued, session, kept>>, mishaps \subseteq mishaps',
         Tidy' => \A p, q \in Places : IdIn(p) # Absent /\ IdIn(p) = IdIn(q) => p = q,
         Followed' => UnnamedInv'
  PROVE  Inv'
<1>1. TypeInv /\ TypeOK /\ LockInv /\ s \notin Fetchers
  BY Names DEF Inv, TypeInv
<1>2. (Calm' => Calm) /\ (Tidy' => Tidy) /\ (Fresh' => Fresh) /\ (Followed' => Followed)
  BY NoWay
<1>3. /\ \A q \in Places : file'[Auth(q)] = file[Auth(q)] /\ IdIn(q)' = IdIn(q)
      /\ \A a \in Accounts : file'[Marker(a)] = file[Marker(a)]
  BY <1>1, FilesSame
<1>4. IdIn(Default)' = IdIn(Default) /\ \A g \in Fetchers : IdIn(g) = Absent => IdIn(g)' = Absent
  BY <1>3, Names
<1>5. \A x \in Switchers : ~Moving(x)'
  <2> SUFFICES ASSUME NEW x \in Switchers, x # s PROVE ~Moving(x)'
    OBVIOUS
  <2> QED BY <1>1, OneMover, Names DEF Acts, Moving
<1>6. ASSUME Calm' PROVE CalmInv'
  <2>1. KeptInv /\ SessionInv /\ CopyInv /\ RouteInv
    BY <1>2, <1>6 DEF Inv, CalmInv
  <2>2. WorkInv'
    BY <1>5 DEF WorkInv
  <2>3. KeptInv'
    BY <1>3, <2>1, KeptAside
  <2>4. SessionInv'
    BY <1>4, <2>1, SessionAside
  <2>5. CopyInv'
    BY <1>1, <1>3, <2>1, CopyAside
  <2>6. RouteInv'
    BY <1>1, <1>3, <1>4, <2>1, RouteAside
  <2> QED BY <2>2, <2>3, <2>4, <2>5, <2>6 DEF CalmInv
<1>7. ASSUME Tidy' PROVE UniqueInv'
  BY <1>3, <1>7 DEF UniqueInv
<1>8. ASSUME Fresh' PROVE LiveInv'
  BY <1>1, <1>2, <1>3, <1>8, LiveAside DEF Inv
<1> QED BY <1>6, <1>7, <1>8 DEF Inv

LEMMA StageEnds ==
  ASSUME NEW t, t = <<>>, NEW l \in Accounts, NEW o \in Places, NEW old, NEW new,
         Stage(t, l, o, old, new)
  PROVE  /\ file[Auth(Default)] = new /\ file[Auth(l)] = Absent
         /\ o # Default => file[Auth(o)] = old
<1>1. \A w1, w2, w3, w4, w5 :
        /\ <<w1, w2, w3, w4, w5>> # <<>> /\ <<w1, w2, w3, w4>> # <<>> /\ <<w1, w2, w3>> # <<>>
        /\ <<w1, w2>> # <<>> /\ <<w1>> # <<>>
  OBVIOUS
<1> QED BY <1>1 DEF Stage

(***************************************************************************)
(* Each login is in one place when the mover's own three places hold the   *)
(* two logins once each.                                                   *)
(***************************************************************************)
LEMMA SettledUnique ==
  ASSUME TypeOK, NEW l \in Accounts, NEW o \in Places,
         NEW old \in Blobs \cup {Absent}, NEW new \in Blobs,
         Given(l, o, old, new), Apart(l, o, old, new),
         \/ /\ file[Auth(Default)] = new /\ file[Auth(l)] = Absent
            /\ o # Default => file[Auth(o)] = old
         \/ /\ file[Auth(Default)] = old /\ file[Auth(l)] = new
            /\ o # Default => file[Auth(o)] = Absent
  PROVE  \A p, q \in Places : IdIn(p) # Absent /\ IdIn(p) = IdIn(q) => p = q
<1>1. /\ \A p \in Places : p \in {Default, l, o} \/ p \in Elsewhere(l, o)
      /\ l \in Places /\ Default \in Places /\ o # l /\ l # Default
  BY Places3 DEF Given
<1>2. \A p \in Places : IdIn(p) = IF file[Auth(p)] = Absent THEN Absent ELSE file[Auth(p)].id
  BY DEF IdIn
<1>3. new # Absent /\ new.id # Absent /\ (old # Absent => old.id # Absent /\ old.id # new.id)
  BY BlobFields, Names DEF Given
<1>4. \A p, q \in {Default, l, o} : IdIn(p) # Absent /\ IdIn(p) = IdIn(q) => p = q
  <2>1. CASE /\ file[Auth(Default)] = new /\ file[Auth(l)] = Absent
             /\ o # Default => file[Auth(o)] = old
    <3>1. IdIn(Default) = new.id /\ IdIn(l) = Absent
      BY <1>1, <1>2, <1>3, <2>1
    <3>2. o # Default => IdIn(o) # new.id
      BY <1>1, <1>2, <1>3, <2>1
    <3> QED BY <3>1, <3>2
  <2>2. CASE /\ file[Auth(Default)] = old /\ file[Auth(l)] = new
             /\ o # Default => file[Auth(o)] = Absent
    <3>1. IdIn(Default) # new.id /\ IdIn(l) = new.id
      BY <1>1, <1>2, <1>3, <2>2
    <3>2. o # Default => IdIn(o) = Absent
      BY <1>1, <1>2, <2>2
    <3> QED BY <3>1, <3>2
  <2> QED BY <2>1, <2>2
<1>5. \A p \in {Default, l, o} : IdIn(p) # Absent => (old # Absent /\ IdIn(p) = old.id) \/ IdIn(p) = new.id
  BY <1>1, <1>2
<1> QED BY <1>1, <1>4, <1>5 DEF Apart

LEMMA FinishOk ==
  ASSUME Inv, TypeInv', LockInv', NEW s \in Switchers, Finish(s) \/ Undone(s)
  PROVE  Inv'
<1>1. TypeInv /\ TypeOK /\ LockInv /\ s \in Procs
  BY Names DEF Inv, TypeInv
<1>2. /\ Moving(s) /\ todo[s] = <<>>
      /\ UNCHANGED <<file, cache, issued, session, kept, mishaps>>
      /\ \/ pc[s] = "move" /\ Leave(s, "forget")
         \/ pc[s] = "undo" /\ Leave(s, "idle")
  BY DEF Finish, Undone, Moving, store, history
<1>3. /\ Acts(s) /\ ~Moving(s)'
      /\ \/ pc[s] = "move" /\ pc'[s] = "forget"
         \/ pc[s] = "undo" /\ pc'[s] = "idle"
  BY <1>1, <1>2, LeaveActs DEF Moving
<1>4. ASSUME Calm
      PROVE  \E l \in Accounts, o \in Places, old \in Blobs \cup {Absent}, new \in Blobs :
               /\ Parties(s, l, o, old, new)
               /\ \/ /\ pc[s] = "move"
                     /\ file[Auth(Default)] = new /\ file[Auth(l)] = Absent
                     /\ o # Default => file[Auth(o)] = old
                  \/ /\ pc[s] = "undo"
                     /\ file[Auth(Default)] = old /\ file[Auth(l)] = new
                     /\ o # Default => file[Auth(o)] = Absent
  <2>1. PICK l \in Accounts, o \in Places, old \in Blobs \cup {Absent}, new \in Blobs :
          WorkOk(s, l, o, old, new)
    BY <1>2, <1>4 DEF Inv, CalmInv, WorkInv
  <2>2. Parties(s, l, o, old, new)
    BY <1>2, <2>1, WorkCarries
  <2>3. CASE pc[s] = "move"
    <3>1. PICK t : t = todo[s]
      OBVIOUS
    <3>2. Stage(t, l, o, old, new)
      BY <2>1, <2>3, <3>1 DEF WorkOk, MoveOk
    <3>3. /\ file[Auth(Default)] = new /\ file[Auth(l)] = Absent
          /\ o # Default => file[Auth(o)] = old
      BY <1>2, <3>1, <3>2, StageEnds
    <3> QED BY <2>2, <2>3, <3>3
  <2>4. CASE pc[s] = "undo"
    <3>1. Journalled(<<>>, l, o, old, new) /\ Restores(l, o, old, new)
      BY <1>2, <2>1, <2>4 DEF WorkOk, UndoOk
    <3>2. \A f : ~Covers(<<>>, f)
      BY DEF Covers
    <3>3. /\ file[Auth(Default)] = old /\ file[Auth(l)] = new
          /\ o # Default => file[Auth(o)] = Absent
      BY <3>1, <3>2 DEF Journalled, Restores
    <3> QED BY <2>2, <2>4, <3>3
  <2> QED BY <1>2, <2>3, <2>4 DEF Moving
<1>5. (Calm' => Calm) /\ (Tidy' => Tidy) /\ (Fresh' => Fresh) /\ (Followed' => Followed)
  BY <1>2, NoWay
<1>6. ASSUME Tidy'
      PROVE  \A p, q \in Places : IdIn(p) # Absent /\ IdIn(p) = IdIn(q) => p = q
  <2>1. Calm /\ Tidy
    BY <1>5, <1>6, Nested
  <2>2. PICK l \in Accounts, o \in Places, old \in Blobs \cup {Absent}, new \in Blobs :
               /\ Parties(s, l, o, old, new)
               /\ \/ /\ file[Auth(Default)] = new /\ file[Auth(l)] = Absent
                     /\ o # Default => file[Auth(o)] = old
                  \/ /\ file[Auth(Default)] = old /\ file[Auth(l)] = new
                     /\ o # Default => file[Auth(o)] = Absent
    BY <1>4, <2>1
  <2>3. Given(l, o, old, new) /\ Apart(l, o, old, new)
    BY <2>1, <2>2 DEF Parties
  <2> QED BY <1>1, <2>2, <2>3, SettledUnique
<1>7. ASSUME Followed' PROVE UnnamedInv'
  <2>1. CASE pc'[s] = "forget"
    BY <2>1 DEF UnnamedInv, Forgetting
  <2>2. CASE pc'[s] # "forget"
    <3>1. Calm /\ Followed
      BY <1>5, <1>7, Nested
    <3>2. PICK old \in Blobs \cup {Absent} : Shown(old) /\ file[Auth(Default)] = old
      <4>1. PICK l \in Accounts, o \in Places, old \in Blobs \cup {Absent}, new \in Blobs :
              Parties(s, l, o, old, new) /\ file[Auth(Default)] = old
        BY <1>3, <1>4, <2>2, <3>1
      <4>2. Shown(old)
        BY <3>1, <4>1 DEF Parties
      <4> QED BY <4>1, <4>2
    <3>3. Forgetting => Forgetting'
      BY <1>2, <1>3, Names DEF Forgetting, Acts, Moving
    <3>4. IdIn(Default)' = IdIn(Default) /\ cache' = cache
      BY <1>1, <1>2, FilesSame, Names
    <3>5. old # Absent => IdIn(Default) = old.id
      BY <3>2 DEF IdIn
    <3> QED BY <3>2, <3>3, <3>4, <3>5 DEF Shown, UnnamedInv
  <2> QED BY <2>1, <2>2
<1> QED BY <1>2, <1>3, <1>6, <1>7, MoverEnds

LEMMA CrashOk ==
  ASSUME Inv, TypeInv', LockInv', NEW p \in Procs, Crash(p)
  PROVE  Inv'
<1>1. TypeInv /\ TypeOK /\ LockInv /\ (p \in Fetchers => p \notin Switchers)
  BY Names DEF Inv, TypeInv
<1>2. /\ Acts(p) /\ pc[p] \in {"move", "undo", "forget", "save"}
      /\ \/ p \in Switchers /\ Leave(p, "idle")
         \/ p \in Fetchers /\ Return(p)
      /\ UNCHANGED <<file, cache, issued, session, kept>>
      /\ mishaps \subseteq mishaps'
      /\ pc[p] = "save" => "lost" \in mishaps'
      /\ pc[p] # "save" => "crash" \in mishaps'
  BY <1>1, CrashDoes DEF store
<1>3. /\ \A q \in Places : file'[Auth(q)] = file[Auth(q)] /\ IdIn(q)' = IdIn(q)
      /\ \A a \in Accounts : file'[Marker(a)] = file[Marker(a)]
  BY <1>1, <1>2, FilesSame
<1>4. ~Fresh' /\ (pc[p] # "save" => ~Tidy' /\ ~Followed')
  BY <1>2 DEF Fresh, Tidy, Followed
<1>5. CASE p \in Switchers
  <2>1. pc'[p] = "idle" /\ ~Moving(p)'
    BY <1>1, <1>2, <1>5, LeaveActs DEF Moving
  <2>2. CASE Moving(p)
    <3>1. ~Tidy' /\ ~Followed'
      BY <1>4, <2>2 DEF Moving
    <3> QED BY <1>2, <1>5, <2>1, <2>2, <3>1, MoverEnds
  <2>3. CASE ~Moving(p)
    <3>1. Quiet(p)
      BY <1>2, <1>3, <2>1, <2>3 DEF Quiet
    <3>2. Followed' /\ Forgetting => Forgetting'
      BY <1>2, <1>4, <1>5, Names DEF Forgetting, Acts
    <3> QED BY <1>1, <1>2, <1>4, <1>5, <3>1, <3>2, QuietStep
  <2> QED BY <2>2, <2>3
<1>6. CASE p \in Fetchers
  <2>1. CopyOk(p)' /\ RouteOk(p)'
    BY <1>1, <1>2, <1>6, ReturnOk
  <2>2. Quiet(p)
    BY <1>1, <1>2, <1>3, <1>6 DEF Quiet
  <2>3. Forgetting => Forgetting'
    BY <1>1, <1>2, <1>6, ForgettingSame
  <2> QED BY <1>2, <1>4, <2>1, <2>2, <2>3, QuietStep
<1> QED BY <1>2, <1>5, <1>6

LEMMA StutterOk ==
  ASSUME Inv, TypeInv', LockInv', UNCHANGED vars
  PROVE  Inv'
<1>1. TypeOK /\ Absent \notin Switchers /\ Absent \notin Fetchers
  BY Names DEF Inv, TypeInv, Procs
<1>2. /\ UNCHANGED <<lock, pc, job, todo, done, copy, place>>
      /\ UNCHANGED <<file, cache, issued, session, kept, mishaps>>
  BY DEF vars
<1>3. Quiet(Absent)
  BY <1>1, <1>2, SameActs, FilesSame DEF Quiet
<1>4. Forgetting => Forgetting'
  BY <1>2 DEF Forgetting
<1> QED BY <1>1, <1>2, <1>3, <1>4, QuietStep

-----------------------------------------------------------------------------
(* The invariant holds. *)

LEMMA InvInit == Init => Inv
<1> SUFFICES ASSUME Init PROVE Inv
  OBVIOUS
<1>1. TypeInv /\ TypeOK /\ LockInv
  BY TypeInit DEF TypeInv
<1>2. \A p \in Procs : pc[p] = "idle"
  BY DEF Init
<1>3. (\A x \in Switchers : ~Moving(x)) /\ \A f \in Fetchers : ~Asking(f) /\ pc[f] = "idle"
  BY <1>2, Names DEF Moving, Asking
<1>4. CalmInv
  <2>1. WorkInv /\ CopyInv
    BY <1>3 DEF WorkInv, CopyInv, CopyOk
  <2>2. KeptInv
    BY DEF Init, KeptInv
  <2>3. SessionInv
    BY DEF Init, SessionInv
  <2>4. RouteInv
    BY <1>3 DEF Init, RouteInv, RouteOk, NoPlace
  <2> QED BY <2>1, <2>2, <2>3, <2>4 DEF CalmInv
<1>5. UniqueInv
  BY DEF Init, UniqueInv
<1>6. UnnamedInv
  BY DEF Init, UnnamedInv
<1>7. LiveInv
  <2>1. ASSUME NEW p \in Places, file[Auth(p)] # Absent
        PROVE  file[Auth(p)].rt = 1 /\ issued[IdIn(p)] = 1
    <3>1. file[Auth(p)] \in [id : Ids, rt : {1}]
      BY <2>1, FileNames DEF Init
    <3>2. IdIn(p) \in Ids
      BY <2>1, <3>1 DEF IdIn
    <3> QED BY <3>1, <3>2 DEF Init
  <2>2. session = Absent
    BY DEF Init
  <2> QED BY <1>3, <2>1, <2>2 DEF LiveInv
<1> QED BY <1>1, <1>4, <1>5, <1>6, <1>7 DEF Inv

LEMMA InvStep == Inv /\ [Next]_vars => Inv'
<1> SUFFICES ASSUME Inv, [Next]_vars PROVE Inv'
  OBVIOUS
<1>1. TypeInv' /\ LockInv'
  BY BasicStep DEF Inv
<1>2. ASSUME NEW s \in Switchers, Begin(s) \/ BeginAdopt(s) \/ SwitchStep(s) PROVE Inv'
  BY <1>1, <1>2, QuietSwitch, DecideOk, MoverOk, FinishOk DEF SwitchStep
<1>3. ASSUME NEW f \in Fetchers, Fetch(f) \/ FetchStep(f) PROVE Inv'
  BY <1>1, <1>3, QuietFetch, RefreshOk, SaveAuthOk, UsageOk DEF FetchStep
<1>4. ASSUME NEW p \in Procs, Crash(p) PROVE Inv'
  BY <1>1, <1>4, CrashOk
<1>5. ASSUME NEW p \in Places, NEW id \in Ids, SignIn(p, id) PROVE Inv'
  BY <1>1, <1>5, SignInOk
<1>6. CASE SessionReloads
  BY <1>1, <1>6, SessionReloadsOk
<1>7. CASE SessionRefreshes
  BY <1>1, <1>7, SessionRefreshesOk
<1>8. CASE UNCHANGED vars
  BY <1>1, <1>8, StutterOk
<1> QED BY <1>2, <1>3, <1>4, <1>5, <1>6, <1>7, <1>8 DEF Next

LEMMA InvAlways == Spec => []Inv
BY InvInit, InvStep, PTL DEF Spec

(***************************************************************************)
(* No login that is owed is out of every slot, through every move, failed  *)
(* write, rollback and crash (switch_account journals before it writes).   *)
(***************************************************************************)
THEOREM CodexLoginsKept == Spec => []EveryLoginKept
<1>1. Inv => EveryLoginKept
  BY DEF Inv, CalmInv, Calm, KeptInv, EveryLoginKept
<1> QED BY <1>1, InvAlways, PTL

(***************************************************************************)
(* A finished switch leaves each login in one file, and the unnamed        *)
(* account's cache without the figure of the login that was there before.  *)
(***************************************************************************)
THEOREM CodexNothingLeftBehind == Spec => []NothingIsLeftBehind
<1> SUFFICES Inv => NothingIsLeftBehind
  BY InvAlways, PTL
<1> SUFFICES ASSUME Inv PROVE OneLiveCopy /\ UnnamedFollowsTheDefault
  BY DEF NothingIsLeftBehind
<1>1. OneLiveCopy
  BY DEF Inv, Tidy, UniqueInv, Held, Moving, OneLiveCopy
<1>2. UnnamedFollowsTheDefault
  <2>1. CASE mishaps \cap {"signin", "crash", "torn", "crossed"} # {}
    BY <2>1 DEF UnnamedFollowsTheDefault
  <2>2. CASE mishaps \cap {"signin", "crash", "torn", "crossed"} = {}
    <3>1. Followed
      BY <2>2 DEF Followed, Tidy
    <3>2. UnnamedInv
      BY <3>1 DEF Inv
    <3> QED BY <3>2 DEF UnnamedInv, Moving, Forgetting, UnnamedFollowsTheDefault
  <2> QED BY <2>1, <2>2
<1> QED BY <1>1, <1>2

(***************************************************************************)
(* Every file holds the refresh token the server accepts, or is about to   *)
(* be written over with it by the fetch that holds its lock: a switch      *)
(* never carries away a token that a fetch has had rotated.                *)
(***************************************************************************)
THEOREM CodexTokensLive == Spec => []TokensAreLive
<1> SUFFICES Inv => TokensAreLive
  BY InvAlways, PTL
<1> SUFFICES ASSUME Inv, Fresh, NEW p \in Places, file[Auth(p)] # Absent,
                    file[Auth(p)].rt # issued[IdIn(p)]
             PROVE  \E f \in Fetchers : /\ pc[f] = "save" /\ place[f].at = p /\ lock[p] = f
                                        /\ copy[f] = [id |-> IdIn(p), rt |-> issued[IdIn(p)]]
  BY DEF TokensAreLive, Fresh
<1>1. LiveInv /\ Tidy
  BY Nested DEF Inv
<1>2. PICK f \in Fetchers : pc[f] = "save" /\ place[f].at = p
  BY <1>1 DEF LiveInv, Saves
<1>3. lock[p] = f /\ copy[f].id = IdIn(p) /\ copy[f] \in Blobs
  BY <1>1, <1>2, AskedAlone DEF Asking
<1>4. copy[f].rt = issued[IdIn(p)]
  BY <1>1, <1>2, <1>3 DEF LiveInv
<1>5. copy[f] = [id |-> copy[f].id, rt |-> copy[f].rt]
  BY <1>3, BlobFields
<1> QED BY <1>2, <1>3, <1>4, <1>5

(***************************************************************************)
(* The one step that shows a figure is the end of a fetch.                 *)
(***************************************************************************)
LEMMA CacheWrites ==
  ASSUME [Next]_vars
  PROVE  cache' = cache \/ (\E s \in Switchers : Forget(s)) \/ (\E f \in Fetchers : Usage(f))
<1>1. ASSUME NEW s \in Switchers, Begin(s) \/ BeginAdopt(s) \/ SwitchStep(s) PROVE cache' = cache \/ Forget(s)
  <2>1. CASE Begin(s) \/ BeginAdopt(s)
    BY <2>1 DEF Begin, BeginAdopt, store
  <2>2. CASE Lock(s) \/ LockTimesOut(s) \/ Decide(s)
    BY <2>2 DEF Lock, LockTimesOut, Decide, store
  <2>3. CASE Move(s) \/ MoveFails(s) \/ Undo(s)
    BY <2>3 DEF Move, MoveFails, Undo, store
  <2>4. CASE Undone(s) \/ Finish(s) \/ Adopt(s)
    BY <2>4 DEF Undone, Finish, Adopt, store
  <2> QED BY <1>1, <2>1, <2>2, <2>3, <2>4 DEF SwitchStep
<1>2. ASSUME NEW f \in Fetchers, Fetch(f) \/ FetchStep(f) PROVE cache' = cache \/ Usage(f)
  <2>1. CASE Fetch(f) \/ FetchLocks(f) \/ Reroute(f) \/ ReadAuth(f)
    BY <2>1 DEF Fetch, FetchLocks, Reroute, ReadAuth, store
  <2>2. CASE Refresh(f) \/ SaveAuth(f)
    BY <2>2 DEF Refresh, SaveAuth
  <2> QED BY <1>2, <2>1, <2>2 DEF FetchStep
<1>3. ASSUME NEW p \in Procs, Crash(p) PROVE cache' = cache
  BY <1>3 DEF Crash, store
<1>4. ASSUME NEW p \in Places, NEW id \in Ids, SignIn(p, id) PROVE cache' = cache
  BY <1>4 DEF SignIn
<1>5. SessionReloads \/ SessionRefreshes => cache' = cache
  BY DEF SessionReloads, SessionRefreshes
<1>6. UNCHANGED vars => cache' = cache
  BY DEF vars
<1> QED BY <1>1, <1>2, <1>3, <1>4, <1>5, <1>6 DEF Next

(***************************************************************************)
(* A figure is stored under the account it belongs to: the route is asked  *)
(* for again under the lock, and the lock is held until the figure is in.  *)
(***************************************************************************)
THEOREM CodexFigures == Spec => FigureIsTheirs
<1>1. Inv /\ [Next]_vars =>
        [ \A f \in Fetchers :
            mishaps \cap {"torn", "crossed"} = {} /\ cache'[f] \notin {Absent, cache[f]} =>
              cache'[f] = IF f = Default THEN IdIn(Default) ELSE Identity(f) ]_vars
  <2> SUFFICES ASSUME Inv, [Next]_vars, NEW f \in Fetchers, Calm, cache'[f] \notin {Absent, cache[f]}
               PROVE  cache'[f] = IF f = Default THEN IdIn(Default) ELSE Identity(f)
    BY DEF Calm
  <2>1. TypeInv /\ TypeOK
    BY DEF Inv, TypeInv
  <2>2. \A s \in Switchers : ~Forget(s)
    BY DEF Forget
  <2>3. PICK g \in Fetchers : Usage(g)
    BY <2>2, CacheWrites
  <2>4. Usage(f)
    BY <2>1, <2>3, UsageDoes
  <2>5. pc[f] = "usage" /\ cache'[f] = copy[f].id /\ copy[f] # Absent
    BY <2>1, <2>4, UsageDoes DEF TypeInv, Asking
  <2>6. copy[f].id # Absent
    BY <2>1, <2>5, TypeParts, BlobFields, Names DEF ProcsTyped
  <2>7. IdIn(place[f].at) = copy[f].id
    BY <2>5 DEF Inv, CalmInv, CopyInv, CopyOk, Asking
  <2>8. /\ place[f].at \in {Default, f}
        /\ place[f].at = f \/ (IdIn(f) = Absent /\ f \in Accounts /\ file[Marker(f)] = IdIn(Default))
    BY <2>5 DEF Inv, CalmInv, RouteInv, RouteOk, Asking
  <2>9. CASE place[f].at = f
    BY <2>5, <2>6, <2>7, <2>9 DEF Identity
  <2>10. CASE place[f].at # f
    BY <2>5, <2>7, <2>8, <2>10, Names DEF Identity
  <2> QED BY <2>9, <2>10
<1> QED BY <1>1, InvAlways, PTL DEF Spec, FigureIsTheirs
=============================================================================
