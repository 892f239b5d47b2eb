----------------------------- MODULE ClaudeSwitch -----------------------------
(***************************************************************************)
(* Moving the `claude` CLI's login between managed accounts                *)
(* (src/src/anthropic/cli_account.rs): switch_cli_account, its rollback,   *)
(* and adopt_current, run by any number of processes under one flock.      *)
(*                                                                         *)
(* The CLI reads one default slot; every managed account has a named slot  *)
(* of its own.  ~/.claude.json (the marker) says whose login the default   *)
(* slot holds, and a marker in each account's directory (own) says whose   *)
(* login that account is.  A login is a rotating refresh token: the server *)
(* accepts the latest one only, so the slots must never hold two copies of *)
(* it, and the last copy must never be overwritten.                        *)
(*                                                                         *)
(* Around the switch run the `claude` client and ai-usagebar's own fetch,  *)
(* which refresh what a slot holds without taking the switch's lock        *)
(* (AnthropicFetch has the fetch in full).                                 *)
(*                                                                         *)
(* The _Bug forms are plausible mistakes; no specification uses them.      *)
(***************************************************************************)
EXTENDS Naturals, Sequences, FiniteSets

CONSTANTS Procs,      \* the processes that switch or adopt
          Accounts,   \* the managed accounts; each is also an identity
          Stranger,   \* an identity that no account is signed into at first
          None,       \* no process, account or identity
          Crashes,    \* a process may die half way
          Rivals,     \* whose refreshes may overlap a switch: "fetch", "claude"
          MaxFaults,  \* bound: store operations that fail, and deaths
          MaxTokens   \* bound: refresh tokens issued to one identity

ASSUME SwitchAssumption ==
  /\ None \notin Procs \cup Accounts \cup {Stranger, "default", "marker"}
  /\ Stranger \notin Accounts
  /\ {"default", "marker"} \cap (Accounts \cup {Stranger}) = {}
  /\ Crashes \in BOOLEAN /\ Rivals \subseteq {"fetch", "claude"}
  /\ MaxFaults \in Nat /\ MaxTokens \in Nat \ {0}

VARIABLES
  slot,       \* the credential store: the default slot and the named ones
  marker,     \* the identity recorded in ~/.claude.json
  own,        \* the identity recorded in each account's own .claude.json
  issued,     \* the number of the refresh token the server accepts
  lock,       \* the process that holds .ai-usagebar-account-switch.lock
  pc,         \* where each process is
  job,        \* what it is doing
  ref,        \* the refresh a fetch has under way
  faults,     \* how many store operations have failed, and processes died
  owed,       \* history: the logins nobody asked to discard
  cut,        \* history: a crash or a failed restore ended a move half way
  torn,       \* history: the one that left the marker at odds is not yet repaired
  unrestored, \* history: the logins whose copy a rollback could not put back
  misled      \* history: a switch has taken its active account from such a marker

vars == <<slot, marker, own, issued, lock, pc, job, ref, faults,
          owed, cut, torn, unrestored, misled>>

Ids == Accounts \cup {Stranger}
Slots == Accounts \cup {"default"}

(***************************************************************************)
(* A credential: whose it is and which of the tokens issued to that        *)
(* identity it carries; or none.                                           *)
(***************************************************************************)
Absent == [id |-> None, rt |-> 0]
Blobs == [id : Ids, rt : 1 .. MaxTokens] \cup {Absent}

(***************************************************************************)
(* A step of the transaction: what to put in a slot, or, at "marker", the  *)
(* identity to record.  To put Absent is to delete.                        *)
(***************************************************************************)
Writes == [at : Slots, put : Blobs]
          \cup [at : {"marker"}, put : [id : Ids \cup {None}, rt : {0}]]

Switches == [kind : {"switch", "adopt"}, label : Accounts, force : BOOLEAN, dry : BOOLEAN,
             active : Accounts \cup {None}, plan : Seq(Writes), undo : Seq(Writes),
             before : [slot : [Slots -> Blobs], marker : Ids \cup {None},
                       faults : 0 .. MaxFaults]]
NoJob == [kind |-> "none"]

NoRefresh == [pc |-> "idle", slot |-> "default", cred |-> Absent]

(***************************************************************************)
(* The label whose own marker names the live login (resolve_active_label). *)
(***************************************************************************)
ActiveLabel ==
  IF marker # None /\ \E a \in Accounts : own[a] = marker
  THEN CHOOSE a \in Accounts : own[a] = marker
  ELSE None

(***************************************************************************)
(* The marker names another login than the one the default slot holds.     *)
(***************************************************************************)
AtOdds == slot["default"] # Absent /\ slot["default"].id # marker

(***************************************************************************)
(* An identity is signed in once: in the default slot, in the named slot   *)
(* of its account, or nowhere.                                             *)
(***************************************************************************)
Init ==
  /\ \E live \in Ids \cup {None}, asleep \in SUBSET Accounts :
       /\ live \notin asleep
       /\ slot = [s \in Slots |->
            IF s = "default" /\ live # None THEN [id |-> live, rt |-> 1]
            ELSE IF s \in asleep THEN [id |-> s, rt |-> 1]
            ELSE Absent]
       /\ marker \in (IF live = None THEN Ids \cup {None} ELSE {live})
       /\ \E signed \in SUBSET Accounts :
            own = [a \in Accounts |-> IF a \in signed THEN a ELSE None]
  /\ issued = [i \in Ids |-> 1]
  /\ lock = None
  /\ pc = [p \in Procs |-> "idle"]
  /\ job = [p \in Procs |-> NoJob]
  /\ ref = NoRefresh
  /\ faults = 0
  /\ owed = { i \in Ids : \E s \in Slots : slot[s].id = i }
  /\ cut = FALSE /\ torn = FALSE /\ misled = FALSE
  /\ unrestored = {}

disk == <<slot, marker, own>>
history == <<owed, cut, torn, unrestored, misled>>

Goto(p, label) == pc' = [pc EXCEPT ![p] = label]

Return(p) ==
  /\ Goto(p, "idle")
  /\ job' = [job EXCEPT ![p] = NoJob]
  /\ lock' = IF lock = p THEN None ELSE lock

(***************************************************************************)
(* Without rivals nothing refreshes or signs in while a switch runs.       *)
(***************************************************************************)
Calm(who) == who \in Rivals \/ lock = None

-----------------------------------------------------------------------------
(* switch_cli_account. *)

(***************************************************************************)
(* Both operations take the lock first; one that times out has done        *)
(* nothing.                                                                *)
(***************************************************************************)
Begin(p) ==
  /\ pc[p] = "idle"
  /\ lock = None
  /\ "fetch" \in Rivals \/ ref.pc = "idle"
  /\ \E kind \in {"switch", "adopt"}, label \in Accounts, force, dry \in BOOLEAN :
       /\ kind = "adopt" => ~force /\ ~dry
       /\ job' = [job EXCEPT ![p] =
            [kind |-> kind, label |-> label, force |-> force, dry |-> dry,
             active |-> None, plan |-> <<>>, undo |-> <<>>,
             before |-> [slot |-> slot, marker |-> marker, faults |-> faults]]]
       /\ Goto(p, kind)
  /\ lock' = p
  /\ UNCHANGED <<disk, issued, ref, faults, history>>

Identify(p) ==
  /\ pc[p] = "switch"
  /\ job' = [job EXCEPT ![p].active = ActiveLabel]
  /\ Goto(p, "read")
  /\ UNCHANGED <<disk, issued, lock, ref, faults, history>>

Put(at, blob) == [at |-> at, put |-> blob]

(***************************************************************************)
(* The outgoing credential is captured back before anything is             *)
(* overwritten; the default slot is written before the marker; the         *)
(* target's named copy goes last.                                          *)
(***************************************************************************)
Plan_CapturesLate_Bug(j) ==
  <<Put("default", slot[j.label]), Put("marker", [id |-> own[j.label], rt |-> 0])>>
  \o (IF j.active # None /\ slot["default"] # Absent
      THEN <<Put(j.active, slot["default"])>> ELSE <<>>)
  \o <<Put(j.label, Absent)>>

Plan_KeepsTheCopy_Bug(j) ==
  (IF j.active # None /\ slot["default"] # Absent
   THEN <<Put(j.active, slot["default"])>> ELSE <<>>)
  \o <<Put("default", slot[j.label]), Put("marker", [id |-> own[j.label], rt |-> 0])>>

Plan(j) ==
  (IF j.active # None /\ slot["default"] # Absent
   THEN <<Put(j.active, slot["default"])>> ELSE <<>>)
  \o <<Put("default", slot[j.label]), Put("marker", [id |-> own[j.label], rt |-> 0]),
       Put(j.label, Absent)>>

Undo_ForgetsTheTarget_Bug(j) ==
  <<Put("default", slot["default"])>>
  \o (IF j.active # None THEN <<Put(j.active, slot[j.active])>> ELSE <<>>)
  \o <<Put("marker", [id |-> marker, rt |-> 0])>>

(***************************************************************************)
(* rollback_switch: every step is tried, whatever becomes of the others.   *)
(***************************************************************************)
Undo(j) ==
  <<Put("default", slot["default"]), Put(j.label, slot[j.label])>>
  \o (IF j.active # None THEN <<Put(j.active, slot[j.active])>> ELSE <<>>)
  \o <<Put("marker", [id |-> marker, rt |-> 0])>>

AlreadyActive(j) == j.active = j.label /\ slot["default"] # Absent

(***************************************************************************)
(* Refused before the first write: a live login no account owns, unless    *)
(* forced; a target that never signed in; a target without a marker.       *)
(***************************************************************************)
Refused(j) ==
  \/ j.active = None /\ slot["default"] # Absent /\ ~j.force
  \/ slot[j.label] = Absent
  \/ own[j.label] = None

Planned(j, plan, undo) ==
  [kind |-> j.kind, label |-> j.label, force |-> j.force, dry |-> j.dry,
   active |-> j.active, plan |-> plan, undo |-> undo, before |-> j.before]

(***************************************************************************)
(* Everything the move and its rollback need is read before the first      *)
(* write.  An account that is active already only loses a redundant copy.  *)
(* Nothing is written when the move is refused, when it is a dry run, when *)
(* there is nothing to do, or when a slot or a marker cannot be read.      *)
(***************************************************************************)
ReadSlots(p) ==
  LET j == job[p]
      drops == AlreadyActive(j)
  IN  /\ pc[p] = "read"
      /\ \/ Return(p) /\ UNCHANGED misled
         \/ /\ ~j.dry
            /\ IF drops THEN slot[j.label] # Absent ELSE ~Refused(j)
            /\ job' = [job EXCEPT ![p] =
                 IF drops THEN Planned(j, <<Put(j.label, Absent)>>, <<>>)
                 ELSE Planned(j, Plan(j), Undo(j))]
            /\ Goto(p, "write")
            /\ misled' = (misled \/ (AtOdds /\ j.active # None))
            /\ UNCHANGED lock
      /\ UNCHANGED <<disk, issued, ref, faults, owed, cut, torn, unrestored>>

-----------------------------------------------------------------------------
(* The writes. *)

Apply(w) ==
  IF w.at = "marker" THEN marker' = w.put.id /\ UNCHANGED slot
  ELSE slot' = [slot EXCEPT ![w.at] = w.put] /\ UNCHANGED marker

(***************************************************************************)
(* A write that fails; a failed Keychain operation may have taken effect   *)
(* all the same, an atomic file replacement never has.                     *)
(***************************************************************************)
Fault(w) ==
  /\ faults < MaxFaults
  /\ faults' = faults + 1
  /\ \/ w.at # "marker" /\ Apply(w)
     \/ UNCHANGED <<slot, marker>>

(***************************************************************************)
(* --force discards the login in the default slot that nobody owns.        *)
(***************************************************************************)
Discarded(j, w) ==
  IF w.at = "default" /\ j.force /\ j.active = None THEN {slot["default"].id} ELSE {}

Write(p) ==
  LET j == job[p]
      w == Head(j.plan)
  IN  /\ pc[p] = "write"
      /\ \/ /\ Apply(w)
            /\ UNCHANGED faults
            /\ IF Len(j.plan) = 1 THEN Return(p) /\ torn' = (torn /\ AtOdds')
               ELSE /\ job' = [job EXCEPT ![p].plan = Tail(@)]
                    /\ UNCHANGED <<lock, pc, torn>>
         \/ /\ Fault(w)
            /\ IF j.undo = <<>> THEN Return(p)
               ELSE Goto(p, "undo") /\ UNCHANGED <<lock, job>>
            /\ UNCHANGED torn
      /\ owed' = owed \ Discarded(j, w)
      /\ UNCHANGED <<own, issued, ref, cut, unrestored, misled>>

(***************************************************************************)
(* The logins which a list puts back in a slot that does not hold them,    *)
(* and those among some logins whose latest token no slot holds.           *)
(***************************************************************************)
Missing(puts, slots) ==
  { puts[k].put.id : k \in { n \in DOMAIN puts :
      puts[n].at # "marker" /\ puts[n].put.id # None /\ slots[puts[n].at] # puts[n].put } }

Lost(ids, slots) == { i \in ids : \A s \in Slots : slots[s] # [id |-> i, rt |-> issued[i]] }

RollBack(p) ==
  LET j == job[p]
      w == Head(j.undo)
  IN  /\ pc[p] = "undo"
      /\ \/ Apply(w) /\ UNCHANGED <<faults, cut>>
         \/ Fault(w) /\ cut' = TRUE
      /\ LET missing == unrestored \cup Missing(<<w>>, slot')
         IN  IF Len(j.undo) = 1
             THEN /\ Return(p)
                  /\ unrestored' = Lost(missing, slot')
                  /\ torn' = (AtOdds' /\ (torn \/ faults' # j.before.faults + 1))
             ELSE /\ job' = [job EXCEPT ![p].undo = Tail(@)]
                  /\ unrestored' = missing
                  /\ UNCHANGED <<lock, pc, torn>>
      /\ UNCHANGED <<own, issued, ref, owed, misled>>

Crash(p) ==
  /\ Crashes /\ faults < MaxFaults
  /\ pc[p] # "idle"
  /\ Return(p)
  /\ cut' = (cut \/ pc[p] \in {"write", "undo"})
  /\ torn' = (torn \/ (pc[p] \in {"write", "undo"} /\ AtOdds))
  /\ unrestored' = IF pc[p] = "undo"
                    THEN Lost(unrestored \cup Missing(job[p].undo, slot), slot)
                    ELSE unrestored
  /\ faults' = faults + 1
  /\ UNCHANGED <<disk, issued, ref, owed, misled>>

-----------------------------------------------------------------------------
(* adopt_current: only the account's own marker is written. *)

Adoptable(j) ==
  /\ marker # None
  /\ \A a \in Accounts \ {j.label} : own[a] # marker
  /\ slot[j.label] = Absent
  /\ slot["default"] # Absent

AdoptCurrent(p) ==
  /\ pc[p] = "adopt"
  /\ \/ Adoptable(job[p]) /\ own' = [own EXCEPT ![job[p].label] = marker]
     \/ UNCHANGED own
  /\ Return(p)
  /\ UNCHANGED <<slot, marker, issued, ref, faults, history>>

-----------------------------------------------------------------------------
(* The refreshes around it. *)

Live(blob) == blob.id # None /\ blob.rt = issued[blob.id]

CanRotate(blob) == Live(blob) /\ issued[blob.id] < MaxTokens

Rotated(blob) == [id |-> blob.id, rt |-> blob.rt + 1]

(***************************************************************************)
(* A fetch is told which slot to read when it is set up: an account that   *)
(* is the live CLI login is read from the default slot.  (The switch works *)
(* on the macOS Keychain, where the probed credential file is not there.)  *)
(***************************************************************************)
RouteFetch(entry) == IF entry = ActiveLabel THEN "default" ELSE entry

FetchReads ==
  /\ ref.pc = "idle"
  /\ Calm("fetch")
  /\ \E entry \in Slots :
       LET at == RouteFetch(entry)
       IN  /\ CanRotate(slot[at])
           /\ ref' = [pc |-> "read", slot |-> at, cred |-> slot[at]]
  /\ UNCHANGED <<disk, issued, lock, pc, job, faults, history>>

(***************************************************************************)
(* The server rotates the token the fetch read, or refuses it because the  *)
(* slot's other reader was first.                                          *)
(***************************************************************************)
FetchRefreshes ==
  /\ ref.pc = "read"
  /\ IF CanRotate(ref.cred)
     THEN /\ issued' = [issued EXCEPT ![ref.cred.id] = @ + 1]
          /\ ref' = [pc |-> "granted", slot |-> ref.slot, cred |-> Rotated(ref.cred)]
     ELSE ref' = NoRefresh /\ UNCHANGED issued
  /\ UNCHANGED <<disk, lock, pc, job, faults, history>>

FetchWritesBack ==
  /\ ref.pc = "granted"
  /\ slot' = [slot EXCEPT ![ref.slot] = ref.cred]
  /\ ref' = NoRefresh
  /\ UNCHANGED <<marker, own, issued, lock, pc, job, faults, history>>

(***************************************************************************)
(* `claude` itself refreshes the default slot in one step.                 *)
(***************************************************************************)
ClaudeRefreshes ==
  /\ Calm("claude")
  /\ CanRotate(slot["default"])
  /\ issued' = [issued EXCEPT ![slot["default"].id] = @ + 1]
  /\ slot' = [slot EXCEPT !["default"] = Rotated(@)]
  /\ UNCHANGED <<marker, own, lock, pc, job, ref, faults, history>>

(***************************************************************************)
(* The user signs in or out in `claude`, and so gives up what the default  *)
(* slot held.  Only an identity that is signed in nowhere signs in: a      *)
(* second grant for one identity is out of this model's reach.             *)
(***************************************************************************)
ClaudeSignsIn(i) ==
  /\ lock = None /\ ref.pc = "idle"
  /\ \A s \in Slots : slot[s].id # i
  /\ issued[i] < MaxTokens
  /\ issued' = [issued EXCEPT ![i] = @ + 1]
  /\ slot' = [slot EXCEPT !["default"] = [id |-> i, rt |-> issued[i] + 1]]
  /\ marker' = i
  /\ owed' = (owed \ {slot["default"].id}) \cup {i}
  /\ unrestored' = unrestored \ {i} /\ torn' = FALSE
  /\ UNCHANGED <<own, lock, pc, job, ref, faults, cut, misled>>

ClaudeSignsOut ==
  /\ lock = None /\ ref.pc = "idle"
  /\ slot["default"] # Absent
  /\ slot' = [slot EXCEPT !["default"] = Absent]
  /\ marker' \in {None, marker}
  /\ owed' = owed \ {slot["default"].id}
  /\ torn' = FALSE
  /\ UNCHANGED <<own, issued, lock, pc, job, ref, faults, cut, unrestored, misled>>

Step(p) ==
  \/ Identify(p) \/ ReadSlots(p) \/ Write(p) \/ RollBack(p) \/ AdoptCurrent(p)

Next ==
  \/ \E p \in Procs : Begin(p) \/ Step(p) \/ Crash(p)
  \/ FetchReads \/ FetchRefreshes \/ FetchWritesBack
  \/ ClaudeRefreshes \/ ClaudeSignsOut
  \/ \E i \in Ids : ClaudeSignsIn(i)

Spec == Init /\ [][Next]_vars

-----------------------------------------------------------------------------
(* Properties. *)

(***************************************************************************)
(* Type correctness of the store and of the transactions.                  *)
(***************************************************************************)
TypeOK ==
  /\ slot \in [Slots -> Blobs]
  /\ marker \in Ids \cup {None}
  /\ own \in [Accounts -> Ids \cup {None}]
  /\ issued \in [Ids -> 1 .. MaxTokens]
  /\ lock \in Procs \cup {None}
  /\ pc \in [Procs -> {"idle", "switch", "read", "write", "undo", "adopt"}]
  /\ job \in [Procs -> Switches \cup {NoJob}]
  /\ ref \in [pc : {"idle", "read", "granted"}, slot : Slots, cred : Blobs]
  /\ faults \in 0 .. MaxFaults
  /\ owed \subseteq Ids
  /\ cut \in BOOLEAN /\ torn \in BOOLEAN /\ misled \in BOOLEAN
  /\ unrestored \subseteq Ids

(***************************************************************************)
(* The identity's latest token is in a slot, or a fetch is about to write  *)
(* it to one, or a rollback is about to put it back.                       *)
(***************************************************************************)
Kept(i) ==
  \/ \E s \in Slots : slot[s].id = i /\ Live(slot[s])
  \/ ref.pc = "granted" /\ ref.cred.id = i
  \/ \E p \in Procs :
       /\ pc[p] = "undo"
       /\ \E k \in DOMAIN job[p].undo :
            LET w == job[p].undo[k] IN w.at # "marker" /\ w.put.id = i /\ Live(w.put)

(***************************************************************************)
(* At no point of a switch, of its rollback or of a crash inside either is *)
(* a login nobody discarded out of every slot: the outgoing login is       *)
(* captured first and the incoming one keeps its named copy until the end. *)
(***************************************************************************)
EveryLoginKept == \A i \in owed : Kept(i)

(***************************************************************************)
(* The same but for the very logins whose copy a rollback failed to put    *)
(* back, or died before it put back: the rollback goes on to delete the    *)
(* captured copy of a login it could not restore.  It holds until a switch *)
(* has trusted a marker at odds with the default slot, from which moment a *)
(* last copy may pass for a redundant one.                                 *)
(***************************************************************************)
EveryLoginKeptUntilMisled == misled \/ \A i \in owed \ unrestored : Kept(i)

Quiet == lock = None /\ ref.pc = "idle"

(***************************************************************************)
(* Between operations no token is in two slots, so no refresh of one copy  *)
(* can invalidate another.  A move that a crash or a failed restore cut    *)
(* short leaves a second copy, of the default slot's token and in one      *)
(* named slot only.                                                        *)
(***************************************************************************)
OneLiveCopy ==
  Quiet /\ ~misled =>
    \A s, t \in Slots :
      slot[s] = slot[t] /\ slot[s] # Absent => s = t \/ (cut /\ "default" \in {s, t})

(***************************************************************************)
(* Between operations the marker names the login the default slot holds,   *)
(* what routes every fetch and guards --force, unless the move that put    *)
(* the two at odds died or could not be rolled back, and no move or        *)
(* sign-in has repaired it since; and at all times no two accounts claim   *)
(* one identity, so that the slot which the next switch captures into is   *)
(* determined.                                                             *)
(***************************************************************************)
MarkersTellTheTruth ==
  /\ Quiet /\ AtOdds => torn \/ misled
  /\ \A a, b \in Accounts : own[a] = own[b] /\ own[a] # None => a = b

(***************************************************************************)
(* Nothing a switch leaves behind misleads the next one: the two together. *)
(***************************************************************************)
SlotsAndMarkersAgree == OneLiveCopy /\ MarkersTellTheTruth

(***************************************************************************)
(* A switch that fails and whose rollback runs to its end without a        *)
(* further failure leaves every slot and the marker as it found them,      *)
(* whatever came before it.                                                *)
(***************************************************************************)
RollBackRestores ==
  [][ \A p \in Procs :
        RollBack(p) /\ pc'[p] = "idle" /\ faults' = job[p].before.faults + 1 =>
          slot' = job[p].before.slot /\ marker' = job[p].before.marker ]_vars
=============================================================================
