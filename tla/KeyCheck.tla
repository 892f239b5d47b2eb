------------------------------ MODULE KeyCheck ------------------------------
(***************************************************************************)
(* One key vendor's section of config.toml and everybody who writes it:    *)
(* the popover's key check (src/src/tray/providers.rs), which saves a key  *)
(* to try it and puts the section back when the provider refuses it, the   *)
(* settings overlay of the TUI (src/src/tui/settings.rs), the tray's       *)
(* provider switch and the switches of the other frontends.  Every writer  *)
(* edits the document under one lock file (src/src/config.rs); readers     *)
(* take no lock and, the file being renamed into place, see whole          *)
(* documents.  The catalog the popover draws is read by the tray's worker. *)
(*                                                                         *)
(* The vendor's environment variable is not set (the check is refused      *)
(* otherwise), and some other provider is enabled.  The _Bug forms are     *)
(* plausible mistakes; no specification uses them.                         *)
(***************************************************************************)
EXTENDS Naturals

CONSTANTS SentKeys,     \* the keys typed into the popover's dialog
          UserKeys,     \* the keys typed into the settings overlay
          GoodKeys,     \* the keys the provider accepts
          OnByDefault,  \* whether the vendor is on when the file does not say
          MaxSends,     \* bound: keys sent from the dialog
          MaxOthers     \* bound: saves, switches and edits made elsewhere

ASSUME KeyAssumption ==
  /\ OnByDefault \in BOOLEAN
  /\ MaxSends \in Nat /\ MaxOthers \in Nat
  /\ {"none", "empty"} \cap (SentKeys \cup UserKeys) = {}

VARIABLES
  doc,     \* config.toml: the vendor's section, and whom [ui] primary names
  draft,   \* what each holder of the lock file has read
  thread,  \* the check of each send
  fact,    \* the key_check fact of the payload; seq 0 is no fact
  sent,    \* the last send's number
  overlay, \* the settings overlay
  tray,    \* the tray's event loop inside set_enabled
  catalog, \* the providers the popover draws, their generation, and DUE
  reader,  \* the worker's read of the catalog
  used,    \* how many saves, switches and edits elsewhere were made
  held     \* history: the tray's last switch, until somebody else moves it

keyVars == <<doc, draft, thread, fact, sent, overlay, tray, catalog, reader, used, held>>

Sends == 1 .. MaxSends
Keys == SentKeys \cup UserKeys
Writers == {"check", "tui", "tray", "elsewhere"}

Docs == [section : BOOLEAN, key : Keys \cup {"none", "empty"}, on : {"none", "yes", "no"},
         primary : {"none", "this", "other"}]

NoDraft == [section |-> FALSE, key |-> "none", on |-> "nobody", primary |-> "none"]

(***************************************************************************)
(* The fields the edits touch, and the thread of a send.                   *)
(***************************************************************************)
Document(section, key, on, primary) ==
  [section |-> section, key |-> key, on |-> on, primary |-> primary]

Labels == {"none", "queued", "write", "writing", "bust", "fetch", "answer", "restore",
           "restoring", "finish", "done"}

Threads == [pc : Labels, key : SentKeys \cup {"none"}, asked : Keys \cup {"none"},
            verdict : {"none", "ok", "failed", "kept"}, before : Docs \cup {NoDraft}]

Thread(label, key, asked, verdict, before) ==
  [pc |-> label, key |-> key, asked |-> asked, verdict |-> verdict, before |-> before]

NoThread == Thread("none", "none", "none", "none", NoDraft)

Closed == [open |-> FALSE, primary |-> "other", offers |-> FALSE]

IsOn(d) == d.on = "yes" \/ (d.on = "none" /\ OnByDefault)

Use == used < MaxOthers /\ used' = used + 1

(* An empty field is no credential. *)
HasKey(d) == d.key \in Keys

Rows == [on : BOOLEAN, configured : BOOLEAN]
RowsOf(d) == [on |-> IsOn(d), configured |-> HasKey(d)]

KeyInit ==
  /\ doc \in {d \in Docs : /\ d.key \notin SentKeys
                           /\ ~d.section => d.key = "none" /\ d.on = "none"}
  /\ draft = [w \in Writers |-> NoDraft]
  /\ thread = [s \in Sends |-> NoThread]
  /\ fact = [seq |-> 0, state |-> "checking"]
  /\ sent = 0
  /\ overlay = Closed
  /\ tray = [pc |-> "idle", to |-> "no"]
  /\ catalog = [rows |-> RowsOf(doc), generation |-> 0, due |-> FALSE]
  /\ reader = [pc |-> "idle", rows |-> RowsOf(doc), generation |-> 0]
  /\ used = 0
  /\ held = "none"

-----------------------------------------------------------------------------
(* edit_config_document: the lock, the read, the edit and the rename. *)

Holds(w) == draft[w] # NoDraft

BeginEdit(w) ==
  /\ \A other \in Writers : ~Holds(other)
  /\ draft' = [draft EXCEPT ![w] = doc]

EndEdit(w, d) ==
  /\ Holds(w)
  /\ doc' = d
  /\ draft' = [draft EXCEPT ![w] = NoDraft]

(* The wait for the lock outlives CONFIG_LOCK_TIMEOUT. *)
LockTimesOut(w) == \E other \in Writers \ {w} : Holds(other)

Moved == held' = IF IsOn(doc') = IsOn(doc) THEN held ELSE "none"

-----------------------------------------------------------------------------
(* The popover's dialog and the tray's event loop. *)

(* request_key_check_with: a saved key is not the dialog's to replace. *)
Send(k) ==
  LET s == sent + 1 IN
  /\ tray.pc = "idle"
  /\ s \in Sends
  /\ sent' = s
  /\ fact' = [seq |-> s, state |-> IF HasKey(doc) THEN "failed" ELSE "checking"]
  /\ thread' = [thread EXCEPT ![s] =
       IF HasKey(doc) THEN Thread("done", k, "none", "failed", NoDraft)
       ELSE Thread("queued", k, "none", "none", NoDraft)]
  /\ UNCHANGED <<doc, draft, overlay, tray, catalog, reader, used, held>>

Switched(d, to) == Document(TRUE, d.key, to, d.primary)

(* set_enabled: the file, then the row and the generation, then the request. *)
SwitchBegin(to) ==
  /\ tray.pc = "idle"
  /\ Use
  /\ \/ BeginEdit("tray") /\ tray' = [pc |-> "write", to |-> to]
     \/ LockTimesOut("tray") /\ UNCHANGED draft /\ tray' = [pc |-> "request", to |-> to]
  /\ UNCHANGED <<doc, thread, fact, sent, overlay, catalog, reader, held>>

SwitchWrite ==
  /\ tray.pc = "write"
  /\ EndEdit("tray", Switched(draft["tray"], tray.to))
  /\ tray' = [tray EXCEPT !.pc = "record"]
  /\ held' = tray.to
  /\ UNCHANGED <<thread, fact, sent, overlay, catalog, reader, used>>

SwitchRecord ==
  /\ tray.pc = "record"
  /\ catalog' = [rows |-> [on |-> tray.to = "yes", configured |-> catalog.rows.configured],
                  generation |-> catalog.generation + 1, due |-> catalog.due]
  /\ tray' = [tray EXCEPT !.pc = "request"]
  /\ UNCHANGED <<doc, draft, thread, fact, sent, overlay, reader, used, held>>

SwitchRequest ==
  /\ tray.pc = "request"
  /\ catalog' = [catalog EXCEPT !.due = TRUE]
  /\ tray' = [tray EXCEPT !.pc = "idle"]
  /\ UNCHANGED <<doc, draft, thread, fact, sent, overlay, reader, used, held>>

-----------------------------------------------------------------------------
(* run_key_check, on the thread of its send, under KEY_CHECK_LOCK. *)

Inside(s) == thread[s].pc \in {"write", "writing", "bust", "fetch", "answer", "restore", "restoring"}

At(s, label) == thread[s].pc = label

MoveTo(s, label) == thread' = [thread EXCEPT ![s].pc = label]

Ends(s, label, verdict) ==
  thread' = [thread EXCEPT ![s] = Thread(label, @.key, @.asked, verdict, @.before)]

Fail(s, label) == Ends(s, label, "failed")

NotTheDocument == UNCHANGED <<doc, draft, held>>

NotTheTray == UNCHANGED <<sent, overlay, tray, reader, used>>

(* A send that a newer one replaced while it queued leaves everything alone. *)
TakeTheLock(s) ==
  /\ At(s, "queued")
  /\ \A other \in Sends : ~Inside(other)
  /\ MoveTo(s, IF fact.seq = s THEN "write" ELSE "done")
  /\ NotTheDocument /\ UNCHANGED <<fact, catalog>> /\ NotTheTray

(* finish_key_check: the fact, while it is this send's. *)
Publish(s, ok) ==
  fact' = IF fact.seq = s THEN [fact EXCEPT !.state = IF ok THEN "ok" ELSE "failed"] ELSE fact

AskForTheCatalog == catalog' = [catalog EXCEPT !.due = TRUE]

WriteBegin(s) ==
  /\ At(s, "write")
  /\ BeginEdit("check")
  /\ MoveTo(s, "writing")
  /\ UNCHANGED <<doc, held, fact, catalog>> /\ NotTheTray

WriteTimesOut(s) ==
  /\ At(s, "write")
  /\ LockTimesOut("check")
  /\ Fail(s, "done")
  /\ Publish(s, FALSE) /\ AskForTheCatalog
  /\ NotTheDocument /\ NotTheTray

Candidate(d, k) == Document(TRUE, k, "yes", d.primary)

MayWrite_Unasked_Bug(d) == TRUE

(* A key the overlay saved while the thread queued is the later decision. *)
MayWrite(d) == ~HasKey(d)

(* snapshot_and_write_inline_key_if_absent. *)
WriteEnd(s) ==
  LET d == draft["check"] IN
  /\ At(s, "writing")
  /\ IF MayWrite(d)
     THEN /\ EndEdit("check", Candidate(d, thread[s].key))
          /\ thread' = [thread EXCEPT ![s] = Thread("bust", @.key, @.asked, @.verdict, d)]
          /\ UNCHANGED <<fact, catalog>>
     ELSE /\ EndEdit("check", d)
          /\ Fail(s, "done")
          /\ Publish(s, FALSE) /\ AskForTheCatalog
  /\ Moved /\ NotTheTray

BustFails_Unrestored_Bug(s) == Fail(s, "finish")

BustFails(s) == Fail(s, "restore")

(* The verdict must not rest on what the cache held before. *)
Bust(s) ==
  /\ At(s, "bust")
  /\ MoveTo(s, "fetch") \/ BustFails(s)
  /\ NotTheDocument /\ UNCHANGED <<fact, catalog>> /\ NotTheTray

(***************************************************************************)
(* collect_filtered_json_from_wire loads the file again: the provider is   *)
(* asked with the key that is saved by then, if it is still on.            *)
(***************************************************************************)
Fetch(s) ==
  /\ At(s, "fetch")
  /\ IF IsOn(doc) /\ HasKey(doc)
     THEN thread' = [thread EXCEPT ![s] = Thread("answer", @.key, doc.key, @.verdict, @.before)]
     ELSE Fail(s, "restore")
  /\ NotTheDocument /\ UNCHANGED <<fact, catalog>> /\ NotTheTray

Answer(s) ==
  /\ At(s, "answer")
  /\ \/ thread[s].asked \in GoodKeys /\ Ends(s, "finish", "ok")
     \/ Fail(s, "restore")
  /\ NotTheDocument /\ UNCHANGED <<fact, catalog>> /\ NotTheTray

RestoreBegin(s) ==
  /\ At(s, "restore")
  /\ BeginEdit("check")
  /\ MoveTo(s, "restoring")
  /\ UNCHANGED <<doc, held, fact, catalog>> /\ NotTheTray

(* The verdict says that the new key stayed. *)
RestoreTimesOut(s) ==
  /\ At(s, "restore")
  /\ LockTimesOut("check")
  /\ Ends(s, "finish", "kept")
  /\ NotTheDocument /\ UNCHANGED <<fact, catalog>> /\ NotTheTray

(***************************************************************************)
(* restore_inline_key_snapshot: each field goes back while it still holds  *)
(* what the check wrote; an emptied section the check made goes too.       *)
(***************************************************************************)
PutBack(d, before, k) ==
  LET key == IF d.key = k THEN before.key ELSE d.key
      on == IF d.on = "yes" THEN before.on ELSE d.on
  IN  Document(before.section \/ key # "none" \/ on # "none", key, on, d.primary)

RestoreEnd(s) ==
  /\ At(s, "restoring")
  /\ EndEdit("check", PutBack(draft["check"], thread[s].before, thread[s].key))
  /\ MoveTo(s, "finish")
  /\ Moved
  /\ UNCHANGED <<fact, catalog>> /\ NotTheTray

(* The lock of the checks is dropped; the verdict is published after that. *)
Finish(s) ==
  /\ At(s, "finish")
  /\ Publish(s, thread[s].verdict = "ok")
  /\ AskForTheCatalog
  /\ MoveTo(s, "done")
  /\ NotTheDocument /\ NotTheTray

Check(s) ==
  \/ TakeTheLock(s) \/ WriteBegin(s) \/ WriteTimesOut(s) \/ WriteEnd(s) \/ Bust(s) \/ Fetch(s)
  \/ Answer(s) \/ RestoreBegin(s) \/ RestoreTimesOut(s) \/ RestoreEnd(s) \/ Finish(s)

-----------------------------------------------------------------------------
(* The settings overlay, and the other frontends. *)

(***************************************************************************)
(* SettingsState::from_config.  The vendor is offered as the primary when  *)
(* it is on or has a key; it is shown as the primary only when it is on.   *)
(***************************************************************************)
OpenSettings ==
  /\ ~overlay.open
  /\ overlay' = [open |-> TRUE,
                 primary |-> IF doc.primary = "this" /\ IsOn(doc) THEN "this" ELSE "other",
                 offers |-> IsOn(doc) \/ HasKey(doc)]
  /\ UNCHANGED <<doc, draft, thread, fact, sent, tray, catalog, reader, used, held>>

CloseSettings ==
  /\ overlay.open /\ ~Holds("tui")
  /\ overlay' = Closed
  /\ UNCHANGED <<doc, draft, thread, fact, sent, tray, catalog, reader, used, held>>

(* save_to_path; a save that cannot take the lock leaves the overlay open. *)
SaveBegin ==
  /\ overlay.open
  /\ Use
  /\ BeginEdit("tui")
  /\ UNCHANGED <<doc, thread, fact, sent, overlay, tray, catalog, reader, held>>

PickedPrimary(d, primary) ==
  IF primary = "this" THEN Document(TRUE, d.key, "yes", "this")
  ELSE [d EXCEPT !.primary = "other"]

(* update_key: a cleared field is removed, a pasted key turns the vendor on. *)
PastedKey(d, key) ==
  CASE key = "untouched" -> d
    [] key = "cleared" -> [d EXCEPT !.key = "none"]
    [] OTHER -> Candidate(d, key)

Toggled(d, to) == IF to = "untouched" THEN d ELSE Switched(d, to)

PrimaryPicks == IF overlay.offers THEN {"this", "other"} ELSE {"other"}

SaveEnd ==
  \E primary \in PrimaryPicks,
     key \in {"untouched", "cleared"} \cup UserKeys,
     to \in {"untouched", "yes", "no"} :
    /\ EndEdit("tui", Toggled(PastedKey(PickedPrimary(draft["tui"], primary), key), to))
    /\ overlay' = Closed
    /\ Moved
    /\ UNCHANGED <<thread, fact, sent, tray, catalog, reader, used>>

ElsewhereBegin ==
  /\ Use
  /\ BeginEdit("elsewhere")
  /\ UNCHANGED <<doc, thread, fact, sent, overlay, tray, catalog, reader, held>>

ElsewhereEnd(to) ==
  /\ EndEdit("elsewhere", Switched(draft["elsewhere"], to))
  /\ Moved
  /\ UNCHANGED <<thread, fact, sent, overlay, tray, catalog, reader, used>>

-----------------------------------------------------------------------------
(* refresh_due and publish, on the tray's worker. *)

NotTheRest == UNCHANGED <<doc, draft, thread, fact, sent, overlay, tray, used, held>>

TakeRequest ==
  /\ reader.pc = "idle" /\ catalog.due
  /\ catalog' = [catalog EXCEPT !.due = FALSE]
  /\ reader' = [pc |-> "read", rows |-> reader.rows, generation |-> catalog.generation]
  /\ NotTheRest

ReadCatalog ==
  /\ reader.pc = "read"
  /\ reader' = [pc |-> "publish", rows |-> RowsOf(doc), generation |-> reader.generation]
  /\ UNCHANGED catalog /\ NotTheRest

MayPublish_Always_Bug == TRUE

(* A switch that moved since the read started has asked for another one. *)
MayPublish == catalog.generation = reader.generation

PublishCatalog ==
  /\ reader.pc = "publish"
  /\ catalog' = [catalog EXCEPT !.rows = IF MayPublish THEN reader.rows ELSE @]
  /\ reader' = [reader EXCEPT !.pc = "idle"]
  /\ NotTheRest

-----------------------------------------------------------------------------
Worker == TakeRequest \/ ReadCatalog \/ PublishCatalog

KeyNext ==
  \/ \E k \in SentKeys : Send(k)
  \/ \E to \in {"yes", "no"} : SwitchBegin(to) \/ ElsewhereEnd(to)
  \/ SwitchWrite \/ SwitchRecord \/ SwitchRequest
  \/ \E s \in Sends : Check(s)
  \/ OpenSettings \/ CloseSettings \/ SaveBegin \/ SaveEnd
  \/ ElsewhereBegin
  \/ Worker

KeySpec == KeyInit /\ [][KeyNext]_keyVars

-----------------------------------------------------------------------------
(* Type correctness. *)
KeyTypeOK ==
  /\ doc \in Docs
  /\ draft \in [Writers -> Docs \cup {NoDraft}]
  /\ thread \in [Sends -> Threads]
  /\ fact \in [seq : 0 .. MaxSends, state : {"checking", "ok", "failed"}]
  /\ sent \in 0 .. MaxSends
  /\ overlay \in [open : BOOLEAN, primary : {"this", "other"}, offers : BOOLEAN]
  /\ tray \in [pc : {"idle", "write", "record", "request"}, to : {"yes", "no"}]
  /\ catalog \in [rows : Rows, generation : Nat, due : BOOLEAN]
  /\ reader \in [pc : {"idle", "read", "publish"}, rows : Rows, generation : Nat]
  /\ used \in 0 .. MaxOthers
  /\ held \in {"none", "yes", "no"}

(***************************************************************************)
(* A refused key does not stay in config.toml: one that does is being      *)
(* checked, was accepted, or the verdict said that it stayed.              *)
(***************************************************************************)
RefusedKeyIsNotKept ==
  doc.key \in SentKeys =>
    \E s \in Sends : /\ thread[s].key = doc.key
                     /\ Inside(s) \/ thread[s].verdict \in {"ok", "kept"}

(***************************************************************************)
(* A check never replaces a key that it did not write itself, not even one *)
(* that the overlay saved while the check queued or waited.                *)
(***************************************************************************)
UsersKeyIsKept ==
  [][\A s \in Sends : WriteEnd(s) \/ RestoreEnd(s) =>
       doc.key = doc'.key \/ ~HasKey(doc) \/ doc.key = thread[s].key]_keyVars

(***************************************************************************)
(* No writer undoes what another one saved between its read and its write: *)
(* a switch changes no key, a switch or a check no primary.                *)
(***************************************************************************)
NoSaveIsLost ==
  [][\A w \in Writers \ {"tui"} : Holds(w) /\ draft'[w] = NoDraft =>
       doc'.primary = doc.primary /\ (w # "check" => doc'.key = doc.key)]_keyVars

(***************************************************************************)
(* Nobody's save is undone by somebody else's: the two together.           *)
(***************************************************************************)
SavesOfOthersStay == UsersKeyIsKept /\ NoSaveIsLost

(***************************************************************************)
(* The popover's switch never jumps back: a catalog read before the click  *)
(* is not drawn after it.                                                  *)
(***************************************************************************)
SwitchIsNotPutBack ==
  held # "none" /\ tray.pc # "record" => catalog.rows.on = (held = "yes")

-----------------------------------------------------------------------------
(* What the comments say of it. *)

(***************************************************************************)
(* "A later decision on the same field (a key saved, the vendor switched   *)
(* off) belongs to the user now and survives": a key the overlay saved     *)
(* while the check waited stays in use.                                    *)
(***************************************************************************)
SavedKeyStaysOn ==
  [][\A s \in Sends : RestoreEnd(s) /\ doc.key \in UserKeys => IsOn(doc') = IsOn(doc)]_keyVars
=============================================================================
