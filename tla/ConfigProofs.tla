---------------------------- MODULE ConfigProofs ----------------------------
(***************************************************************************)
(* config.toml: what holds of those who write it and of the dashboard,     *)
(* which follows it.                                                       *)
(*                                                                         *)
(* KeyCheck, the writers, for any keys and any number of checks, saves and *)
(* switches.  The keys typed into the dialog are taken to differ from      *)
(* those typed into the overlay where a theorem says whose key it is: a    *)
(* key that was typed into both is in the file as the user's own.          *)
(*                                                                         *)
(* TuiApp, for any tab lists and any bounds: a tab shows what was fetched  *)
(* under the configuration in memory, its spinner is on while an answer is *)
(* due, and the context overlay shows its newest scan.                     *)
(***************************************************************************)
EXTENDS KeyCheck, TuiApp, TLAPS


-----------------------------------------------------------------------------
(* Types. *)

LEMMA DocumentFields ==
  /\ \A section, key, on, primary :
       LET d == Document(section, key, on, primary)
       IN  d.section = section /\ d.key = key /\ d.on = on /\ d.primary = primary
  /\ \A section \in BOOLEAN, key \in Keys \cup {"none", "empty"}, on \in {"none", "yes", "no"},
        primary \in {"none", "this", "other"} : Document(section, key, on, primary) \in Docs
BY DEF Document, Docs

LEMMA DocFields ==
  /\ \A d \in Docs : /\ d.section \in BOOLEAN /\ d.key \in Keys \cup {"none", "empty"}
                     /\ d.on \in {"none", "yes", "no"} /\ d.primary \in {"none", "this", "other"}
  /\ NoDraft \notin Docs
BY DEF Docs, NoDraft

(***************************************************************************)
(* What each edit makes of a document.                                     *)
(***************************************************************************)
LEMMA SwitchedDoes ==
  ASSUME NEW d \in Docs, NEW to \in {"yes", "no"}
  PROVE  /\ Switched(d, to) \in Docs /\ Switched(d, to).key = d.key
         /\ Switched(d, to).on = to /\ Switched(d, to).primary = d.primary
<1>1. d.key \in Keys \cup {"none", "empty"} /\ d.primary \in {"none", "this", "other"}
  BY DocFields
<1>2. Document(TRUE, d.key, to, d.primary) \in Docs
  BY <1>1, DocumentFields
<1>3. LET e == Document(TRUE, d.key, to, d.primary)
      IN  e.key = d.key /\ e.on = to /\ e.primary = d.primary
  BY DEF Document
<1> QED BY <1>2, <1>3 DEF Switched

LEMMA CandidateDoes ==
  ASSUME NEW d \in Docs, NEW k \in Keys
  PROVE  /\ Candidate(d, k) \in Docs /\ Candidate(d, k).key = k
         /\ Candidate(d, k).primary = d.primary
<1>1. k \in Keys \cup {"none", "empty"} /\ d.primary \in {"none", "this", "other"}
  BY DocFields
<1>2. Document(TRUE, k, "yes", d.primary) \in Docs
  BY <1>1, DocumentFields
<1>3. LET e == Document(TRUE, k, "yes", d.primary)
      IN  e.key = k /\ e.primary = d.primary
  BY DEF Document
<1> QED BY <1>2, <1>3 DEF Candidate

LEMMA PutBackDoes ==
  ASSUME NEW d \in Docs, NEW before \in Docs, NEW k
  PROVE  /\ PutBack(d, before, k) \in Docs /\ PutBack(d, before, k).primary = d.primary
         /\ PutBack(d, before, k).key = IF d.key = k THEN before.key ELSE d.key
<1> DEFINE key == IF d.key = k THEN before.key ELSE d.key
           on == IF d.on = "yes" THEN before.on ELSE d.on
           section == before.section \/ key # "none" \/ on # "none"
<1>1. key \in Keys \cup {"none", "empty"} /\ on \in {"none", "yes", "no"} /\ section \in BOOLEAN
      /\ d.primary \in {"none", "this", "other"}
  BY DocFields
<1>2. PutBack(d, before, k) = Document(section, key, on, d.primary)
  BY DEF PutBack
<1> HIDE DEF key, on, section
<1>3. PutBack(d, before, k) \in Docs /\ PutBack(d, before, k).key = key
      /\ PutBack(d, before, k).primary = d.primary
  BY <1>1, <1>2, DocumentFields
<1> QED BY <1>3 DEF key

LEMMA SavedDoes ==
  ASSUME NEW d \in Docs, NEW primary \in {"this", "other"},
         NEW key \in {"untouched", "cleared"} \cup UserKeys, NEW to \in {"untouched", "yes", "no"}
  PROVE  LET saved == Toggled(PastedKey(PickedPrimary(d, primary), key), to)
         IN  saved \in Docs /\ saved.key \in {d.key, "none"} \cup UserKeys
<1>1. PICK p : p = PickedPrimary(d, primary)
  OBVIOUS
<1>2. p \in Docs /\ p.key = d.key
  <2>1. CASE primary = "this"
    <3>1. d.key \in Keys \cup {"none", "empty"}
      BY DocFields
    <3>2. Document(TRUE, d.key, "yes", "this") \in Docs
      BY <3>1, DocumentFields
    <3>3. Document(TRUE, d.key, "yes", "this").key = d.key
      BY DEF Document
    <3> QED BY <1>1, <2>1, <3>2, <3>3 DEF PickedPrimary
  <2>2. CASE primary # "this"
    <3>1. p = [d EXCEPT !.primary = "other"]
      BY <1>1, <2>2 DEF PickedPrimary
    <3> QED BY <3>1 DEF Docs
  <2> QED BY <2>1, <2>2
<1>3. PICK q : q = PastedKey(p, key)
  OBVIOUS
<1>4. q \in Docs /\ q.key \in {d.key, "none"} \cup UserKeys
  <2>1. CASE key = "untouched"
    BY <1>2, <1>3, <2>1 DEF PastedKey
  <2>2. CASE key = "cleared"
    <3>1. q = [p EXCEPT !.key = "none"]
      BY <1>3, <2>2 DEF PastedKey
    <3> QED BY <1>2, <3>1 DEF Docs
  <2>3. CASE key \notin {"untouched", "cleared"}
    <3>1. q = Candidate(p, key) /\ key \in Keys /\ key \in UserKeys
      BY <1>3, <2>3 DEF PastedKey, Keys
    <3> QED BY <1>2, <3>1, CandidateDoes
  <2> QED BY <2>1, <2>2, <2>3
<1>5. CASE to = "untouched"
  BY <1>1, <1>3, <1>4, <1>5 DEF Toggled
<1>6. CASE to # "untouched"
  BY <1>1, <1>3, <1>4, <1>6, SwitchedDoes DEF Toggled
<1> QED BY <1>5, <1>6

LEMMA RowsOfType ==
  ASSUME NEW d \in Docs
  PROVE  IsOn(d) \in BOOLEAN /\ RowsOf(d) \in Rows /\ RowsOf(d).on = IsOn(d)
BY KeyAssumption, DocFields DEF IsOn, RowsOf, Rows, HasKey

(***************************************************************************)
(* The moves of a check's thread.                                          *)
(***************************************************************************)
LEMMA ThreadFields ==
  /\ \A label, key, asked, verdict, before :
       LET t == Thread(label, key, asked, verdict, before)
       IN  /\ t.pc = label /\ t.key = key /\ t.asked = asked
           /\ t.verdict = verdict /\ t.before = before
  /\ \A label \in Labels, key \in SentKeys \cup {"none"}, asked \in Keys \cup {"none"},
        verdict \in {"none", "ok", "failed", "kept"}, before \in Docs \cup {NoDraft} :
       Thread(label, key, asked, verdict, before) \in Threads
  /\ \A t \in Threads :
       /\ t.pc \in Labels /\ t.key \in SentKeys \cup {"none"} /\ t.asked \in Keys \cup {"none"}
       /\ t.verdict \in {"none", "ok", "failed", "kept"} /\ t.before \in Docs \cup {NoDraft}
BY DEF Thread, Threads

OnlyThread(s) == thread' \in [Sends -> Threads] /\ \A t \in Sends \ {s} : thread'[t] = thread[t]

LEMMA SetThread ==
  ASSUME thread \in [Sends -> Threads], NEW s \in Sends, NEW t \in Threads,
         thread' = [thread EXCEPT ![s] = t]
  PROVE  OnlyThread(s) /\ thread'[s] = t
BY DEF OnlyThread

LEMMA MoveToDoes ==
  ASSUME thread \in [Sends -> Threads], NEW s \in Sends, NEW label \in Labels, MoveTo(s, label)
  PROVE  /\ OnlyThread(s)
         /\ thread'[s].pc = label /\ thread'[s].key = thread[s].key
         /\ thread'[s].verdict = thread[s].verdict /\ thread'[s].before = thread[s].before
<1>1. PICK t : t = thread[s]
  OBVIOUS
<1>2. t \in Threads /\ thread' = [thread EXCEPT ![s] = [t EXCEPT !.pc = label]]
  BY <1>1 DEF MoveTo
<1>3. PICK u : u = [t EXCEPT !.pc = label]
  OBVIOUS
<1>4. u \in Threads /\ u.pc = label /\ u.key = t.key /\ u.verdict = t.verdict /\ u.before = t.before
  BY <1>2, <1>3 DEF Threads
<1>5. OnlyThread(s) /\ thread'[s] = u
  BY <1>2, <1>3, <1>4, SetThread
<1> QED BY <1>1, <1>4, <1>5

LEMMA EndsDoes ==
  ASSUME thread \in [Sends -> Threads], NEW s \in Sends, NEW label \in Labels,
         NEW verdict \in {"none", "ok", "failed", "kept"}, Ends(s, label, verdict)
  PROVE  /\ OnlyThread(s)
         /\ thread'[s].pc = label /\ thread'[s].key = thread[s].key
         /\ thread'[s].verdict = verdict /\ thread'[s].before = thread[s].before
<1>1. PICK t : t = thread[s]
  OBVIOUS
<1>2. PICK u : u = Thread(label, t.key, t.asked, verdict, t.before)
  OBVIOUS
<1>3. thread' = [thread EXCEPT ![s] = u] /\ t \in Threads
  BY <1>1, <1>2 DEF Ends
<1>4. u \in Threads /\ u.pc = label /\ u.key = t.key /\ u.verdict = verdict /\ u.before = t.before
  <2>1. /\ t.key \in SentKeys \cup {"none"} /\ t.asked \in Keys \cup {"none"}
        /\ t.before \in Docs \cup {NoDraft}
    BY <1>3, ThreadFields
  <2>2. u \in Threads
    BY <1>2, <2>1, ThreadFields
  <2> QED BY <1>2, <2>2 DEF Thread
<1>5. OnlyThread(s) /\ thread'[s] = u
  BY <1>3, <1>4, SetThread
<1> QED BY <1>1, <1>4, <1>5

-----------------------------------------------------------------------------
(* The steps of a check. *)

(***************************************************************************)
(* While a check tries its key, and while it holds the document.           *)
(***************************************************************************)
Tried == {"bust", "fetch", "answer", "restore", "restoring"}
Edits == {"writing", "restoring"}

ThreadOk(s) ==
  /\ thread[s].pc = "none" <=> thread[s].key = "none"
  /\ thread[s].verdict \in {"ok", "kept"} => thread[s].pc \in {"finish", "done"}
  /\ thread[s].pc \in Tried => thread[s].before \in Docs /\ thread[s].before.key \notin Keys

TypeInv == KeyTypeOK /\ \A s \in Sends : ThreadOk(s)

(***************************************************************************)
(* The key of the send may be in the file: it is being tried, it was       *)
(* accepted, or the verdict says that it stayed.                           *)
(***************************************************************************)
Vouched(s) == thread[s].pc \in Tried \/ thread[s].verdict \in {"ok", "kept"}

(***************************************************************************)
(* A step of a check leaves the document alone, takes the lock file, or    *)
(* writes and gives it back.                                               *)
(***************************************************************************)
Quietly(s) ==
  /\ thread[s].pc \notin Edits /\ thread'[s].pc \notin Edits
  /\ UNCHANGED <<doc, draft, held>>
  /\ Vouched(s) => Vouched(s)'

Opens(s) ==
  /\ thread[s].pc \notin Edits /\ thread'[s].pc \in Edits
  /\ BeginEdit("check") /\ UNCHANGED <<doc, held>>
  /\ Vouched(s) => Vouched(s)'

Closes(s) ==
  /\ thread[s].pc \in Edits /\ thread'[s].pc \notin Edits
  /\ EndEdit("check", doc') /\ Moved
  /\ doc' \in Docs /\ doc'.primary = draft["check"].primary
  /\ doc'.key \in Keys =>
       \/ /\ doc'.key = draft["check"].key
          /\ doc'.key = thread[s].key /\ Vouched(s) => Vouched(s)'
       \/ /\ doc'.key = thread[s].key /\ Vouched(s)'
          /\ draft["check"].key \notin Keys
  /\ doc'.key \notin Keys =>
       \/ draft["check"].key \notin Keys
       \/ draft["check"].key = thread[s].key

(***************************************************************************)
(* What a step of a check leaves of the tray's side.                       *)
(***************************************************************************)
Facts == [seq : 0 .. MaxSends, state : {"checking", "ok", "failed"}]
Catalogs == [rows : Rows, generation : Nat, due : BOOLEAN]

Around ==
  /\ UNCHANGED <<sent, overlay, tray, reader, used>>
  /\ fact' \in Facts /\ catalog' \in Catalogs
  /\ catalog'.rows = catalog.rows /\ catalog'.generation = catalog.generation

LEMMA PublishType ==
  ASSUME KeyTypeOK, NEW s \in Sends, NEW ok, Publish(s, ok)
  PROVE  fact' \in Facts
BY DEF KeyTypeOK, Publish, Facts

LEMMA DueDoes ==
  ASSUME KeyTypeOK, NEW due \in BOOLEAN, catalog' = [catalog EXCEPT !.due = due]
  PROVE  catalog' \in Catalogs /\ catalog'.rows = catalog.rows
         /\ catalog'.generation = catalog.generation
<1>1. PICK c \in Catalogs : c = catalog
  BY DEF KeyTypeOK, Catalogs
<1>2. PICK d : d = [c EXCEPT !.due = due]
  OBVIOUS
<1>3. d \in Catalogs /\ d.rows = c.rows /\ d.generation = c.generation
  BY <1>2 DEF Catalogs
<1> QED BY <1>1, <1>2, <1>3

LEMMA AroundQuiet ==
  ASSUME KeyTypeOK, NotTheTray, UNCHANGED <<fact, catalog>>
  PROVE  Around
BY DEF KeyTypeOK, NotTheTray, Around, Facts, Catalogs

LEMMA AroundVerdict ==
  ASSUME KeyTypeOK, NotTheTray, NEW s \in Sends, NEW ok, Publish(s, ok), AskForTheCatalog
  PROVE  Around
BY PublishType, DueDoes DEF NotTheTray, Around, AskForTheCatalog

LEMMA CheckMoves ==
  ASSUME TypeInv, NEW s \in Sends, Check(s)
  PROVE  /\ OnlyThread(s) /\ thread'[s].key = thread[s].key /\ ThreadOk(s)'
         /\ thread[s].pc \notin {"none", "done"} /\ thread'[s].pc # "none"
         /\ Inside(s)' => Inside(s) \/ \A other \in Sends : ~Inside(other)
         /\ Around
         /\ Quietly(s) \/ Opens(s) \/ Closes(s)
<1>1. /\ KeyTypeOK /\ thread \in [Sends -> Threads] /\ ThreadOk(s)
      /\ thread[s].pc \in Labels /\ thread[s].key \in SentKeys \cup {"none"}
      /\ "none" \notin Keys /\ SentKeys \subseteq Keys
  BY ThreadFields, KeyAssumption DEF TypeInv, KeyTypeOK, Keys
<1>2. CASE TakeTheLock(s)
  <2>1. PICK label \in {"write", "done"} : MoveTo(s, label)
    BY <1>2 DEF TakeTheLock
  <2>2. Around
    BY <1>1, <1>2, AroundQuiet DEF TakeTheLock
  <2> QED BY <1>1, <1>2, <2>1, <2>2, MoveToDoes
          DEF TakeTheLock, At, Labels, ThreadOk, Tried, Edits, Inside, Quietly, Vouched,
              NotTheDocument
<1>3. CASE WriteBegin(s)
  <2>1. Around
    BY <1>1, <1>3, AroundQuiet DEF WriteBegin
  <2> QED BY <1>1, <1>3, <2>1, MoveToDoes
          DEF WriteBegin, At, Labels, ThreadOk, Tried, Edits, Inside, Opens, Vouched
<1>4. CASE WriteTimesOut(s)
  <2>1. Around
    BY <1>1, <1>4, AroundVerdict DEF WriteTimesOut
  <2> QED BY <1>1, <1>4, <2>1, EndsDoes
          DEF WriteTimesOut, Fail, At, Labels, ThreadOk, Tried, Edits, Inside, Quietly, Vouched,
              NotTheDocument
<1>5. CASE WriteEnd(s)
  <2>1. PICK d \in Docs : d = draft["check"]
    BY <1>1, <1>5 DEF WriteEnd, EndEdit, Holds, KeyTypeOK, Writers
  <2>2. thread[s].pc = "writing" /\ thread[s].key \in Keys /\ Moved /\ NotTheTray
    BY <1>1, <1>5 DEF WriteEnd, At, ThreadOk
  <2>3. CASE MayWrite(d)
    <3>1. /\ EndEdit("check", Candidate(d, thread[s].key)) /\ UNCHANGED <<fact, catalog>>
          /\ thread' = [thread EXCEPT ![s] = Thread("bust", @.key, @.asked, @.verdict, d)]
      BY <1>5, <2>1, <2>3 DEF WriteEnd
    <3>2. PICK t, u : t = thread[s] /\ u = Thread("bust", t.key, t.asked, t.verdict, d)
      OBVIOUS
    <3>3. /\ t \in Threads /\ t.key \in SentKeys \cup {"none"} /\ t.asked \in Keys \cup {"none"}
          /\ t.verdict \in {"none", "ok", "failed", "kept"}
      BY <1>1, <3>2, ThreadFields
    <3>4. "bust" \in Labels
      BY DEF Labels
    <3>5. u \in Threads /\ u.pc = "bust" /\ u.key = t.key /\ u.verdict = t.verdict /\ u.before = d
      <4>1. u \in Threads
        BY <2>1, <3>2, <3>3, <3>4, ThreadFields
      <4> QED BY <3>2, <4>1 DEF Thread
    <3>6. OnlyThread(s) /\ thread'[s] = u
      BY <1>1, <3>1, <3>2, <3>5, SetThread
    <3>7. doc' = Candidate(d, thread[s].key) /\ doc' \in Docs /\ doc'.key = thread[s].key
          /\ doc'.primary = d.primary /\ EndEdit("check", doc')
      BY <2>2, <3>1, CandidateDoes DEF EndEdit
    <3>8. Around
      BY <1>1, <2>2, <3>1, AroundQuiet
    <3>9. d.key \notin Keys
      BY <2>3 DEF MayWrite, HasKey
    <3>10. Closes(s)
      BY <2>1, <2>2, <3>2, <3>5, <3>6, <3>7, <3>9 DEF Closes, Edits, Vouched, Tried
    <3>11. ThreadOk(s)'
      BY <1>1, <2>1, <2>2, <3>2, <3>5, <3>6, <3>9 DEF ThreadOk
    <3> QED BY <2>2, <3>2, <3>5, <3>6, <3>8, <3>10, <3>11 DEF Inside
  <2>4. CASE ~MayWrite(d)
    <3>1. EndEdit("check", d) /\ Fail(s, "done") /\ Publish(s, FALSE) /\ AskForTheCatalog
      BY <1>5, <2>1, <2>4 DEF WriteEnd
    <3>2. /\ OnlyThread(s) /\ thread'[s].pc = "done" /\ thread'[s].key = thread[s].key
          /\ thread'[s].verdict = "failed"
      BY <1>1, <3>1, EndsDoes DEF Fail, Labels
    <3>3. Around
      BY <1>1, <2>2, <3>1, AroundVerdict
    <3>4. doc' = d /\ EndEdit("check", doc')
      BY <3>1 DEF EndEdit
    <3>5. ~Vouched(s)
      BY <1>1, <2>2 DEF Vouched, Tried, ThreadOk
    <3>6. Closes(s)
      BY <2>1, <2>2, <3>2, <3>4, <3>5 DEF Closes, Edits
    <3> QED BY <1>1, <2>2, <3>2, <3>3, <3>6 DEF ThreadOk, Tried, Inside
  <2> QED BY <2>3, <2>4
<1>6. CASE Bust(s)
  <2>1. Around
    BY <1>1, <1>6, AroundQuiet DEF Bust
  <2>2. MoveTo(s, "fetch") \/ Ends(s, "restore", "failed")
    BY <1>6 DEF Bust, BustFails, Fail
  <2>3. CASE MoveTo(s, "fetch")
    BY <1>1, <1>6, <2>1, <2>3, MoveToDoes
       DEF Bust, At, Labels, ThreadOk, Tried, Edits, Inside, Quietly, Vouched, NotTheDocument
  <2>4. CASE Ends(s, "restore", "failed")
    BY <1>1, <1>6, <2>1, <2>4, EndsDoes
       DEF Bust, At, Labels, ThreadOk, Tried, Edits, Inside, Quietly, Vouched, NotTheDocument
  <2> QED BY <2>2, <2>3, <2>4
<1>7. CASE Fetch(s)
  <2>1. Around /\ thread[s].pc = "fetch" /\ UNCHANGED <<doc, draft, held>>
    BY <1>1, <1>7, AroundQuiet DEF Fetch, At, NotTheDocument
  <2>2. CASE /\ HasKey(doc)
             /\ thread' = [thread EXCEPT ![s] =
                  Thread("answer", @.key, doc.key, @.verdict, @.before)]
    <3>1. PICK t, u : t = thread[s] /\ u = Thread("answer", t.key, doc.key, t.verdict, t.before)
      OBVIOUS
    <3>2. /\ t \in Threads /\ t.key \in SentKeys \cup {"none"} /\ doc.key \in Keys \cup {"none"}
          /\ t.verdict \in {"none", "ok", "failed", "kept"} /\ t.before \in Docs \cup {NoDraft}
      BY <1>1, <2>2, <3>1, ThreadFields DEF HasKey
    <3>3. "answer" \in Labels
      BY DEF Labels
    <3>4. /\ u \in Threads /\ u.pc = "answer" /\ u.key = t.key /\ u.verdict = t.verdict
          /\ u.before = t.before
      <4>1. u \in Threads
        BY <3>1, <3>2, <3>3, ThreadFields
      <4> QED BY <3>1, <4>1 DEF Thread
    <3>5. OnlyThread(s) /\ thread'[s] = u
      BY <1>1, <2>2, <3>1, <3>4, SetThread
    <3> QED BY <1>1, <2>1, <3>1, <3>4, <3>5 DEF ThreadOk, Tried, Edits, Inside, Quietly, Vouched
  <2>3. CASE Ends(s, "restore", "failed")
    BY <1>1, <2>1, <2>3, EndsDoes DEF Labels, ThreadOk, Tried, Edits, Inside, Quietly, Vouched
  <2> QED BY <1>7, <2>2, <2>3 DEF Fetch, Fail
<1>8. CASE Answer(s)
  <2>1. Around
    BY <1>1, <1>8, AroundQuiet DEF Answer
  <2>2. CASE Ends(s, "finish", "ok")
    BY <1>1, <1>8, <2>1, <2>2, EndsDoes
       DEF Answer, At, Labels, ThreadOk, Tried, Edits, Inside, Quietly, Vouched, NotTheDocument
  <2>3. CASE Ends(s, "restore", "failed")
    BY <1>1, <1>8, <2>1, <2>3, EndsDoes
       DEF Answer, At, Labels, ThreadOk, Tried, Edits, Inside, Quietly, Vouched, NotTheDocument
  <2> QED BY <1>8, <2>2, <2>3 DEF Answer, Fail
<1>9. CASE RestoreBegin(s)
  <2>1. Around
    BY <1>1, <1>9, AroundQuiet DEF RestoreBegin
  <2> QED BY <1>1, <1>9, <2>1, MoveToDoes
          DEF RestoreBegin, At, Labels, ThreadOk, Tried, Edits, Inside, Opens, Vouched
<1>10. CASE RestoreTimesOut(s)
  <2>1. Around
    BY <1>1, <1>10, AroundQuiet DEF RestoreTimesOut
  <2> QED BY <1>1, <1>10, <2>1, EndsDoes
          DEF RestoreTimesOut, At, Labels, ThreadOk, Tried, Edits, Inside, Quietly, Vouched,
              NotTheDocument
<1>11. CASE RestoreEnd(s)
  <2>1. Around /\ thread[s].pc = "restoring" /\ Moved
    BY <1>1, <1>11, AroundQuiet DEF RestoreEnd, At
  <2>2. PICK d \in Docs : d = draft["check"]
    BY <1>1, <1>11 DEF RestoreEnd, EndEdit, Holds, KeyTypeOK, Writers
  <2>3. PICK b \in Docs : b = thread[s].before /\ b.key \notin Keys
    BY <1>1, <2>1 DEF ThreadOk, Tried
  <2>4. EndEdit("check", PutBack(d, b, thread[s].key))
    BY <1>11, <2>2, <2>3 DEF RestoreEnd
  <2>5. /\ doc' \in Docs /\ doc'.primary = d.primary
        /\ doc'.key = IF d.key = thread[s].key THEN b.key ELSE d.key
        /\ EndEdit("check", doc')
    BY <2>4, PutBackDoes DEF EndEdit
  <2>6. /\ OnlyThread(s) /\ thread'[s].pc = "finish" /\ thread'[s].key = thread[s].key
        /\ thread'[s].verdict = thread[s].verdict
    BY <1>1, <1>11, MoveToDoes DEF RestoreEnd, Labels
  <2>7. Closes(s)
    BY <2>1, <2>2, <2>3, <2>5, <2>6 DEF Closes, Edits
  <2> QED BY <1>1, <2>1, <2>6, <2>7 DEF ThreadOk, Tried, Inside
<1>12. CASE Finish(s)
  <2>1. Around
    BY <1>1, <1>12, AroundVerdict DEF Finish
  <2> QED BY <1>1, <1>12, <2>1, MoveToDoes
          DEF Finish, At, Labels, ThreadOk, Tried, Edits, Inside, Quietly, Vouched, NotTheDocument
<1> QED BY <1>2, <1>3, <1>4, <1>5, <1>6, <1>7, <1>8, <1>9, <1>10, <1>11, <1>12 DEF Check

-----------------------------------------------------------------------------
(* Types, of every step. *)

LEMMA BeginDoes ==
  ASSUME KeyTypeOK, NEW w \in Writers, BeginEdit(w)
  PROVE  /\ draft' \in [Writers -> Docs \cup {NoDraft}] /\ draft'[w] = doc
         /\ \A v \in Writers \ {w} : draft'[v] = draft[v]
         /\ doc # NoDraft
BY DocFields DEF KeyTypeOK, BeginEdit

LEMMA EndDoes ==
  ASSUME KeyTypeOK, NEW w \in Writers, NEW d \in Docs, EndEdit(w, d)
  PROVE  /\ draft' \in [Writers -> Docs \cup {NoDraft}] /\ draft'[w] = NoDraft
         /\ \A v \in Writers \ {w} : draft'[v] = draft[v]
         /\ doc' = d /\ Holds(w)
BY DEF KeyTypeOK, EndEdit

LEMMA DraftType ==
  ASSUME KeyTypeOK, NEW w \in Writers, Holds(w)
  PROVE  draft[w] \in Docs
BY DEF KeyTypeOK, Holds

LEMMA TrayFields ==
  ASSUME KeyTypeOK, NEW label \in {"idle", "write", "record", "request"},
         tray' = [tray EXCEPT !.pc = label]
  PROVE  /\ tray' \in [pc : {"idle", "write", "record", "request"}, to : {"yes", "no"}]
         /\ tray'.pc = label /\ tray'.to = tray.to /\ tray.to \in {"yes", "no"}
BY DEF KeyTypeOK

(***************************************************************************)
(* A save from the overlay.                                                *)
(***************************************************************************)
LEMMA SaveDoes ==
  ASSUME KeyTypeOK, SaveEnd
  PROVE  /\ doc' \in Docs /\ EndEdit("tui", doc') /\ Moved
         /\ doc'.key \in {draft["tui"].key, "none"} \cup UserKeys
         /\ overlay' = Closed
         /\ UNCHANGED <<thread, fact, sent, tray, catalog, reader, used>>
<1>1. PICK primary \in {"this", "other"}, key \in {"untouched", "cleared"} \cup UserKeys,
           to \in {"untouched", "yes", "no"} :
        /\ EndEdit("tui", Toggled(PastedKey(PickedPrimary(draft["tui"], primary), key), to))
        /\ overlay' = Closed /\ Moved
        /\ UNCHANGED <<thread, fact, sent, tray, catalog, reader, used>>
  BY DEF SaveEnd, PrimaryPicks
<1>2. PICK d : d = draft["tui"]
  OBVIOUS
<1>3. d \in Docs
  BY <1>1, <1>2, DraftType DEF EndEdit, Writers
<1>4. PICK e : e = Toggled(PastedKey(PickedPrimary(d, primary), key), to)
  OBVIOUS
<1>5. e \in Docs /\ e.key \in {d.key, "none"} \cup UserKeys
  BY <1>3, <1>4, SavedDoes
<1>6. EndEdit("tui", e) /\ doc' = e
  BY <1>1, <1>2, <1>4 DEF EndEdit
<1> QED BY <1>1, <1>2, <1>5, <1>6

(***************************************************************************)
(* A switch, of the tray or from elsewhere.                                *)
(***************************************************************************)
LEMMA SwitchDoes ==
  ASSUME KeyTypeOK, NEW w \in {"tray", "elsewhere"}, NEW to \in {"yes", "no"},
         EndEdit(w, Switched(draft[w], to))
  PROVE  /\ doc' \in Docs /\ EndEdit(w, doc') /\ doc'.on = to
         /\ doc'.key = draft[w].key /\ doc'.primary = draft[w].primary
<1>1. draft[w] \in Docs
  BY DraftType DEF EndEdit, Writers
<1>2. PICK d \in Docs : d = draft[w]
  BY <1>1
<1>3. doc' = Switched(d, to) /\ EndEdit(w, doc')
  BY <1>2 DEF EndEdit
<1> QED BY <1>2, <1>3, SwitchedDoes

LEMMA TypeInit == KeyInit => TypeInv
<1> SUFFICES ASSUME KeyInit PROVE TypeInv
  OBVIOUS
<1>1. doc \in Docs
  BY DEF KeyInit
<1>2. NoThread \in Threads /\ NoThread.pc = "none" /\ NoThread.key = "none"
      /\ NoThread.verdict = "none"
  BY DEF NoThread, Thread, Threads, Labels
<1>3. /\ draft = [w \in Writers |-> NoDraft] /\ thread = [s \in Sends |-> NoThread]
      /\ fact = [seq |-> 0, state |-> "checking"] /\ sent = 0 /\ overlay = Closed
      /\ tray = [pc |-> "idle", to |-> "no"] /\ used = 0 /\ held = "none"
  BY DEF KeyInit
<1>4. RowsOf(doc) \in Rows
  BY <1>1, RowsOfType
<1>5. /\ catalog \in [rows : Rows, generation : Nat, due : BOOLEAN]
      /\ reader \in [pc : {"idle", "read", "publish"}, rows : Rows, generation : Nat]
  <2>1. PICK r \in Rows : r = RowsOf(doc)
    BY <1>4
  <2> QED BY <2>1 DEF KeyInit
<1>6. KeyTypeOK
  <2>1. thread \in [Sends -> Threads] /\ draft \in [Writers -> Docs \cup {NoDraft}]
    BY <1>2, <1>3
  <2>2. /\ fact \in [seq : 0 .. MaxSends, state : {"checking", "ok", "failed"}]
        /\ sent \in 0 .. MaxSends /\ used \in 0 .. MaxOthers
    BY <1>3, KeyAssumption
  <2>3. overlay \in [open : BOOLEAN, primary : {"this", "other"}, offers : BOOLEAN]
    BY <1>3 DEF Closed
  <2>4. tray \in [pc : {"idle", "write", "record", "request"}, to : {"yes", "no"}]
    BY <1>3
  <2> QED BY <1>1, <1>3, <1>5, <2>1, <2>2, <2>3, <2>4 DEF KeyTypeOK
<1>7. \A s \in Sends : ThreadOk(s)
  BY <1>2, <1>3 DEF ThreadOk, Tried
<1> QED BY <1>6, <1>7 DEF TypeInv

(***************************************************************************)
(* A send starts a thread of its own.                                      *)
(***************************************************************************)
LEMMA SendDoes ==
  ASSUME KeyTypeOK, NEW k \in SentKeys, Send(k)
  PROVE  /\ fact' \in Facts
         /\ \E s \in Sends :
              /\ s = sent + 1 /\ sent' = s /\ OnlyThread(s) /\ ThreadOk(s)'
              /\ thread'[s].pc \in {"queued", "done"}
<1>1. PICK s \in Sends : s = sent + 1 /\ sent' = s
  BY DEF Send
<1>2. k # "none" /\ k \in SentKeys \cup {"none"}
  BY KeyAssumption
<1>3. s \in 0 .. MaxSends
  BY KeyAssumption DEF Sends
<1>4. PICK t : t = IF HasKey(doc) THEN Thread("done", k, "none", "failed", NoDraft)
                   ELSE Thread("queued", k, "none", "none", NoDraft)
  OBVIOUS
<1>5. t \in Threads /\ t.key = k /\ t.pc \in {"queued", "done"} /\ t.verdict \in {"none", "failed"}
  <2>1. CASE HasKey(doc)
    BY <1>2, <1>4, <2>1 DEF Thread, Threads, Labels
  <2>2. CASE ~HasKey(doc)
    BY <1>2, <1>4, <2>2 DEF Thread, Threads, Labels
  <2> QED BY <2>1, <2>2
<1>6. OnlyThread(s) /\ thread'[s] = t
  <2>1. thread' = [thread EXCEPT ![s] = t]
    BY <1>1, <1>4 DEF Send
  <2> QED BY <1>5, <2>1, SetThread DEF KeyTypeOK
<1>7. fact' \in Facts
  BY <1>1, <1>3 DEF Send, Facts
<1>8. ThreadOk(s)'
  BY <1>2, <1>5, <1>6 DEF ThreadOk, Tried
<1> QED BY <1>1, <1>5, <1>6, <1>7, <1>8

LEMMA TypeStep == TypeInv /\ [KeyNext]_keyVars => TypeInv'
<1> SUFFICES ASSUME TypeInv, [KeyNext]_keyVars PROVE TypeInv'
  OBVIOUS
<1>0. KeyTypeOK /\ \A s \in Sends : ThreadOk(s)
  BY DEF TypeInv
<1>1. ASSUME UNCHANGED thread PROVE \A s \in Sends : ThreadOk(s)'
  BY <1>0, <1>1 DEF ThreadOk
<1>2. ASSUME NEW s \in Sends, OnlyThread(s), ThreadOk(s)' PROVE \A t \in Sends : ThreadOk(t)'
  BY <1>0, <1>2 DEF ThreadOk, OnlyThread
<1>3. ASSUME NEW k \in SentKeys, Send(k) PROVE TypeInv'
  <2>1. PICK s \in Sends : sent' = s /\ OnlyThread(s) /\ ThreadOk(s)'
    BY <1>0, <1>3, SendDoes
  <2>2. sent' \in 0 .. MaxSends
    BY <2>1, KeyAssumption DEF Sends
  <2>3. OnlyThread(s) /\ ThreadOk(s)'
    BY <2>1
  <2>4. \A t \in Sends : ThreadOk(t)'
    BY <1>2, <2>3
  <2>5. KeyTypeOK'
    <3>1. fact' \in Facts /\ UNCHANGED <<doc, draft, overlay, tray, catalog, reader, used, held>>
      BY <1>0, <1>3, SendDoes DEF Send
    <3> QED BY <1>0, <2>2, <2>3, <3>1 DEF KeyTypeOK, OnlyThread, Facts
  <2> QED BY <2>4, <2>5 DEF TypeInv
<1>4. ASSUME NEW s \in Sends, Check(s) PROVE TypeInv'
  <2>1. OnlyThread(s) /\ ThreadOk(s)' /\ Around /\ (Quietly(s) \/ Opens(s) \/ Closes(s))
    BY <1>4, CheckMoves
  <2>2. /\ doc' \in Docs /\ draft' \in [Writers -> Docs \cup {NoDraft}]
        /\ held' \in {"none", "yes", "no"}
    <3>1. CASE Quietly(s)
      BY <1>0, <3>1 DEF Quietly, KeyTypeOK
    <3>2. CASE Opens(s)
      BY <1>0, <3>2, BeginDoes DEF Opens, KeyTypeOK, Writers
    <3>3. CASE Closes(s)
      BY <1>0, <3>3, EndDoes DEF Closes, Moved, KeyTypeOK, Writers
    <3> QED BY <2>1, <3>1, <3>2, <3>3
  <2>3. KeyTypeOK'
    BY <1>0, <2>1, <2>2 DEF KeyTypeOK, OnlyThread, Around, Facts, Catalogs
  <2>4. \A t \in Sends : ThreadOk(t)'
    BY <1>2, <2>1
  <2> QED BY <2>3, <2>4 DEF TypeInv
<1>5. ASSUME NEW to \in {"yes", "no"}, SwitchBegin(to) PROVE TypeInv'
  <2>1. draft' \in [Writers -> Docs \cup {NoDraft}]
    BY <1>0, <1>5, BeginDoes DEF SwitchBegin, Writers, KeyTypeOK
  <2>2. used' \in 0 .. MaxOthers
    BY <1>0, <1>5, KeyAssumption DEF SwitchBegin, Use, KeyTypeOK
  <2>3. tray' \in [pc : {"idle", "write", "record", "request"}, to : {"yes", "no"}]
    BY <1>5 DEF SwitchBegin
  <2> QED BY <1>0, <1>1, <1>5, <2>1, <2>2, <2>3 DEF SwitchBegin, KeyTypeOK, TypeInv
<1>6. CASE SwitchWrite
  <2>1. tray.to \in {"yes", "no"}
    BY <1>0 DEF KeyTypeOK
  <2>2. doc' \in Docs /\ EndEdit("tray", doc')
    BY <1>0, <1>6, <2>1, SwitchDoes DEF SwitchWrite
  <2>3. draft' \in [Writers -> Docs \cup {NoDraft}]
    BY <1>0, <2>2, EndDoes DEF Writers
  <2>4. tray' \in [pc : {"idle", "write", "record", "request"}, to : {"yes", "no"}]
    BY <1>0, <1>6, TrayFields DEF SwitchWrite
  <2> QED BY <1>0, <1>1, <1>6, <2>1, <2>2, <2>3, <2>4 DEF SwitchWrite, KeyTypeOK, TypeInv
<1>7. CASE SwitchRecord
  <2>1. tray' \in [pc : {"idle", "write", "record", "request"}, to : {"yes", "no"}]
    BY <1>0, <1>7, TrayFields DEF SwitchRecord
  <2>2. catalog' \in [rows : Rows, generation : Nat, due : BOOLEAN]
    BY <1>0, <1>7 DEF SwitchRecord, KeyTypeOK, Rows
  <2> QED BY <1>0, <1>1, <1>7, <2>1, <2>2 DEF SwitchRecord, KeyTypeOK, TypeInv
<1>8. CASE SwitchRequest
  <2>1. tray' \in [pc : {"idle", "write", "record", "request"}, to : {"yes", "no"}]
    BY <1>0, <1>8, TrayFields DEF SwitchRequest
  <2>2. catalog' \in Catalogs
    BY <1>0, <1>8, DueDoes DEF SwitchRequest
  <2> QED BY <1>0, <1>1, <1>8, <2>1, <2>2 DEF SwitchRequest, KeyTypeOK, TypeInv, Catalogs
<1>9. CASE OpenSettings \/ CloseSettings
  <2>1. overlay' \in [open : BOOLEAN, primary : {"this", "other"}, offers : BOOLEAN]
    <3>1. CASE OpenSettings
      <4>1. PICK primary \in {"this", "other"} :
              overlay' = [open |-> TRUE, primary |-> primary, offers |-> IsOn(doc) \/ HasKey(doc)]
        BY <3>1 DEF OpenSettings
      <4>2. (IsOn(doc) \/ HasKey(doc)) \in BOOLEAN
        BY DEF HasKey
      <4> QED BY <4>1, <4>2
    <3>2. CASE CloseSettings
      BY <3>2 DEF CloseSettings, Closed
    <3> QED BY <1>9, <3>1, <3>2
  <2> QED BY <1>0, <1>1, <1>9, <2>1 DEF OpenSettings, CloseSettings, KeyTypeOK, TypeInv
<1>10. CASE SaveBegin \/ ElsewhereBegin
  <2>1. draft' \in [Writers -> Docs \cup {NoDraft}]
    BY <1>0, <1>10, BeginDoes DEF SaveBegin, ElsewhereBegin, Writers
  <2>2. used' \in 0 .. MaxOthers
    BY <1>0, <1>10, KeyAssumption DEF SaveBegin, ElsewhereBegin, Use, KeyTypeOK
  <2> QED BY <1>0, <1>1, <1>10, <2>1, <2>2 DEF SaveBegin, ElsewhereBegin, KeyTypeOK, TypeInv
<1>11. CASE SaveEnd
  <2>1. /\ doc' \in Docs /\ EndEdit("tui", doc') /\ Moved /\ overlay' = Closed
        /\ UNCHANGED <<thread, fact, sent, tray, catalog, reader, used>>
    BY <1>0, <1>11, SaveDoes
  <2>2. draft' \in [Writers -> Docs \cup {NoDraft}]
    BY <1>0, <2>1, EndDoes DEF Writers
  <2> QED BY <1>0, <1>1, <2>1, <2>2 DEF KeyTypeOK, TypeInv, Moved, Closed
<1>12. ASSUME NEW to \in {"yes", "no"}, ElsewhereEnd(to) PROVE TypeInv'
  <2>1. doc' \in Docs /\ EndEdit("elsewhere", doc')
    BY <1>0, <1>12, SwitchDoes DEF ElsewhereEnd
  <2>2. draft' \in [Writers -> Docs \cup {NoDraft}]
    BY <1>0, <2>1, EndDoes DEF Writers
  <2> QED BY <1>0, <1>1, <1>12, <2>1, <2>2 DEF ElsewhereEnd, KeyTypeOK, TypeInv, Moved
<1>13. CASE TakeRequest
  <2>1. catalog' \in Catalogs
    BY <1>0, <1>13, DueDoes DEF TakeRequest
  <2>2. reader' \in [pc : {"idle", "read", "publish"}, rows : Rows, generation : Nat]
    BY <1>0, <1>13 DEF TakeRequest, KeyTypeOK
  <2> QED BY <1>0, <1>1, <1>13, <2>1, <2>2 DEF TakeRequest, NotTheRest, KeyTypeOK, TypeInv,
        Catalogs
<1>14. CASE ReadCatalog
  <2>1. RowsOf(doc) \in Rows
    BY <1>0, RowsOfType DEF KeyTypeOK
  <2>2. reader' \in [pc : {"idle", "read", "publish"}, rows : Rows, generation : Nat]
    BY <1>0, <1>14, <2>1 DEF ReadCatalog, KeyTypeOK
  <2> QED BY <1>0, <1>1, <1>14, <2>2 DEF ReadCatalog, NotTheRest, KeyTypeOK, TypeInv
<1>15. CASE PublishCatalog
  <2>1. catalog' \in Catalogs
    BY <1>0, <1>15 DEF PublishCatalog, KeyTypeOK, Catalogs
  <2>2. reader' \in [pc : {"idle", "read", "publish"}, rows : Rows, generation : Nat]
    BY <1>0, <1>15 DEF PublishCatalog, KeyTypeOK
  <2> QED BY <1>0, <1>1, <1>15, <2>1, <2>2 DEF PublishCatalog, NotTheRest, KeyTypeOK, TypeInv,
        Catalogs
<1>16. CASE UNCHANGED keyVars
  BY <1>0, <1>1, <1>16 DEF KeyTypeOK, TypeInv, keyVars
<1> QED BY <1>3, <1>4, <1>5, <1>6, <1>7, <1>8, <1>9, <1>10, <1>11, <1>12, <1>13, <1>14, <1>15, <1>16
        DEF KeyNext, Worker

(***************************************************************************)
(* Every variable keeps its type.                                          *)
(***************************************************************************)
THEOREM KeyCheckTypes == KeySpec => []KeyTypeOK
BY TypeInit, TypeStep, PTL DEF KeySpec, TypeInv

-----------------------------------------------------------------------------
(* The lock file, and the lock of the checks. *)

(***************************************************************************)
(* One writer at a time holds the document, as it is; the check that does  *)
(* is the only one in its critical section; and no thread runs for a send  *)
(* that was not made.                                                      *)
(***************************************************************************)
OneHolder ==
  /\ \A v, w \in Writers : Holds(v) /\ Holds(w) => v = w
  /\ \A w \in Writers : Holds(w) => draft[w] = doc

Roles ==
  /\ Holds("check") <=> \E s \in Sends : thread[s].pc \in Edits
  /\ Holds("tray") <=> tray.pc = "write"

InTurn ==
  /\ \A s, t \in Sends : Inside(s) /\ Inside(t) => s = t
  /\ \A s \in Sends : s > sent => thread[s].pc = "none"

LockInv == OneHolder /\ Roles /\ InTurn

LEMMA BeginLocks ==
  ASSUME KeyTypeOK, NEW w \in Writers, BeginEdit(w), UNCHANGED doc
  PROVE  /\ OneHolder' /\ Holds(w)'
         /\ \A v \in Writers : ~Holds(v) /\ (v # w => ~Holds(v)')
<1>1. \A v \in Writers : ~Holds(v)
  BY DEF BeginEdit
<1>2. draft'[w] = doc /\ doc # NoDraft /\ \A v \in Writers \ {w} : draft'[v] = draft[v]
  BY BeginDoes
<1> QED BY <1>1, <1>2 DEF Holds, OneHolder

LEMMA EndUnlocks ==
  ASSUME KeyTypeOK, OneHolder, NEW w \in Writers, NEW d \in Docs, EndEdit(w, d)
  PROVE  /\ OneHolder' /\ Holds(w) /\ draft[w] = doc
         /\ \A v \in Writers : ~Holds(v)' /\ (v # w => ~Holds(v))
<1>1. Holds(w) /\ draft'[w] = NoDraft /\ \A v \in Writers \ {w} : draft'[v] = draft[v]
  BY EndDoes
<1>2. draft[w] = doc /\ \A v \in Writers \ {w} : ~Holds(v)
  BY <1>1 DEF OneHolder
<1> QED BY <1>1, <1>2 DEF Holds, OneHolder

LEMMA LockInit == KeyInit => LockInv
<1> SUFFICES ASSUME KeyInit PROVE LockInv
  OBVIOUS
<1>1. /\ \A w \in Writers : draft[w] = NoDraft
      /\ \A s \in Sends : thread[s].pc = "none"
      /\ tray.pc = "idle"
  BY DEF KeyInit, NoThread, Thread
<1>2. "check" \in Writers /\ "tray" \in Writers
  BY DEF Writers
<1> QED BY <1>1, <1>2 DEF LockInv, OneHolder, Roles, InTurn, Holds, Inside, Edits

LEMMA LockStep == TypeInv /\ LockInv /\ [KeyNext]_keyVars => LockInv'
<1> SUFFICES ASSUME TypeInv, LockInv, [KeyNext]_keyVars PROVE LockInv'
  OBVIOUS
<1>0. KeyTypeOK /\ OneHolder /\ Roles /\ InTurn
  BY DEF TypeInv, LockInv
<1>1. ASSUME UNCHANGED <<doc, draft>> PROVE OneHolder'
  BY <1>0, <1>1 DEF OneHolder, Holds
<1>2. ASSUME UNCHANGED <<thread, sent>> PROVE InTurn'
  BY <1>0, <1>2 DEF InTurn, Inside
<1>3. ASSUME UNCHANGED <<draft, thread>>, tray'.pc = "write" <=> tray.pc = "write" PROVE Roles'
  BY <1>0, <1>3 DEF Roles, Holds
<1>4. ASSUME NEW w \in {"tui", "elsewhere"}, UNCHANGED <<thread, sent, tray>>,
             \/ BeginEdit(w) /\ UNCHANGED doc
             \/ \E d \in Docs : EndEdit(w, d)
      PROVE  LockInv'
  <2>1. w \in Writers /\ "check" \in Writers /\ "tray" \in Writers
    BY <1>4 DEF Writers
  <2>2. OneHolder' /\ ~Holds("check") /\ ~Holds("tray") /\ ~Holds("check")' /\ ~Holds("tray")'
    BY <1>0, <1>4, <2>1, BeginLocks, EndUnlocks
  <2>3. Roles'
    BY <1>0, <1>4, <2>2 DEF Roles
  <2> QED BY <1>2, <1>4, <2>2, <2>3 DEF LockInv
<1>5. ASSUME NEW k \in SentKeys, Send(k) PROVE LockInv'
  <2>1. PICK s \in Sends : /\ s = sent + 1 /\ sent' = s /\ OnlyThread(s)
                           /\ thread'[s].pc \in {"queued", "done"}
    BY <1>0, <1>5, SendDoes
  <2>2. UNCHANGED <<doc, draft, tray>>
    BY <1>5 DEF Send
  <2>3. sent \in Nat /\ \A t \in Sends : t \in Nat
    BY <1>0, KeyAssumption DEF KeyTypeOK, Sends
  <2>4. thread[s].pc = "none"
    BY <1>0, <2>1, <2>3 DEF InTurn
  <2>5. Roles'
    BY <1>0, <2>1, <2>2, <2>4 DEF Roles, OnlyThread, Edits, Holds
  <2>6. InTurn'
    <3>1. /\ ~Inside(s)'
          /\ \A t \in Sends \ {s} : thread'[t] = thread[t] /\ (Inside(t)' <=> Inside(t))
      BY <2>1 DEF OnlyThread, Inside
    <3>2. /\ \A t, u \in Sends : Inside(t) /\ Inside(u) => t = u
          /\ \A t \in Sends : t > sent => thread[t].pc = "none"
      BY <1>0 DEF InTurn
    <3>3. ASSUME NEW t \in Sends, t > sent'
          PROVE  thread'[t].pc = "none"
      <4>1. t \in Nat /\ sent \in Nat
        BY <2>3
      <4>2. t > s /\ s = sent + 1
        BY <2>1, <3>3
      <4>3. t # s /\ t > sent
        BY <4>1, <4>2
      <4> QED BY <3>1, <3>2, <4>3
    <3>4. \A t, u \in Sends : Inside(t)' /\ Inside(u)' => t = u
      BY <3>1, <3>2
    <3> QED BY <3>3, <3>4 DEF InTurn
  <2> QED BY <1>1, <2>2, <2>5, <2>6 DEF LockInv
<1>6. ASSUME NEW s \in Sends, Check(s) PROVE LockInv'
  <2>1. /\ OnlyThread(s) /\ thread[s].pc # "none"
        /\ Inside(s)' => Inside(s) \/ \A other \in Sends : ~Inside(other)
        /\ UNCHANGED <<sent, tray>>
        /\ Quietly(s) \/ Opens(s) \/ Closes(s)
    BY <1>6, CheckMoves DEF Around
  <2>2. InTurn'
    BY <1>0, <2>1 DEF InTurn, OnlyThread, Inside
  <2>3. "check" \in Writers /\ "tray" \in Writers /\ "tray" # "check"
    BY DEF Writers
  <2>4. CASE Quietly(s)
    <3>1. UNCHANGED <<doc, draft>> /\ thread[s].pc \notin Edits /\ thread'[s].pc \notin Edits
      BY <2>4 DEF Quietly
    <3>2. Roles'
      BY <1>0, <2>1, <3>1 DEF Roles, OnlyThread, Holds
    <3> QED BY <1>1, <2>2, <3>1, <3>2 DEF LockInv
  <2>5. CASE Opens(s)
    <3>1. BeginEdit("check") /\ UNCHANGED doc /\ thread'[s].pc \in Edits
      BY <2>5 DEF Opens
    <3>2. OneHolder' /\ Holds("check")' /\ ~Holds("tray") /\ ~Holds("tray")'
      BY <1>0, <2>3, <3>1, BeginLocks
    <3>3. Roles'
      BY <1>0, <2>1, <3>1, <3>2 DEF Roles
    <3> QED BY <2>2, <3>2, <3>3 DEF LockInv
  <2>6. CASE Closes(s)
    <3>1. /\ EndEdit("check", doc') /\ doc' \in Docs
          /\ thread[s].pc \in Edits /\ thread'[s].pc \notin Edits
      BY <2>6 DEF Closes
    <3>2. OneHolder' /\ ~Holds("check")' /\ ~Holds("tray") /\ ~Holds("tray")'
      BY <1>0, <2>3, <3>1, EndUnlocks
    <3>3. \A t \in Sends : thread'[t].pc \notin Edits
      BY <1>0, <2>1, <3>1 DEF InTurn, OnlyThread, Inside, Edits
    <3>4. Roles'
      BY <1>0, <2>1, <3>2, <3>3 DEF Roles
    <3> QED BY <2>2, <3>2, <3>4 DEF LockInv
  <2> QED BY <2>1, <2>4, <2>5, <2>6
<1>7. ASSUME NEW to \in {"yes", "no"}, SwitchBegin(to) PROVE LockInv'
  <2>1. "check" \in Writers /\ "tray" \in Writers /\ "tray" # "check"
    BY DEF Writers
  <2>2. UNCHANGED <<doc, thread, sent>> /\ tray.pc = "idle"
    BY <1>7 DEF SwitchBegin
  <2>3. CASE BeginEdit("tray") /\ tray' = [pc |-> "write", to |-> to]
    <3>1. OneHolder' /\ Holds("tray")' /\ ~Holds("check") /\ ~Holds("check")'
      BY <1>0, <2>1, <2>2, <2>3, BeginLocks
    <3>2. Roles'
      BY <1>0, <2>2, <2>3, <3>1 DEF Roles
    <3> QED BY <1>2, <2>2, <3>1, <3>2 DEF LockInv
  <2>4. CASE UNCHANGED draft /\ tray' = [pc |-> "request", to |-> to]
    BY <1>1, <1>2, <1>3, <2>2, <2>4 DEF LockInv
  <2> QED BY <1>7, <2>3, <2>4 DEF SwitchBegin
<1>8. CASE SwitchWrite
  <2>1. "check" \in Writers /\ "tray" \in Writers /\ "tray" # "check"
    BY DEF Writers
  <2>2. UNCHANGED <<thread, sent>> /\ tray' = [tray EXCEPT !.pc = "record"]
    BY <1>8 DEF SwitchWrite
  <2>3. tray'.pc = "record" /\ tray.to \in {"yes", "no"}
    BY <1>0, <2>2, TrayFields DEF KeyTypeOK
  <2>4. EndEdit("tray", doc') /\ doc' \in Docs
    BY <1>0, <1>8, <2>3, SwitchDoes DEF SwitchWrite
  <2>5. OneHolder' /\ ~Holds("tray")' /\ ~Holds("check") /\ ~Holds("check")'
    BY <1>0, <2>1, <2>4, EndUnlocks
  <2>6. Roles'
    BY <1>0, <2>2, <2>3, <2>5 DEF Roles
  <2> QED BY <1>2, <2>2, <2>5, <2>6 DEF LockInv
<1>9. CASE SwitchRecord \/ SwitchRequest
  <2>1. tray.pc # "write" /\ tray'.pc # "write"
    BY <1>0, <1>9, TrayFields DEF SwitchRecord, SwitchRequest
  <2>2. UNCHANGED <<doc, draft, thread, sent>>
    BY <1>9 DEF SwitchRecord, SwitchRequest
  <2> QED BY <1>1, <1>2, <1>3, <2>1, <2>2 DEF LockInv
<1>10. CASE OpenSettings \/ CloseSettings \/ Worker \/ UNCHANGED keyVars
  <2>1. UNCHANGED <<doc, draft, thread, sent, tray>>
    BY <1>10 DEF OpenSettings, CloseSettings, Worker, TakeRequest, ReadCatalog, PublishCatalog,
                 NotTheRest, keyVars
  <2> QED BY <1>1, <1>2, <1>3, <2>1 DEF LockInv
<1>11. CASE SaveBegin \/ ElsewhereBegin
  BY <1>4, <1>11 DEF SaveBegin, ElsewhereBegin
<1>12. CASE SaveEnd
  BY <1>0, <1>4, <1>12, SaveDoes
<1>13. ASSUME NEW to \in {"yes", "no"}, ElsewhereEnd(to) PROVE LockInv'
  BY <1>0, <1>4, <1>13, SwitchDoes DEF ElsewhereEnd
<1> QED BY <1>5, <1>6, <1>7, <1>8, <1>9, <1>10, <1>11, <1>12, <1>13 DEF KeyNext

-----------------------------------------------------------------------------
(* Whose key is in the file. *)

(***************************************************************************)
(* A key typed into the dialog is in the file only while its check vouches *)
(* for it.                                                                 *)
(***************************************************************************)
KeyInv == doc.key \in SentKeys => \E s \in Sends : thread[s].key = doc.key /\ Vouched(s)

LEMMA KeyInvInit == KeyInit => KeyInv
BY DEF KeyInit, KeyInv

LEMMA KeyStep ==
  ASSUME SentKeys \cap UserKeys = {}
  PROVE  TypeInv /\ LockInv /\ KeyInv /\ [KeyNext]_keyVars => KeyInv'
<1> SUFFICES ASSUME TypeInv, LockInv, KeyInv, [KeyNext]_keyVars PROVE KeyInv'
  OBVIOUS
<1>0. KeyTypeOK /\ OneHolder /\ "none" \notin SentKeys /\ SentKeys \subseteq Keys
  BY KeyAssumption DEF TypeInv, LockInv, Keys
<1>1. ASSUME UNCHANGED thread, doc'.key \in SentKeys => doc'.key = doc.key PROVE KeyInv'
  BY <1>1 DEF KeyInv, Vouched
<1>2. ASSUME NEW k \in SentKeys, Send(k) PROVE KeyInv'
  <2>1. PICK s \in Sends : s = sent + 1 /\ OnlyThread(s)
    BY <1>0, <1>2, SendDoes
  <2>2. thread[s].pc = "none" /\ ThreadOk(s)
    BY <1>0, <2>1, KeyAssumption DEF LockInv, InTurn, TypeInv, KeyTypeOK, Sends
  <2>3. ~Vouched(s)
    BY <2>2 DEF ThreadOk, Vouched, Tried
  <2>4. UNCHANGED doc
    BY <1>2 DEF Send
  <2> QED BY <2>1, <2>3, <2>4 DEF KeyInv, OnlyThread, Vouched
<1>3. ASSUME NEW s \in Sends, Check(s) PROVE KeyInv'
  <2>1. /\ OnlyThread(s) /\ thread'[s].key = thread[s].key
        /\ Quietly(s) \/ Opens(s) \/ Closes(s)
    BY <1>3, CheckMoves
  <2>2. ASSUME UNCHANGED doc, Vouched(s) => Vouched(s)' PROVE KeyInv'
    BY <2>1, <2>2 DEF KeyInv, OnlyThread, Vouched
  <2>3. CASE Closes(s)
    <3>1. draft["check"] = doc
      BY <1>0, <2>3, EndUnlocks DEF Closes, Writers
    <3> SUFFICES ASSUME doc'.key \in SentKeys
                 PROVE  \E t \in Sends : thread'[t].key = doc'.key /\ Vouched(t)'
      BY DEF KeyInv
    <3>2. CASE doc'.key = thread[s].key /\ Vouched(s)'
      BY <2>1, <3>2
    <3>3. CASE doc'.key = doc.key /\ (doc'.key = thread[s].key /\ Vouched(s) => Vouched(s)')
      <4>1. PICK t \in Sends : thread[t].key = doc.key /\ Vouched(t)
        BY <3>3 DEF KeyInv
      <4>2. t = s \/ (thread'[t] = thread[t] /\ Vouched(t)')
        BY <2>1, <4>1 DEF OnlyThread, Vouched
      <4> QED BY <2>1, <3>3, <4>1, <4>2
    <3> QED BY <1>0, <2>3, <3>1, <3>2, <3>3 DEF Closes
  <2> QED BY <2>1, <2>2, <2>3 DEF Quietly, Opens
<1>4. ASSUME NEW to \in {"yes", "no"}, SwitchBegin(to) \/ ElsewhereEnd(to) PROVE KeyInv'
  <2>1. UNCHANGED thread
    BY <1>4 DEF SwitchBegin, ElsewhereEnd
  <2>2. CASE ElsewhereEnd(to)
    <3>1. EndEdit("elsewhere", doc') /\ doc' \in Docs /\ doc'.key = draft["elsewhere"].key
      BY <1>0, <2>2, SwitchDoes DEF ElsewhereEnd
    <3>2. draft["elsewhere"] = doc
      BY <1>0, <3>1, EndUnlocks DEF Writers
    <3> QED BY <1>1, <2>1, <3>1, <3>2
  <2> QED BY <1>1, <1>4, <2>1, <2>2 DEF SwitchBegin
<1>5. CASE SwitchWrite
  <2>1. EndEdit("tray", doc') /\ doc' \in Docs /\ doc'.key = draft["tray"].key
    BY <1>0, <1>5, SwitchDoes DEF SwitchWrite, KeyTypeOK
  <2>2. draft["tray"] = doc
    BY <1>0, <2>1, EndUnlocks DEF Writers
  <2> QED BY <1>1, <1>5, <2>1, <2>2 DEF SwitchWrite
<1>6. CASE SaveEnd
  <2>1. /\ EndEdit("tui", doc') /\ doc' \in Docs /\ UNCHANGED thread
        /\ doc'.key \in {draft["tui"].key, "none"} \cup UserKeys
    BY <1>0, <1>6, SaveDoes
  <2>2. draft["tui"] = doc
    BY <1>0, <2>1, EndUnlocks DEF Writers
  <2> QED BY <1>0, <1>1, <2>1, <2>2
<1>7. CASE \/ SwitchRecord \/ SwitchRequest \/ OpenSettings \/ CloseSettings \/ SaveBegin
           \/ ElsewhereBegin \/ Worker \/ UNCHANGED keyVars
  <2>1. UNCHANGED <<doc, thread>>
    BY <1>7 DEF SwitchRecord, SwitchRequest, OpenSettings, CloseSettings, SaveBegin, ElsewhereBegin,
                Worker, TakeRequest, ReadCatalog, PublishCatalog, NotTheRest, keyVars
  <2> QED BY <1>1, <2>1
<1> QED BY <1>2, <1>3, <1>4, <1>5, <1>6, <1>7 DEF KeyNext

-----------------------------------------------------------------------------
(* The switch the popover draws. *)

(***************************************************************************)
(* While the tray's last switch stands the document says so; a catalog     *)
(* read after it says so too, and one that was read before it has an older *)
(* generation than the catalog's.                                          *)
(***************************************************************************)
SwitchInv ==
  /\ held # "none" => (IsOn(doc) <=> held = "yes")
  /\ tray.pc = "record" /\ held # "none" => held = tray.to
  /\ reader.generation <= catalog.generation
  /\ held # "none" /\ tray.pc # "record" =>
       /\ catalog.rows.on <=> held = "yes"
       /\ reader.pc = "publish" /\ reader.generation = catalog.generation =>
            (reader.rows.on <=> held = "yes")

LEMMA SwitchInit == KeyInit => SwitchInv
BY DEF KeyInit, SwitchInv

(***************************************************************************)
(* Steps that neither switch nor draw.                                     *)
(***************************************************************************)
LEMMA SwitchFrame ==
  ASSUME SwitchInv, UNCHANGED <<tray, reader>>,
         catalog'.rows = catalog.rows, catalog'.generation = catalog.generation,
         Moved \/ UNCHANGED <<doc, held>>
  PROVE  SwitchInv'
<1>1. held' # "none" => held' = held /\ (IsOn(doc)' <=> IsOn(doc))
  BY DEF Moved, IsOn
<1> QED BY <1>1 DEF SwitchInv

LEMMA SwitchStep == TypeInv /\ SwitchInv /\ [KeyNext]_keyVars => SwitchInv'
<1> SUFFICES ASSUME TypeInv, SwitchInv, [KeyNext]_keyVars PROVE SwitchInv'
  OBVIOUS
<1>0. KeyTypeOK /\ tray.to \in {"yes", "no"} /\ catalog \in Catalogs
      /\ reader.generation \in Nat /\ catalog.generation \in Nat
  BY DEF TypeInv, KeyTypeOK, Catalogs
<1>1. ASSUME NEW k \in SentKeys, Send(k) PROVE SwitchInv'
  BY <1>1, SwitchFrame DEF Send
<1>2. ASSUME NEW s \in Sends, Check(s) PROVE SwitchInv'
  <2>1. Around /\ (Quietly(s) \/ Opens(s) \/ Closes(s))
    BY <1>2, CheckMoves
  <2> QED BY <2>1, SwitchFrame DEF Around, Quietly, Opens, Closes
<1>3. ASSUME NEW to \in {"yes", "no"}, SwitchBegin(to) PROVE SwitchInv'
  <2>1. /\ tray.pc # "record" /\ tray'.pc # "record"
        /\ UNCHANGED <<doc, catalog, reader, held>>
    BY <1>3 DEF SwitchBegin
  <2> QED BY <2>1 DEF SwitchInv, IsOn
<1>4. CASE SwitchWrite
  <2>1. doc'.on = tray.to /\ held' = tray.to /\ UNCHANGED <<catalog, reader>>
    BY <1>0, <1>4, SwitchDoes DEF SwitchWrite
  <2>2. tray'.pc = "record" /\ tray'.to = tray.to
    BY <1>0, <1>4, TrayFields DEF SwitchWrite
  <2>3. IsOn(doc)' <=> held' = "yes"
    BY <1>0, <2>1 DEF IsOn
  <2> QED BY <2>1, <2>2, <2>3 DEF SwitchInv
<1>5. CASE SwitchRecord
  <2>1. tray.pc = "record" /\ tray'.pc = "request" /\ UNCHANGED <<doc, reader, held>>
    BY <1>0, <1>5, TrayFields DEF SwitchRecord
  <2>2. (catalog'.rows.on <=> tray.to = "yes") /\ catalog'.generation = catalog.generation + 1
    BY <1>5 DEF SwitchRecord
  <2> QED BY <1>0, <2>1, <2>2 DEF SwitchInv, IsOn
<1>6. CASE SwitchRequest
  <2>1. tray.pc = "request" /\ tray'.pc = "idle" /\ UNCHANGED <<doc, reader, held>>
    BY <1>0, <1>6, TrayFields DEF SwitchRequest
  <2>2. catalog'.rows = catalog.rows /\ catalog'.generation = catalog.generation
    BY <1>0, <1>6, DueDoes DEF SwitchRequest
  <2> QED BY <2>1, <2>2 DEF SwitchInv, IsOn
<1>7. CASE OpenSettings \/ CloseSettings \/ SaveBegin \/ ElsewhereBegin \/ UNCHANGED keyVars
  BY <1>7, SwitchFrame DEF OpenSettings, CloseSettings, SaveBegin, ElsewhereBegin, keyVars
<1>8. CASE SaveEnd
  BY <1>8, SwitchFrame DEF SaveEnd
<1>9. ASSUME NEW to \in {"yes", "no"}, ElsewhereEnd(to) PROVE SwitchInv'
  BY <1>9, SwitchFrame DEF ElsewhereEnd
<1>10. CASE TakeRequest
  <2>1. /\ reader'.pc = "read" /\ reader'.generation = catalog.generation
        /\ UNCHANGED <<doc, tray, held>>
    BY <1>10 DEF TakeRequest, NotTheRest
  <2>2. catalog'.rows = catalog.rows /\ catalog'.generation = catalog.generation
    BY <1>0, <1>10, DueDoes DEF TakeRequest
  <2> QED BY <1>0, <2>1, <2>2 DEF SwitchInv, IsOn
<1>11. CASE ReadCatalog
  <2>1. /\ reader'.generation = reader.generation /\ reader'.rows = RowsOf(doc)
        /\ UNCHANGED <<doc, tray, catalog, held>>
    BY <1>11 DEF ReadCatalog, NotTheRest
  <2>2. reader'.rows.on = IsOn(doc)
    BY <1>0, <2>1, RowsOfType DEF KeyTypeOK
  <2> QED BY <1>0, <2>1, <2>2 DEF SwitchInv, IsOn
<1>12. CASE PublishCatalog
  <2>1. /\ reader'.pc = "idle" /\ reader'.generation = reader.generation
        /\ UNCHANGED <<doc, tray, held>>
    BY <1>0, <1>12 DEF PublishCatalog, NotTheRest, KeyTypeOK
  <2>2. /\ catalog'.generation = catalog.generation
        /\ catalog'.rows = IF MayPublish THEN reader.rows ELSE catalog.rows
    BY <1>0, <1>12 DEF PublishCatalog, Catalogs
  <2>3. reader.pc = "publish"
    BY <1>12 DEF PublishCatalog
  <2> QED BY <1>0, <2>1, <2>2, <2>3 DEF SwitchInv, IsOn, MayPublish
<1> QED BY <1>1, <1>2, <1>3, <1>4, <1>5, <1>6, <1>7, <1>8, <1>9, <1>10, <1>11, <1>12
        DEF KeyNext, Worker

-----------------------------------------------------------------------------
(* What the invariants show. *)

LEMMA LockAlways == KeySpec => [](TypeInv /\ LockInv)
<1>1. KeyInit => TypeInv /\ LockInv
  BY TypeInit, LockInit
<1>2. (TypeInv /\ LockInv) /\ [KeyNext]_keyVars => (TypeInv /\ LockInv)'
  BY TypeStep, LockStep
<1> QED BY <1>1, <1>2, PTL DEF KeySpec

(***************************************************************************)
(* A key that the provider refused is not left in config.toml: one that is *)
(* there is being tried, was accepted, or is said to have stayed           *)
(* (run_key_check).                                                        *)
(***************************************************************************)
THEOREM RefusedKeysGo ==
  ASSUME SentKeys \cap UserKeys = {}
  PROVE  KeySpec => []RefusedKeyIsNotKept
<1>1. KeyInit => KeyInv
  BY KeyInvInit
<1>2. TypeInv /\ LockInv /\ KeyInv /\ [KeyNext]_keyVars => KeyInv'
  BY KeyStep
<1>3. KeyInv => RefusedKeyIsNotKept
  BY DEF KeyInv, Vouched, Tried, RefusedKeyIsNotKept, Inside
<1> QED BY <1>1, <1>2, <1>3, LockAlways, PTL DEF KeySpec

(***************************************************************************)
(* The switch that the popover draws is the tray's last one while nobody   *)
(* else has moved it: a catalog read before the click is not drawn after   *)
(* it (set_enabled, refresh_due, publish).                                 *)
(***************************************************************************)
THEOREM SwitchStays == KeySpec => []SwitchIsNotPutBack
<1>1. KeyInit => TypeInv /\ SwitchInv
  BY TypeInit, SwitchInit
<1>2. (TypeInv /\ SwitchInv) /\ [KeyNext]_keyVars => (TypeInv /\ SwitchInv)'
  BY TypeStep, SwitchStep
<1>3. TypeInv /\ SwitchInv => SwitchIsNotPutBack
  <2> SUFFICES ASSUME TypeInv, SwitchInv, held # "none", tray.pc # "record"
               PROVE  catalog.rows.on = (held = "yes")
    BY DEF SwitchIsNotPutBack
  <2>1. catalog.rows.on \in BOOLEAN
    BY DEF TypeInv, KeyTypeOK, Rows
  <2>2. catalog.rows.on <=> held = "yes"
    BY DEF SwitchInv
  <2> QED BY <2>1, <2>2
<1> QED BY <1>1, <1>2, <1>3, PTL DEF KeySpec

(***************************************************************************)
(* Nobody's save is undone by somebody else's: a check replaces no key but *)
(* its own, a switch changes no key, and neither changes the primary       *)
(* (edit_config_document and its callers).                                 *)
(***************************************************************************)
THEOREM SavesStay == KeySpec => SavesOfOthersStay
<1>1. ASSUME TypeInv, LockInv, [KeyNext]_keyVars
      PROVE  \A s \in Sends : WriteEnd(s) \/ RestoreEnd(s) =>
               doc.key = doc'.key \/ ~HasKey(doc) \/ doc.key = thread[s].key
  <2> SUFFICES ASSUME NEW s \in Sends, WriteEnd(s) \/ RestoreEnd(s)
               PROVE  doc.key = doc'.key \/ ~HasKey(doc) \/ doc.key = thread[s].key
    OBVIOUS
  <2>1. Check(s) /\ thread[s].pc \in Edits
    BY DEF Check, WriteEnd, RestoreEnd, At, Edits
  <2>2. Closes(s)
    BY <1>1, <2>1, CheckMoves DEF Quietly, Opens
  <2>3. draft["check"] = doc
    BY <1>1, <2>2, EndUnlocks DEF Closes, TypeInv, LockInv, Writers
  <2> QED BY <2>2, <2>3 DEF Closes, HasKey
<1>2. ASSUME TypeInv, LockInv, [KeyNext]_keyVars
      PROVE  \A w \in Writers \ {"tui"} : Holds(w) /\ draft'[w] = NoDraft =>
               doc'.primary = doc.primary /\ (w # "check" => doc'.key = doc.key)
  <2> SUFFICES ASSUME NEW w \in Writers \ {"tui"}, Holds(w), draft'[w] = NoDraft
               PROVE  doc'.primary = doc.primary /\ (w # "check" => doc'.key = doc.key)
    OBVIOUS
  <2>1. KeyTypeOK /\ OneHolder /\ draft[w] = doc /\ draft[w] # NoDraft
        /\ \A v \in Writers : v # w => ~Holds(v)
    BY <1>1, <1>2 DEF TypeInv, LockInv, OneHolder, Holds
  <2>2. ASSUME NEW v \in Writers, BeginEdit(v) PROVE FALSE
    BY <2>2 DEF BeginEdit
  <2>3. CASE draft' = draft
    BY <2>1, <2>3
  <2>4. ASSUME NEW s \in Sends, Check(s)
        PROVE  doc'.primary = doc.primary /\ (w # "check" => doc'.key = doc.key)
    <3>1. CASE Quietly(s)
      BY <2>1, <3>1 DEF Quietly
    <3>2. CASE Opens(s)
      BY <2>2, <3>2 DEF Opens, Writers
    <3>3. CASE Closes(s)
      <4>1. EndEdit("check", doc') /\ doc' \in Docs /\ doc'.primary = draft["check"].primary
        BY <3>3 DEF Closes
      <4>2. w = "check"
        BY <2>1, <4>1 DEF EndEdit, Writers
      <4> QED BY <2>1, <4>1, <4>2
    <3> QED BY <1>2, <2>4, <3>1, <3>2, <3>3, CheckMoves
  <2>5. CASE SaveEnd
    <3>1. Holds("tui")
      BY <2>5 DEF SaveEnd, EndEdit
    <3> QED BY <2>1, <3>1 DEF Writers
  <2>6. ASSUME NEW v \in {"tray", "elsewhere"}, NEW to \in {"yes", "no"},
               EndEdit(v, Switched(draft[v], to))
        PROVE  doc'.primary = doc.primary /\ (w # "check" => doc'.key = doc.key)
    <3>1. doc'.key = draft[v].key /\ doc'.primary = draft[v].primary /\ Holds(v)
      BY <2>1, <2>6, SwitchDoes DEF EndEdit
    <3>2. v = w
      BY <2>1, <2>6, <3>1 DEF Writers
    <3> QED BY <2>1, <3>1, <3>2
  <2>7. CASE SwitchWrite
    <3>1. tray.to \in {"yes", "no"} /\ EndEdit("tray", Switched(draft["tray"], tray.to))
      BY <2>1, <2>7 DEF SwitchWrite, KeyTypeOK
    <3> QED BY <2>6, <3>1
  <2>8. ASSUME NEW to \in {"yes", "no"}, ElsewhereEnd(to)
        PROVE  doc'.primary = doc.primary /\ (w # "check" => doc'.key = doc.key)
    BY <2>6, <2>8 DEF ElsewhereEnd
  <2>9. \/ draft' = draft
        \/ \E v \in Writers : BeginEdit(v)
        \/ \E s \in Sends : Check(s)
        \/ \E to \in {"yes", "no"} : ElsewhereEnd(to)
        \/ SaveEnd \/ SwitchWrite
    BY <1>2 DEF KeyNext, Worker, Send, SwitchBegin, SwitchRecord, SwitchRequest, OpenSettings,
                CloseSettings, SaveBegin, ElsewhereBegin, TakeRequest, ReadCatalog, PublishCatalog,
                NotTheRest, keyVars, Writers
  <2> QED BY <2>2, <2>3, <2>4, <2>5, <2>7, <2>8, <2>9
<1>3. KeySpec => UsersKeyIsKept
  BY <1>1, LockAlways, PTL DEF KeySpec, UsersKeyIsKept
<1>4. KeySpec => NoSaveIsLost
  BY <1>2, LockAlways, PTL DEF KeySpec, NoSaveIsLost
<1> QED BY <1>3, <1>4 DEF SavesOfOthersStay

-----------------------------------------------------------------------------
(* The dashboard. *)


Shown == [kind : {"loading", "ready", "error"}, stale : BOOLEAN, ver : Nat]

TuiTypeInv ==
  /\ file.tabs \in Layouts /\ file.ver \in Nat /\ config.ver \in Nat
  /\ nav = [tabs |-> nav.tabs, active |-> nav.active, overview |-> nav.overview]
  /\ nav.tabs \in Layouts
  /\ shown \in [Tabs -> Shown]
  /\ refreshing \subseteq Tabs
  /\ generation \in Nat
  /\ \A f \in flights : f.gen \in Nat /\ f.tab \in Tabs /\ f.ver \in Nat

(***************************************************************************)
(* A tab list names tabs.                                                  *)
(***************************************************************************)
LEMMA ListedAreTabs ==
  ASSUME NEW layout \in Layouts
  PROVE  ToSet(layout) \subseteq Tabs
  BY DEF Tabs

(***************************************************************************)
(* A request carries the generation, the version and the tab it is for.    *)
(***************************************************************************)
LEMMA FlightsDo ==
  ASSUME NEW begun, NEW gen, NEW ver, NEW f \in Flights(begun, gen, ver)
  PROVE  f.gen = gen /\ f.ver = ver /\ f.tab \in begun /\ f.no = count.rounds + 1
  BY DEF Flights

(***************************************************************************)
(* Every tab that is begun has one, and only one, request of the round.    *)
(***************************************************************************)
LEMMA FlightsCover ==
  ASSUME NEW begun, NEW gen, NEW ver
  PROVE  /\ \A t \in begun : \E f \in Flights(begun, gen, ver) : f.tab = t
         /\ \A f, g \in Flights(begun, gen, ver) : f.tab = g.tab => f = g
<1>1. ASSUME NEW t \in begun PROVE \E f \in Flights(begun, gen, ver) : f.tab = t
  <2> DEFINE f == [no |-> count.rounds + 1, gen |-> gen, tab |-> t, ver |-> ver]
  <2>1. f \in Flights(begun, gen, ver) /\ f.tab = t
    BY DEF Flights
  <2> QED BY <2>1
<1>2. \A f, g \in Flights(begun, gen, ver) : f.tab = g.tab => f = g
  BY DEF Flights
<1> QED BY <1>1, <1>2

-----------------------------------------------------------------------------
(* What an answer may still change. *)

Due == {f \in flights : f.gen = generation}

(***************************************************************************)
(* No request is of a generation to come.  A request of the generation is  *)
(* for a tab of the list, was made under the configuration in memory, and  *)
(* is the only one of its tab; the spinners are theirs.                    *)
(***************************************************************************)
DueInv ==
  /\ \A f \in flights : f.gen <= generation
  /\ \A f \in Due : f.ver = config.ver /\ f.tab \in ToSet(nav.tabs)
  /\ \A f, g \in Due : f.tab = g.tab => f = g
  /\ refreshing = {f.tab : f \in Due}

TabsInv == TuiTypeInv /\ DueInv /\ ShownIsOfTheConfig

LEMMA StartedTabs ==
  ASSUME TuiInit
  PROVE  TabsInv
<1>1. /\ file.tabs \in Layouts /\ file.ver = 1 /\ config.ver = 1
      /\ nav.tabs = file.tabs
      /\ nav = [tabs |-> nav.tabs, active |-> nav.active, overview |-> nav.overview]
  BY DEF TuiInit
<1>2. shown = [t \in Tabs |-> Loading] /\ Loading \in Shown /\ Loading.kind = "loading"
  BY DEF TuiInit, Loading, Shown
<1>3. ToSet(file.tabs) \subseteq Tabs
  BY <1>1, ListedAreTabs
<1>4. /\ generation = 0 /\ refreshing = ToSet(file.tabs)
      /\ flights = {[no |-> 1, gen |-> 0, tab |-> t, ver |-> 1] : t \in ToSet(file.tabs)}
  BY DEF TuiInit
<1>5. /\ \A f \in flights : f.gen = 0 /\ f.ver = 1 /\ f.tab \in ToSet(file.tabs)
      /\ \A f, g \in flights : f.tab = g.tab => f = g
  BY <1>4
<1>6. \A t \in ToSet(file.tabs) : \E f \in flights : f.tab = t
  <2> SUFFICES ASSUME NEW t \in ToSet(file.tabs) PROVE \E f \in flights : f.tab = t
    OBVIOUS
  <2> DEFINE f == [no |-> 1, gen |-> 0, tab |-> t, ver |-> 1]
  <2>1. f \in flights /\ f.tab = t
    BY <1>4
  <2> QED BY <2>1
<1>7. TuiTypeInv
  BY <1>1, <1>2, <1>3, <1>4, <1>5 DEF TuiTypeInv
<1>8. DueInv
  BY <1>1, <1>4, <1>5, <1>6 DEF DueInv, Due
<1>9. ShownIsOfTheConfig
  BY <1>1, <1>2, <1>3 DEF ShownIsOfTheConfig
<1> QED BY <1>7, <1>8, <1>9 DEF TabsInv

(***************************************************************************)
(* spawn_all and refresh_active: a round of requests for listed tabs.      *)
(***************************************************************************)
LEMMA SpawnKeeps ==
  ASSUME TabsInv, NEW wanted \in SUBSET ToSet(nav.tabs), Spawn(wanted),
         UNCHANGED <<file, config, nav, generation>>
  PROVE  TabsInv'
<1> DEFINE begun == Begin(wanted, refreshing)
           new == Flights(begun, generation, config.ver)
<1> USE DEF TabsInv, TuiTypeInv
<1>1. /\ refreshing' = refreshing \cup begun
      /\ shown' = [t \in Tabs |-> IF t \in begun THEN Blank(shown[t]) ELSE shown[t]]
      /\ flights' = flights \cup new
  BY DEF Spawn
<1>2. begun \subseteq wanted /\ begun \cap refreshing = {}
  BY DEF Begin
<1>3. ToSet(nav.tabs) \subseteq Tabs
  BY ListedAreTabs
<1>4. \A f \in new : f.gen = generation /\ f.ver = config.ver /\ f.tab \in begun
  BY FlightsDo
<1>5. /\ \A t \in begun : \E f \in new : f.tab = t
      /\ \A f, g \in new : f.tab = g.tab => f = g
  BY FlightsCover
<1>6. \A t \in Tabs : Blank(shown[t]) \in {shown[t], Loading}
  BY DEF Blank
<1>7. Loading \in Shown /\ Loading.kind = "loading"
  BY DEF Loading, Shown
<1> HIDE DEF begun, new
<1>8. TuiTypeInv'
  <2>1. shown' \in [Tabs -> Shown]
    BY <1>1, <1>6, <1>7
  <2>2. refreshing' \subseteq Tabs
    BY <1>1, <1>2, <1>3
  <2>3. \A f \in flights' : f.gen \in Nat /\ f.tab \in Tabs /\ f.ver \in Nat
    BY <1>1, <1>2, <1>3, <1>4
  <2> QED BY <2>1, <2>2, <2>3
<1>9. DueInv'
  <2>1. Due' = Due \cup new
    BY <1>1, <1>4 DEF Due
  <2>2. refreshing = {f.tab : f \in Due}
    BY DEF DueInv
  <2>3. \A f \in Due : f.tab \in refreshing
    BY <2>2
  <2>4. \A f \in flights' : f.gen <= generation
    BY <1>1, <1>4 DEF DueInv
  <2>5. \A f \in Due' : f.ver = config.ver /\ f.tab \in ToSet(nav.tabs)
    BY <2>1, <1>2, <1>4 DEF DueInv
  <2>6. \A f, g \in Due' : f.tab = g.tab => f = g
    BY <2>1, <2>3, <1>2, <1>4, <1>5 DEF DueInv
  <2>7. refreshing' = {f.tab : f \in Due'}
    BY <2>1, <2>2, <1>1, <1>4, <1>5
  <2> QED BY <2>4, <2>5, <2>6, <2>7 DEF DueInv
<1>10. ShownIsOfTheConfig'
  BY <1>1, <1>3, <1>6, <1>7 DEF ShownIsOfTheConfig
<1> QED BY <1>8, <1>9, <1>10

(***************************************************************************)
(* reload_config: nothing of the old configuration is due any more.        *)
(***************************************************************************)
LEMMA ReloadKeeps ==
  ASSUME TabsInv, NEW reselect \in BOOLEAN, Reload(reselect), UNCHANGED file
  PROVE  TabsInv'
<1> DEFINE new == Flights(ToSet(file.tabs), generation + 1, file.ver)
<1> USE DEF TabsInv, TuiTypeInv
<1>9. \E active, overview : nav' = [tabs |-> file.tabs, active |-> active, overview |-> overview]
  BY DEF Reload
<1>1. /\ config' = file /\ generation' = generation + 1 /\ nav'.tabs = file.tabs
      /\ shown' = [t \in Tabs |-> Loading] /\ refreshing' = ToSet(file.tabs)
      /\ flights' = flights \cup new
  BY <1>9 DEF Reload, Begin, Cleared
<1>2. ToSet(file.tabs) \subseteq Tabs
  BY ListedAreTabs
<1>3. \A f \in new : f.gen = generation + 1 /\ f.ver = file.ver /\ f.tab \in ToSet(file.tabs)
  BY FlightsDo
<1>4. /\ \A t \in ToSet(file.tabs) : \E f \in new : f.tab = t
      /\ \A f, g \in new : f.tab = g.tab => f = g
  BY FlightsCover
<1>5. Loading \in Shown /\ Loading.kind = "loading"
  BY DEF Loading, Shown
<1> HIDE DEF new
<1>6. TuiTypeInv'
  BY <1>1, <1>2, <1>3, <1>5, <1>9
<1>7. DueInv'
  <2>1. Due' = new
    BY <1>1, <1>3 DEF Due, DueInv
  <2>2. \A f \in flights' : f.gen <= generation'
    BY <1>1, <1>3 DEF DueInv
  <2> QED BY <2>1, <2>2, <1>1, <1>3, <1>4 DEF DueInv
<1>8. ShownIsOfTheConfig'
  BY <1>1, <1>2, <1>5 DEF ShownIsOfTheConfig
<1> QED BY <1>6, <1>7, <1>8

(***************************************************************************)
(* apply_refresh: an answer that is due turns its spinner off; another one *)
(* changes nothing.                                                        *)
(***************************************************************************)
LEMMA LandKeeps ==
  ASSUME TabsInv, NEW f \in flights, NEW kind \in {"ready", "error"}, Land(f, kind)
  PROVE  TabsInv'
<1> USE DEF TabsInv, TuiTypeInv
<1>1. UNCHANGED <<file, config, nav, generation>> /\ flights' = flights \ {f}
  BY DEF Land, NotTheConfig
<1>2. Wanted(f) <=> f \in Due
  BY DEF Wanted, Due, DueInv
<1>3. CASE Wanted(f)
  <2>1. refreshing' = refreshing \ {f.tab}
    BY <1>3 DEF Land
  <2>2. f.ver = config.ver /\ f.tab \in Tabs /\ f.ver \in Nat
    BY <1>2, <1>3 DEF DueInv
  <2>3. PICK state :
          /\ shown' = [shown EXCEPT ![f.tab] = state]
          /\ \/ state = [kind |-> "ready", stale |-> TRUE, ver |-> shown[f.tab].ver]
                 /\ shown[f.tab].kind = "ready"
             \/ state = [kind |-> kind, stale |-> FALSE, ver |-> f.ver]
    BY <1>3 DEF Land
  <2>4. state \in Shown
    <3>1. shown[f.tab].ver \in Nat
      BY <2>2 DEF Shown
    <3>2. [kind |-> "ready", stale |-> TRUE, ver |-> shown[f.tab].ver] \in Shown
      BY <3>1 DEF Shown
    <3>3. [kind |-> kind, stale |-> FALSE, ver |-> f.ver] \in Shown
      BY <2>2 DEF Shown
    <3> QED BY <2>3, <3>2, <3>3
  <2>5. state.ver = f.ver \/ (state.ver = shown[f.tab].ver /\ shown[f.tab].kind = "ready")
    BY <2>3
  <2>6. TuiTypeInv'
    BY <1>1, <2>1, <2>3, <2>4
  <2>7. DueInv'
    <3>1. Due' = Due \ {f}
      BY <1>1 DEF Due
    <3>2. f \in Due
      BY <1>2, <1>3
    <3>3. /\ \A g \in flights' : g.gen <= generation
          /\ \A g \in Due' : g.ver = config.ver /\ g.tab \in ToSet(nav.tabs)
          /\ \A g, h \in Due' : g.tab = h.tab => g = h
      BY <1>1, <3>1 DEF DueInv
    <3>4. refreshing' = {g.tab : g \in Due'}
      BY <2>1, <3>1, <3>2 DEF DueInv
    <3> QED BY <1>1, <3>3, <3>4 DEF DueInv
  <2>8. ShownIsOfTheConfig'
    <3>1. ToSet(nav.tabs) \subseteq Tabs
      BY ListedAreTabs
    <3> QED BY <1>1, <2>2, <2>3, <2>5, <3>1 DEF ShownIsOfTheConfig
  <2> QED BY <2>6, <2>7, <2>8
<1>4. CASE ~Wanted(f)
  <2>1. UNCHANGED <<refreshing, shown>>
    BY <1>4 DEF Land
  <2>2. Due' = Due
    BY <1>1, <1>2, <1>4 DEF Due
  <2> QED BY <1>1, <2>1, <2>2 DEF DueInv, ShownIsOfTheConfig
<1> QED BY <1>3, <1>4

LEMMA TabsStep ==
  ASSUME TabsInv, [TuiNext]_tuiVars
  PROVE  TabsInv'
<1>1. CASE Edit
  BY <1>1 DEF Edit, NotTheTabs, TabsInv, TuiTypeInv, DueInv, Due, ShownIsOfTheConfig
<1>2. CASE Started
  BY <1>2 DEF Started, NotTheTabs, TabsInv, TuiTypeInv, DueInv, Due, ShownIsOfTheConfig
<1>3. CASE Poll
  BY <1>3 DEF Poll, NotTheTabs, TabsInv, TuiTypeInv, DueInv, Due, ShownIsOfTheConfig
<1>4. CASE PollReloads
  BY <1>4, ReloadKeeps DEF PollReloads
<1>5. CASE PollFails
  BY <1>5 DEF PollFails, NotTheTabs, TabsInv, TuiTypeInv, DueInv, Due, ShownIsOfTheConfig
<1>6. CASE Save
  BY <1>6 DEF Save, NotTheTabs, TabsInv, TuiTypeInv, DueInv, Due, ShownIsOfTheConfig
<1>7. CASE SaveReloads
  BY <1>7, ReloadKeeps DEF SaveReloads
<1>8. CASE SaveReloadFails
  BY <1>8 DEF SaveReloadFails, NotTheTabs, TabsInv, TuiTypeInv, DueInv, Due, ShownIsOfTheConfig
<1>9. CASE SaveStamps
  BY <1>9 DEF SaveStamps, NotTheTabs, TabsInv, TuiTypeInv, DueInv, Due, ShownIsOfTheConfig
<1>10. CASE RefreshAll
  BY <1>10, SpawnKeeps DEF RefreshAll, NotTheConfig
<1>11. CASE RefreshTab
  <2>1. {nav.tabs[nav.active]} \in SUBSET ToSet(nav.tabs)
    BY <1>11 DEF RefreshTab, ToSet
  <2> QED BY <1>11, <2>1, SpawnKeeps DEF RefreshTab, NotTheConfig
<1>12. CASE Select
  <2>1. \E active, overview : nav' = [tabs |-> nav.tabs, active |-> active, overview |-> overview]
    BY <1>12 DEF Select, NextTab, PrevTab, SelectTab, TabsInv, TuiTypeInv
  <2> QED BY <1>12, <2>1 DEF Select, NotTheConfig, TabsInv, TuiTypeInv, DueInv, Due, ShownIsOfTheConfig
<1>13. CASE OpenContext \/ RefreshContext \/ CloseContext
  BY <1>13 DEF OpenContext, RefreshContext, CloseContext, NotTheConfig, NotTheTabs, TabsInv,
               TuiTypeInv, DueInv, Due, ShownIsOfTheConfig
<1>14. CASE Answers
  BY <1>14, LandKeeps DEF Answers, ScanLands, NotTheConfig, NotTheTabs, TabsInv, TuiTypeInv,
                          DueInv, Due, ShownIsOfTheConfig
<1>15. CASE UNCHANGED tuiVars
  BY <1>15 DEF tuiVars, TabsInv, TuiTypeInv, DueInv, Due, ShownIsOfTheConfig
<1> QED BY <1>1, <1>2, <1>3, <1>4, <1>5, <1>6, <1>7, <1>8, <1>9, <1>10, <1>11, <1>12, <1>13,
           <1>14, <1>15 DEF TuiNext

(***************************************************************************)
(* For any tab lists and any number of edits, saves and refreshes: a tab   *)
(* of the list shows nothing that was fetched under another configuration, *)
(* and its spinner is on exactly while an answer to it is due.             *)
(***************************************************************************)
THEOREM TabsStayCurrent == TuiSpec => []TabsAreCurrent
<1>1. TabsInv => TabsAreCurrent
  BY DEF TabsInv, DueInv, Due, TabsAreCurrent, SpinnerMeansInFlight
<1>2. TabsInv /\ [TuiNext]_tuiVars => TabsInv'
  BY TabsStep
<1> QED BY <1>1, <1>2, StartedTabs, PTL DEF TuiSpec

-----------------------------------------------------------------------------
(* The scans of the context overlay. *)

Overlay(opening, gen, load, of) ==
  [open |-> TRUE, opening |-> opening, generation |-> gen, load |-> load, of |-> of]

(***************************************************************************)
(* Scans are numbered as they are asked for.  An open overlay waits for    *)
(* the newest of all, and once it shows one, that one is not running.      *)
(***************************************************************************)
ScanInv ==
  /\ count.scans \in Nat
  /\ count = [edits |-> count.edits, saves |-> count.saves, rounds |-> count.rounds,
              scans |-> count.scans]
  /\ \A scan \in scans : scan.generation = scan.no /\ scan.no \in 1 .. count.scans
  /\ \A scan, other \in scans : scan.no = other.no => scan = other
  /\ context.open =>
       /\ context.generation = count.scans
       /\ context.load # "loading" =>
            context.of = count.scans /\ \A scan \in scans : scan.no # count.scans

(***************************************************************************)
(* spawn_context_scan: what was asked for before is not the newest now.    *)
(***************************************************************************)
LEMMA StartScanKeeps ==
  ASSUME ScanInv, NEW opening, StartScan(opening)
  PROVE  ScanInv'
<1> DEFINE new == [generation |-> count.scans + 1, opening |-> opening, no |-> count.scans + 1]
<1>1. new.generation = count.scans + 1 /\ new.no = count.scans + 1
  OBVIOUS
<1>2. scans' = scans \cup {new} /\ context' = Overlay(opening, count.scans + 1, "loading", 0)
  BY DEF StartScan, NextScan, Overlay
<1>3. context'.generation = count.scans + 1 /\ context'.load = "loading"
  BY <1>2 DEF Overlay
<1>4. /\ count'.scans = count.scans + 1
      /\ count' = [edits |-> count'.edits, saves |-> count'.saves, rounds |-> count'.rounds,
                   scans |-> count'.scans]
  BY DEF StartScan, ScanInv
<1> HIDE DEF new
<1> QED BY <1>1, <1>2, <1>3, <1>4 DEF ScanInv

LEMMA ScanLandsKeeps ==
  ASSUME ScanInv, NEW scan \in scans, NEW load \in {"ready", "error"}, ScanLands(scan, load)
  PROVE  ScanInv'
<1>1. scans' = scans \ {scan} /\ UNCHANGED count
  BY DEF ScanLands
<1>2. CASE context.open /\ scan.generation = context.generation
  <2>1. context' = Overlay(context.opening, context.generation, load, scan.no)
    BY <1>2 DEF ScanLands, Overlay
  <2>2. context'.generation = context.generation /\ context'.of = scan.no
    BY <2>1 DEF Overlay
  <2>3. scan.no = count.scans
    BY <1>2 DEF ScanInv
  <2> QED BY <1>1, <1>2, <2>2, <2>3 DEF ScanInv
<1>3. CASE ~(context.open /\ scan.generation = context.generation)
  <2>1. UNCHANGED context
    BY <1>3 DEF ScanLands
  <2> QED BY <1>1, <2>1 DEF ScanInv
<1> QED BY <1>2, <1>3

LEMMA CountsOther ==
  ASSUME ScanInv, Edit \/ Save \/ RefreshAll \/ RefreshTab \/ PollReloads \/ SaveReloads
  PROVE  ScanInv'
<1>1. UNCHANGED <<context, scans>> /\ count'.scans = count.scans
  BY DEF Edit, Save, RefreshAll, RefreshTab, PollReloads, SaveReloads, Reload, NotTheContext, ScanInv
<1>2. count' = [edits |-> count'.edits, saves |-> count'.saves, rounds |-> count'.rounds,
                scans |-> count'.scans]
  BY DEF Edit, Save, RefreshAll, RefreshTab, PollReloads, SaveReloads, Reload, ScanInv
<1> QED BY <1>1, <1>2 DEF ScanInv

LEMMA ScanStep ==
  ASSUME ScanInv, [TuiNext]_tuiVars
  PROVE  ScanInv'
<1>1. CASE Edit \/ Save \/ RefreshAll \/ RefreshTab \/ PollReloads \/ SaveReloads
  BY <1>1, CountsOther
<1>2. CASE Started \/ Poll \/ PollFails \/ SaveReloadFails \/ SaveStamps \/ Select
  <2>1. UNCHANGED <<context, scans, count>>
    BY <1>2 DEF Started, Poll, PollFails, SaveReloadFails, SaveStamps, Select, NotTheContext
  <2> QED BY <2>1 DEF ScanInv
<1>3. CASE OpenContext \/ RefreshContext
  BY <1>3, StartScanKeeps DEF OpenContext, RefreshContext
<1>4. CASE CloseContext
  <2>1. ~context'.open /\ UNCHANGED <<scans, count>>
    BY <1>4 DEF CloseContext, NoOverlay
  <2> QED BY <2>1 DEF ScanInv
<1>5. ASSUME NEW f \in flights, NEW kind \in {"ready", "error"}, Land(f, kind) PROVE ScanInv'
  <2>1. UNCHANGED <<context, scans, count>>
    BY <1>5 DEF Land, NotTheContext
  <2> QED BY <2>1 DEF ScanInv
<1>6. ASSUME NEW scan \in scans, NEW load \in {"ready", "error"}, ScanLands(scan, load)
      PROVE ScanInv'
  BY <1>6, ScanLandsKeeps
<1>7. CASE UNCHANGED tuiVars
  BY <1>7 DEF tuiVars, ScanInv
<1> QED BY <1>1, <1>2, <1>3, <1>4, <1>5, <1>6, <1>7 DEF TuiNext, Answers

(***************************************************************************)
(* For any number of openings and scans, in whatever order the scans       *)
(* answer: an open overlay shows the scan it asked for last, and nothing   *)
(* an earlier overlay asked for can still replace it (apply_scan).         *)
(***************************************************************************)
THEOREM NewestScanShows == TuiSpec => []ScanIsTheNewest
<1>1. TuiInit => ScanInv
  BY DEF TuiInit, NoOverlay, ScanInv
<1>2. ScanInv => ScanIsTheNewest
  BY DEF ScanInv, ScanIsTheNewest
<1>3. ScanInv /\ [TuiNext]_tuiVars => ScanInv'
  BY ScanStep
<1> QED BY <1>1, <1>2, <1>3, PTL DEF TuiSpec
=============================================================================
