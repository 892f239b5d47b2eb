------------------------------- MODULE Notify -------------------------------
(***************************************************************************)
(* Desktop notifications about quotas (src/src/notify.rs).  Every refresh  *)
(* of an entry (a provider's account) that came off the wire, in whichever *)
(* frontend, is checked by a process of its own.  All entries share one    *)
(* state file under one lock: a window at or over the threshold is         *)
(* announced once per crossing, a banked credit once before it expires.    *)
(* The marks are saved before the notifier is called.                      *)
(*                                                                         *)
(* The provider is the environment.  A window's usage carries the number   *)
(* of its crossing, which grows whenever the window may be announced       *)
(* again: it fell below the re-arm band, or a new window opened.  Instants *)
(* are numbers; 0 is "not reported".  The _Bug forms are plausible         *)
(* mistakes; no specification uses them.                                   *)
(***************************************************************************)
EXTENDS Integers, Sequences, FiniteSets

CONSTANTS Procs, Windows, Credits,
          Entry,      \* the entry of a window or a credit
          Regen,      \* windows that refill bit by bit
          Silent,     \* windows without a reported reset
          Rolling,    \* windows whose reset slides along, or is not reported to the second
          Levels,     \* what a percentage may be
          Start,      \* the percentages the program finds when it first runs
          Threshold, Hysteresis, Tolerance,
          Span,       \* how far a new window or a refill moves the instant
          Step,       \* how far a rolling window slides between two fetches
          MaxChanges, MaxCrashes  \* bounds

ASSUME NotifyAssumption ==
  /\ {Threshold, Hysteresis, Tolerance, Span, Step, MaxChanges, MaxCrashes} \subseteq Nat
  /\ Levels \subseteq Nat /\ Threshold > 0 /\ Start \in [Windows -> Levels]
  /\ Span > 0
  /\ Regen \subseteq Windows /\ Silent \subseteq Windows /\ Rolling \subseteq Windows
  /\ Regen \cap Silent = {} /\ Rolling \cap (Regen \cup Silent) = {}
  /\ Windows \cap Credits = {}
  /\ DOMAIN Entry = Windows \cup Credits
  /\ "none" \notin Procs

VARIABLES
  usage,   \* the provider's account of each window
  credits, \* and of each banked credit: "far", "soon", "gone"
  marks,   \* notifications.json: per key, the reset it was announced for
  lock,    \* .notifications.lock
  proc,    \* the checks
  told,    \* per key, the crossings handed to the notifier and the resets they named, in order
  overtaken, \* history: the entries of which an older reading was decided after a newer
  count    \* bounds: changes, crashes

vars == <<usage, credits, marks, lock, proc, told, overtaken, count>>

Keys == Windows \cup Credits

Entries == {Entry[k] : k \in Keys}

Of(e, S) == {k \in S : Entry[k] = e}

Unmarked == -1

NoInstant == 0

RearmBelow == Threshold - Hysteresis

(***************************************************************************)
(* Where a check is: the entry, what was read of its windows and credits,  *)
(* the marks it found, what it has to tell, and the older readings of the  *)
(* entry that were not decided when it was made.                           *)
(***************************************************************************)
At(pc, entry, rows, listed, seen, toasts, older) ==
  [pc |-> pc, entry |-> entry, rows |-> rows, listed |-> listed, seen |-> seen,
   toasts |-> toasts, older |-> older]

NoMarks == [k \in Keys |-> Unmarked]

NoRows == [w \in {} |-> NoInstant]

Reading(e, rows, listed, older) == At("read", e, rows, listed, NoMarks, {}, older)

Deciding(c, seen) == At("locked", c.entry, c.rows, c.listed, seen, {}, {})

Telling(toasts) == At("toasts", "none", NoRows, {}, NoMarks, toasts, {})

Idle == At("idle", "none", NoRows, {}, NoMarks, {}, {})

Init ==
  /\ usage = [w \in Windows |-> [pct |-> Start[w], crossing |-> 1,
                                 reset |-> IF w \in Silent THEN NoInstant ELSE Span]]
  /\ credits = [c \in Credits |-> "far"]
  /\ marks = NoMarks
  /\ lock = "none"
  /\ proc = [p \in Procs |-> Idle]
  /\ told = [k \in Keys |-> <<>>]
  /\ overtaken = {}
  /\ count = [changes |-> 0, crashes |-> 0]

-----------------------------------------------------------------------------
(* The provider. *)

Change ==
  /\ count.changes < MaxChanges
  /\ count' = [count EXCEPT !.changes = @ + 1]
  /\ UNCHANGED <<marks, lock, proc, told, overtaken>>

Becomes(w, pct, reset, newWindow) ==
  /\ usage' = [usage EXCEPT ![w] =
       [pct |-> pct, reset |-> reset,
        crossing |-> IF newWindow \/ pct < RearmBelow THEN @.crossing + 1 ELSE @.crossing]]
  /\ UNCHANGED credits

(* More is used, or less: a correction, or old use that no longer counts. *)
Use(w, pct) ==
  /\ Change
  /\ pct # usage[w].pct
  /\ Becomes(w, pct, usage[w].reset, FALSE)

NewWindow(w, pct) ==
  /\ Change
  /\ w \notin Regen \cup Silent
  /\ Becomes(w, pct, usage[w].reset + Span, TRUE)

(* A refill tick gives back a part and names the next one. *)
Tick(w, pct) ==
  /\ Change
  /\ w \in Regen /\ pct <= usage[w].pct
  /\ Becomes(w, pct, usage[w].reset + Span, FALSE)

(* The same window, its reset reported a little later. *)
Slide(w) ==
  /\ Change
  /\ w \in Rolling
  /\ Becomes(w, usage[w].pct, usage[w].reset + Step, FALSE)

(* A credit comes within 48 hours of its expiry, and expires. *)
CreditAges(c) ==
  /\ Change
  /\ credits[c] # "gone"
  /\ credits' = [credits EXCEPT ![c] = IF @ = "far" THEN "soon" ELSE "gone"]
  /\ UNCHANGED usage

-----------------------------------------------------------------------------
(* decide *)

MovedLater_Strictly_Bug(reset, mark) == reset > mark

(* reset_moved_later; an instant where none was reported is a later one. *)
MovedLater(reset, mark) ==
  /\ reset # NoInstant
  /\ mark = NoInstant \/ reset - mark > Tolerance

Armed(w, reset, mark) ==
  \/ mark = Unmarked
  \/ w \notin Regen /\ MovedLater(reset, mark)

Crossed_AboveOnly_Bug(rows, seen) ==
  {w \in DOMAIN rows : rows[w].pct > Threshold /\ Armed(w, rows[w].reset, seen[w])}

Crossed(rows, seen) ==
  {w \in DOMAIN rows : rows[w].pct >= Threshold /\ Armed(w, rows[w].reset, seen[w])}

Dropped(rows) == {w \in DOMAIN rows : rows[w].pct < RearmBelow}

(* The credits to announce: close to their expiry and never announced. *)
Due(listed, seen) == {c \in listed : credits[c] = "soon" /\ seen[c] = Unmarked}

MarksAfter(rows, listed, seen) ==
  [k \in Keys |->
     IF k \in Dropped(rows) THEN Unmarked
     ELSE IF k \in Crossed(rows, seen) THEN rows[k].reset
     ELSE IF k \in Due(listed, seen) THEN NoInstant
     ELSE seen[k]]

Fired(rows, listed, seen) ==
  {[key |-> w, crossing |-> rows[w].crossing, reset |-> rows[w].reset] : w \in Crossed(rows, seen)}
  \cup {[key |-> c, crossing |-> 1, reset |-> NoInstant] : c \in Due(listed, seen)}

-----------------------------------------------------------------------------
(* run_at: one refresh off the wire, from its fetch to its toasts. *)

Waits(p, e) == proc[p].pc = "read" /\ proc[p].entry = e

(***************************************************************************)
(* The fetch, of all the entry's windows.  Another frontend's reading of   *)
(* the entry may still wait for its check.                                 *)
(***************************************************************************)
Read(p, e) ==
  /\ proc[p].pc = "idle"
  /\ proc' = [proc EXCEPT ![p] =
       Reading(e, [w \in Of(e, Windows) |-> usage[w]],
               {c \in Of(e, Credits) : credits[c] # "gone"}, {q \in Procs : Waits(q, e)})]
  /\ UNCHANGED <<usage, credits, marks, lock, told, overtaken, count>>

(* The readings that come after p's, without p among the older ones. *)
Without(p) == [q \in Procs |-> [proc[q] EXCEPT !.older = @ \ {p}]]

MayTake(p) == lock = "none"

TakeLock(p) ==
  /\ proc[p].pc = "read"
  /\ MayTake(p)
  /\ lock' = p
  /\ proc' = [Without(p) EXCEPT ![p] = Deciding(proc[p], marks)]
  /\ overtaken' = IF proc[p].older = {} THEN overtaken ELSE overtaken \cup {proc[p].entry}
  /\ UNCHANGED <<usage, credits, marks, told, count>>

(* A missed notification beats a double one. *)
LockTimesOut(p) ==
  /\ proc[p].pc = "read"
  /\ ~MayTake(p)
  /\ proc' = [Without(p) EXCEPT ![p] = Idle]
  /\ UNCHANGED <<usage, credits, marks, lock, told, overtaken, count>>

Save(p) ==
  LET c == proc[p] IN
  /\ c.pc = "locked"
  /\ marks' = MarksAfter(c.rows, c.listed, c.seen)
  /\ proc' = [proc EXCEPT ![p] = Telling(Fired(c.rows, c.listed, c.seen))]
  /\ UNCHANGED <<usage, credits, lock, told, overtaken, count>>

(* Nothing is announced that the file does not remember. *)
Unsaved == Telling({})

SaveFails(p) ==
  LET c == proc[p] IN
  /\ c.pc = "locked"
  /\ MarksAfter(c.rows, c.listed, c.seen) # c.seen
  /\ proc' = [proc EXCEPT ![p] = Unsaved]
  /\ UNCHANGED <<usage, credits, marks, lock, told, overtaken, count>>

Deliver(p) ==
  /\ proc[p].pc = "toasts"
  /\ \E t \in proc[p].toasts :
       /\ told' = [told EXCEPT ![t.key] = Append(@, [crossing |-> t.crossing, reset |-> t.reset])]
       /\ proc' = [proc EXCEPT ![p] = Telling(@.toasts \ {t})]
  /\ UNCHANGED <<usage, credits, marks, lock, overtaken, count>>

Done(p) ==
  /\ proc[p].pc = "toasts" /\ proc[p].toasts = {}
  /\ proc' = [proc EXCEPT ![p] = Idle]
  /\ lock' = IF lock = p THEN "none" ELSE lock
  /\ UNCHANGED <<usage, credits, marks, told, overtaken, count>>

(***************************************************************************)
(* The frontend exits, and the system drops its lock.  An exit before the  *)
(* lock is a check that was locked out.                                    *)
(***************************************************************************)
Crash(p) ==
  /\ lock = p
  /\ count.crashes < MaxCrashes
  /\ count' = [count EXCEPT !.crashes = @ + 1]
  /\ proc' = [proc EXCEPT ![p] = Idle]
  /\ lock' = "none"
  /\ UNCHANGED <<usage, credits, marks, told, overtaken>>

-----------------------------------------------------------------------------
Provider ==
  \/ \E w \in Windows :
       Slide(w) \/ \E pct \in Levels : Use(w, pct) \/ NewWindow(w, pct) \/ Tick(w, pct)
  \/ \E c \in Credits : CreditAges(c)

Check(p) ==
  \/ \E e \in Entries : Read(p, e)
  \/ TakeLock(p) \/ LockTimesOut(p) \/ Save(p) \/ SaveFails(p)
  \/ Deliver(p) \/ Done(p) \/ Crash(p)

Next == Provider \/ \E p \in Procs : Check(p)

Spec == Init /\ [][Next]_vars

Goes(p) == TakeLock(p) \/ LockTimesOut(p) \/ Save(p) \/ SaveFails(p) \/ Deliver(p) \/ Done(p)

(***************************************************************************)
(* Refreshes are made again and again, not always while another check      *)
(* runs; a check goes on to its end (a notifier that hangs is killed); and *)
(* the frontends are not locked out of every check of an entry, nor do     *)
(* they fail in every save for one.                                        *)
(***************************************************************************)
FairSpec ==
  /\ Spec
  /\ \A p \in Procs : WF_vars(Goes(p))
  /\ \A e \in {Entry[w] : w \in Windows} :
       /\ SF_vars(lock = "none" /\ \E p \in Procs : Read(p, e))
       /\ SF_vars(\E p \in Procs : proc[p].entry = e /\ TakeLock(p))
       /\ SF_vars(\E p \in Procs : proc[p].entry = e /\ Save(p))

-----------------------------------------------------------------------------
Usages == [pct : Levels, reset : Nat, crossing : Nat]

Toasts == [key : Keys, crossing : Nat, reset : Nat]

Announcements == [crossing : Nat, reset : Nat]

IsCheck(c) ==
  /\ c = At(c.pc, c.entry, c.rows, c.listed, c.seen, c.toasts, c.older)
  /\ c.pc \in {"idle", "read", "locked", "toasts"}
  /\ c.rows \in [DOMAIN c.rows -> Usages]
  /\ c.pc \in {"read", "locked"} => c.entry \in Entries /\ DOMAIN c.rows = Of(c.entry, Windows)
  /\ c.listed \subseteq Credits
  /\ c.toasts \subseteq Toasts
  /\ c.pc # "toasts" => c.toasts = {}
  /\ c.older \subseteq Procs

(***************************************************************************)
(* Who decides or tells holds the lock; what is decided is decided by the  *)
(* marks that are on the disk.                                             *)
(***************************************************************************)
TypeOK ==
  /\ usage \in [Windows -> Usages]
  /\ credits \in [Credits -> {"far", "soon", "gone"}]
  /\ marks \in [Keys -> Nat \cup {Unmarked}]
  /\ lock \in Procs \cup {"none"}
  /\ proc = [p \in Procs |-> proc[p]]
  /\ \A p \in Procs :
       /\ IsCheck(proc[p])
       /\ proc[p].pc \in {"locked", "toasts"} <=> lock = p
       /\ \A q \in proc[p].older : q # p /\ Waits(q, proc[p].entry)
       /\ proc[p].pc = "locked" => proc[p].seen = marks
  /\ told \in [Keys -> Seq(Announcements)]
  /\ overtaken \subseteq Entries
  /\ count \in [changes : Nat, crashes : Nat]

(***************************************************************************)
(* "One crossing is one notification": however many frontends refresh the  *)
(* same entries, no crossing of a window is announced twice while the      *)
(* readings of its entry are decided in their order, and no credit, in     *)
(* whatever order.  There is one exception: a reset that has slid by more  *)
(* than the tolerance, in however many slides, since the announcement is   *)
(* taken for a new window's, unless the window refills bit by bit.         *)
(***************************************************************************)
OnceUnlessSlid(k) ==
  \A i, j \in DOMAIN told[k] :
    i < j /\ told[k][i].crossing = told[k][j].crossing =>
      k \notin Regen /\ told[k][j].reset - told[k][i].reset > Tolerance

OneToastPerCrossing ==
  \A k \in Keys : (k \in Windows => Entry[k] \notin overtaken) => OnceUnlessSlid(k)

(***************************************************************************)
(* What decide's comment says without the exception: "The same crossing    *)
(* therefore never fires twice."  (The constant RESET_MOVE_TOLERANCE_SECS  *)
(* is said to cover a rolling window, which slides with each refresh.)     *)
(***************************************************************************)
NeverFiresTwice ==
  \A w \in Windows : Entry[w] \notin overtaken =>
    \A i, j \in DOMAIN told[w] : told[w][i].crossing = told[w][j].crossing => i = j

(***************************************************************************)
(* A window over the threshold and not marked is announced, whatever timed *)
(* out or failed before, unless it does not stay there or a frontend       *)
(* crashes on the way.                                                     *)
(***************************************************************************)
CrossingIsTold ==
  \A w \in Windows :
    (usage[w].pct >= Threshold /\ marks[w] = Unmarked)
      ~> \/ marks[w] # Unmarked /\ told[w] # <<>>
         \/ usage[w].pct < Threshold \/ count.crashes > 0
=============================================================================
