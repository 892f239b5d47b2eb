---------------------------- MODULE DesktopSwitch ----------------------------
(***************************************************************************)
(* Moving Claude Desktop between accounts: apply_switch of                 *)
(* src/src/claude_desktop/mod.rs, capture_profile of                       *)
(* src/src/claude_desktop/capture.rs, and the usage fetch that reads, and  *)
(* may refresh, the same tokens: account_target of                         *)
(* src/src/anthropic/desktop_creds.rs and the credential part of           *)
(* fetch_snapshot in src/src/anthropic/fetch.rs.                           *)
(*                                                                         *)
(* The application has one login: tokens and an account in config.json and *)
(* the browser state beside it.  Every saved account has a profile with    *)
(* both.  A switch and a capture stop the application, file the login they *)
(* find under its own account and put another one, or none, in its place.  *)
(* A running application renews its own tokens, which spends the old ones. *)
(* One lock keeps switches, captures and the renewal of saved tokens apart.*)
(*                                                                         *)
(* The conversations and routines a switch also merges are in              *)
(* DesktopHistory.  The _Bug forms are plausible mistakes; no              *)
(* specification uses them.                                                *)
(***************************************************************************)
EXTENDS Integers, Sequences, FiniteSets

CONSTANTS Accounts,    \* Claude accounts; a saved one's label stands for it
          None,        \* no account, no file
          Torn,        \* browser state that is part one account's, part another's
          MaxTroubles, \* bound: failing steps and crashes, a failing roll-back apart
          MaxTokens    \* bound: refresh tokens ever issued

ASSUME DesktopAssumption ==
  /\ None \notin Accounts /\ Torn \notin Accounts /\ None # Torn
  /\ MaxTroubles \in Nat /\ MaxTokens \in Nat
  /\ IsFiniteSet(Accounts) /\ Cardinality(Accounts) < MaxTokens  \* one each at the start

VARIABLES
  live,       \* config.json's account and token
  browser,    \* whose cookies and browser databases the application has
  app,        \* "up" or "down"
  saved,      \* the token and the browser state in each account's profile
  registered, \* the accounts with a meta.json
  prelogin,   \* the login the last capture put aside
  issued,     \* the account each refresh token was issued to, in order
  alive,      \* the refresh tokens the server still accepts
  op,         \* the switch or capture that holds the lock
  fetch,      \* the fetch of one saved account's usage
  excused,    \* history: accounts whose tokens a named exception has spoilt
  misfiled,   \* history: accounts whose profile a capture gave another's login
  mishaps,    \* history: "crash", "unrestored"
  closed,     \* history: why the application was left closed
  troubles    \* how many steps have failed

files == <<live, browser, saved, registered, prelogin>>
server == <<issued, alive>>
history == <<excused, misfiled, mishaps, closed>>
vars == <<files, app, server, op, fetch, history, troubles>>

NoToken == 0
Tokens == 1 .. MaxTokens
NoLogin == [acct |-> None, tok |-> NoToken]
NoProfile == [tok |-> NoToken, browser |-> None]
Aside == [live |-> live, browser |-> browser]
NoOp == [pc |-> "idle", kind |-> "none", label |-> None, tok |-> NoToken,
         found |-> [live |-> NoLogin, browser |-> None]]
NoFetch == [pc |-> "idle", acct |-> None, active |-> FALSE, moved |-> FALSE, tok |-> NoToken]

Copies(a) == {saved[a].tok} \cup IF live.acct = a THEN {live.tok} ELSE {}

(***************************************************************************)
(* The application runs as a saved account, whose profile has a token of   *)
(* its own or the live one, or as one nobody saved.                        *)
(***************************************************************************)
Init ==
  /\ registered \in SUBSET Accounts
  /\ LET last == Cardinality(registered) + 1 IN
       /\ issued \in [1 .. last -> Accounts]
       /\ \A a \in registered : \E i \in 1 .. last - 1 : issued[i] = a
       /\ alive \in {1 .. last, {i \in 1 .. last : issued[i] = issued[last] => i = last}}
       /\ live = [acct |-> issued[last], tok |-> last]
       /\ saved = [a \in Accounts |->
            IF a \in registered
            THEN [tok |-> CHOOSE i \in 1 .. last - 1 : issued[i] = a, browser |-> a]
            ELSE NoProfile]
  /\ browser = live.acct
  /\ app = "up"
  /\ prelogin = None
  /\ op = NoOp
  /\ fetch = NoFetch
  /\ excused = {}
  /\ misfiled = {}
  /\ mishaps = {}
  /\ closed = "no"
  /\ troubles = 0

Trouble == troubles < MaxTroubles /\ troubles' = troubles + 1
LockFree == op.pc = "idle" /\ fetch.pc \notin {"holding", "exchanged"}

At(kind, pc) == op.kind = kind /\ op.pc = pc
Go(pc) == op' = [op EXCEPT !.pc = pc]

(***************************************************************************)
(* Nobody reads what a capture put aside once it is over.                  *)
(***************************************************************************)
Leave(why) == op' = NoOp /\ prelogin' = None /\ closed' = why

(***************************************************************************)
(* The server spends a token and issues the next one to the same account.  *)
(***************************************************************************)
Renew(tok) ==
  /\ Len(issued) < MaxTokens
  /\ issued' = Append(issued, issued[tok])
  /\ alive' = (alive \ {tok}) \cup {Len(issued) + 1}

-----------------------------------------------------------------------------
(* The application. *)

AppRenews ==
  /\ app = "up"
  /\ live.tok \in alive
  /\ Renew(live.tok)
  /\ live' = [live EXCEPT !.tok = Len(issued) + 1]
  /\ UNCHANGED <<browser, app, saved, registered, prelogin, op, fetch, history, troubles>>

(***************************************************************************)
(* The user signs in, as any account, whenever the application runs, and   *)
(* gives up the login it had.  The account is written before the token.    *)
(* Bound: while a token can still be issued.                               *)
(***************************************************************************)
SavedCopyGood(a) == saved[a].tok \in alive \/ (fetch.pc = "exchanged" /\ fetch.acct = a)

AppSignsIn ==
  /\ app = "up"
  /\ Len(issued) < MaxTokens
  /\ \E a \in Accounts : live' = [NoLogin EXCEPT !.acct = a] /\ browser' = a
  /\ excused' = excused \cup {a \in registered : live.acct = a /\ ~SavedCopyGood(a)}
  /\ UNCHANGED <<app, saved, registered, prelogin, server, op, fetch, misfiled, mishaps, closed,
                 troubles>>

AppSignedIn ==
  /\ app = "up"
  /\ live.acct # None /\ live.tok = NoToken
  /\ Len(issued) < MaxTokens
  /\ issued' = Append(issued, live.acct)
  /\ alive' = alive \cup {Len(issued) + 1}
  /\ live' = [live EXCEPT !.tok = Len(issued) + 1]
  /\ UNCHANGED <<browser, app, saved, registered, prelogin, op, fetch, history, troubles>>

UserOpensApp ==
  /\ app = "down"
  /\ op.pc = "idle"
  /\ app' = "up"
  /\ closed' = "no"
  /\ UNCHANGED <<files, server, op, fetch, excused, misfiled, mishaps, troubles>>

-----------------------------------------------------------------------------
(* Switch and capture share the filing of the login they find. *)

(***************************************************************************)
(* Any complete profile may be asked for.  Its tokens are read here, before*)
(* the user has answered and the application has stopped.                  *)
(***************************************************************************)
PlanSwitch ==
  /\ LockFree
  /\ \E a \in registered :
       /\ saved[a].tok # NoToken /\ saved[a].browser # None
       /\ op' = [NoOp EXCEPT !.kind = "switch", !.pc = "quit", !.label = a, !.tok = saved[a].tok]
  /\ UNCHANGED <<files, app, server, fetch, history, troubles>>

(***************************************************************************)
(* A capture names its outgoing account now, a switch once Claude stopped. *)
(***************************************************************************)
BeginCapture ==
  /\ LockFree
  /\ op' = [NoOp EXCEPT !.kind = "capture", !.pc = "quit",
                        !.label = IF live.acct \in registered THEN live.acct ELSE None]
  /\ UNCHANGED <<files, app, server, fetch, history, troubles>>

Outgoing_PlannedLabel_Bug == IF live.acct \in registered THEN op.label ELSE None
Outgoing == IF op.kind = "capture" THEN op.label
            ELSE IF live.acct \in registered THEN live.acct ELSE None

AfterQuit == IF op.kind = "switch" THEN "archive" ELSE "snapshot"

Quit ==
  /\ op.pc = "quit"
  /\ app' = "down"
  /\ op' = [op EXCEPT !.pc = AfterQuit, !.found = Aside]
  /\ UNCHANGED <<files, server, fetch, history, troubles>>

(***************************************************************************)
(* The probe may fail after the application has stopped.  A switch opens   *)
(* it again; a capture returns at once.                                    *)
(***************************************************************************)
SwitchCannotQuit ==
  /\ At("switch", "quit")
  /\ Trouble
  /\ app' \in {app, "down"}
  /\ Go("relaunch")
  /\ UNCHANGED <<files, server, fetch, history>>

CaptureCannotQuit ==
  /\ op.kind = "capture" /\ op.pc \in {"quit", "giveup", "saving"}
  /\ Trouble
  /\ app' \in {app, "down"}
  /\ Leave(IF app' = "down" THEN "capture" ELSE "no")
  /\ UNCHANGED <<live, browser, saved, registered, server, fetch, excused, misfiled, mishaps>>

(***************************************************************************)
(* The archive holds the login; without it nothing has been touched.       *)
(***************************************************************************)
Archive ==
  /\ At("switch", "archive")
  /\ Go("history")
  /\ UNCHANGED <<files, app, server, fetch, history, troubles>>

CannotArchive ==
  /\ At("switch", "archive")
  /\ Trouble
  /\ Go("relaunch")
  /\ UNCHANGED <<files, app, server, fetch, history>>

MergeHistory ==
  /\ At("switch", "history")
  /\ Go("snapshot")
  /\ UNCHANGED <<files, app, server, fetch, history, troubles>>

OnError_NoRollback_Bug == "relaunch"
AfterSnapshot == IF op.kind = "switch" THEN "swap" ELSE "backup"
OnError == IF op.kind = "switch" THEN "rollback" ELSE "relaunch"

(***************************************************************************)
(* A login the user has signed in with since a capture named the outgoing  *)
(* one is filed under the name it has, or not at all.                      *)
(***************************************************************************)
NothingToSnapshot ==
  /\ op.pc = "snapshot"
  /\ Outgoing = None
  /\ Go(AfterSnapshot)
  /\ excused' = excused \cup (registered \cap {live.acct})
  /\ UNCHANGED <<files, app, server, fetch, misfiled, mishaps, closed, troubles>>

FilesAnothers(label) == op.kind = "capture" /\ label # live.acct
NoteFiling(label) ==
  /\ misfiled' = IF FilesAnothers(label) THEN misfiled \cup {label} ELSE misfiled
  /\ excused' = IF FilesAnothers(label) THEN excused \cup {label, live.acct} ELSE excused

(***************************************************************************)
(* A login without a token never replaces a saved one.                     *)
(***************************************************************************)
SnapshotRefused ==
  /\ op.pc = "snapshot"
  /\ Outgoing # None
  /\ live.tok = NoToken
  /\ Go(OnError)
  /\ UNCHANGED <<files, app, server, fetch, history, troubles>>

SnapshotTokens_OnlyIfMissing_Bug ==
  /\ op.pc = "snapshot"
  /\ Outgoing # None
  /\ live.tok # NoToken
  /\ saved' = IF saved[Outgoing].tok = NoToken THEN [saved EXCEPT ![Outgoing].tok = live.tok] ELSE saved
  /\ NoteFiling(Outgoing)
  /\ Go("state")
  /\ UNCHANGED <<live, browser, app, registered, prelogin, server, fetch, mishaps, closed,
                 troubles>>

SnapshotTokens ==
  /\ op.pc = "snapshot"
  /\ Outgoing # None
  /\ live.tok # NoToken
  /\ saved' = [saved EXCEPT ![Outgoing].tok = live.tok]
  /\ NoteFiling(Outgoing)
  /\ Go("state")
  /\ UNCHANGED <<live, browser, app, registered, prelogin, server, fetch, mishaps, closed,
                 troubles>>

SnapshotState ==
  /\ op.pc = "state"
  /\ saved' = [saved EXCEPT ![Outgoing].browser = browser]
  /\ Go(AfterSnapshot)
  /\ UNCHANGED <<live, browser, app, registered, prelogin, server, fetch, history, troubles>>

(***************************************************************************)
(* Copies are staged and renamed: a step that fails leaves its file alone. *)
(***************************************************************************)
StepFails ==
  /\ op.pc \in {"history", "snapshot", "state", "swap", "backup"}
  /\ Trouble
  /\ Go(OnError)
  /\ UNCHANGED <<files, app, server, fetch, history>>

-----------------------------------------------------------------------------
(* The rest of apply_switch. *)

SwapCredentials ==
  /\ At("switch", "swap")
  /\ live' = [acct |-> op.label, tok |-> op.tok]
  /\ Go("restore")
  /\ excused' = IF op.tok # saved[op.label].tok THEN excused \cup {op.label} ELSE excused
  /\ UNCHANGED <<browser, app, saved, registered, prelogin, server, fetch, misfiled, mishaps,
                 closed, troubles>>

RestoreState ==
  /\ At("switch", "restore")
  /\ browser' = saved[op.label].browser
  /\ Go("relaunch")
  /\ UNCHANGED <<live, app, saved, registered, prelogin, server, fetch, history, troubles>>

RestoreFails ==
  /\ At("switch", "restore")
  /\ Trouble
  /\ browser' = Torn
  /\ Go(OnError)
  /\ UNCHANGED <<live, app, saved, registered, prelogin, server, fetch, history>>

Rollback ==
  /\ At("switch", "rollback")
  /\ live' = op.found.live
  /\ browser' = op.found.browser
  /\ Go("relaunch")
  /\ UNCHANGED <<app, saved, registered, prelogin, server, fetch, history, troubles>>

(***************************************************************************)
(* What the archive would restore is removed before it is unpacked.        *)
(* Bound: once, after a step that failed or without, and after no crash.   *)
(***************************************************************************)
RollbackFails ==
  /\ At("switch", "rollback")
  /\ mishaps = {}
  /\ live' = NoLogin
  /\ browser' = Torn
  /\ Go("relaunch")
  /\ mishaps' = mishaps \cup {"unrestored"}
  /\ excused' = excused \cup {op.found.live.acct}
  /\ UNCHANGED <<app, saved, registered, prelogin, server, fetch, misfiled, closed,
                 troubles>>

Relaunch ==
  /\ op.pc = "relaunch"
  /\ app' = "up"
  /\ Leave("no")
  /\ UNCHANGED <<live, browser, saved, registered, server, fetch, excused, misfiled, mishaps,
                 troubles>>

CannotRelaunch ==
  /\ op.pc = "relaunch"
  /\ Trouble
  /\ Leave(IF app = "down" THEN "relaunch" ELSE "no")
  /\ UNCHANGED <<live, browser, saved, registered, app, server, fetch, excused, misfiled, mishaps>>

-----------------------------------------------------------------------------
(* The rest of capture_profile. *)

Backup ==
  /\ op.pc = "backup"
  /\ prelogin' = Aside
  /\ Go("clear")
  /\ UNCHANGED <<live, browser, app, saved, registered, server, fetch, history, troubles>>

Clear ==
  /\ op.pc = "clear"
  /\ live' = NoLogin
  /\ browser' = None
  /\ Go("login")
  /\ UNCHANGED <<app, saved, registered, prelogin, server, fetch, history, troubles>>

ClearFails ==
  /\ op.pc = "clear"
  /\ Trouble
  /\ live' \in {live, NoLogin}
  /\ browser' = IF live' = live THEN browser ELSE Torn
  /\ Go("undo")
  /\ UNCHANGED <<app, saved, registered, prelogin, server, fetch, history>>

OpenLogin ==
  /\ op.pc = "login"
  /\ app' = "up"
  /\ Go("wait")
  /\ UNCHANGED <<files, server, fetch, history, troubles>>

CannotOpenLogin ==
  /\ op.pc = "login"
  /\ Trouble
  /\ Go("undo")
  /\ UNCHANGED <<files, app, server, fetch, history>>

(***************************************************************************)
(* An account that is saved already is left as it is, and signed in.       *)
(***************************************************************************)
AlreadySaved ==
  /\ op.pc = "wait"
  /\ live.tok # NoToken
  /\ live.acct \in registered
  /\ Leave("no")
  /\ UNCHANGED <<live, browser, saved, registered, app, server, fetch, excused, misfiled, mishaps,
                 troubles>>

NewLogin ==
  /\ op.pc = "wait"
  /\ live.tok # NoToken
  /\ live.acct \notin registered
  /\ op' = [op EXCEPT !.pc = "saving", !.label = live.acct]
  /\ UNCHANGED <<files, app, server, fetch, history, troubles>>

(***************************************************************************)
(* The login does not come, or Ctrl-C does, before the account's           *)
(* organisation is known.                                                  *)
(***************************************************************************)
GiveUp ==
  /\ op.pc \in {"wait", "saving"}
  /\ Go("giveup")
  /\ UNCHANGED <<files, app, server, fetch, history, troubles>>

QuitAgain ==
  /\ op.pc \in {"giveup", "saving"}
  /\ app' = "down"
  /\ Go(IF op.pc = "giveup" THEN "putback" ELSE "keep")
  /\ UNCHANGED <<files, server, fetch, history, troubles>>

PutBack ==
  /\ op.pc \in {"putback", "undo"}
  /\ live' = prelogin.live
  /\ browser' = prelogin.browser
  /\ Go("relaunch")
  /\ UNCHANGED <<app, saved, registered, prelogin, server, fetch, history, troubles>>

(***************************************************************************)
(* After an error the application is opened all the same, after a          *)
(* cancelled sign-in it is not.                                            *)
(***************************************************************************)
PutBackFails ==
  /\ op.pc \in {"putback", "undo"}
  /\ Trouble
  /\ live' \in {live, prelogin.live}
  /\ browser' = Torn
  /\ IF op.pc = "undo" THEN Go("relaunch") /\ UNCHANGED <<prelogin, closed>> ELSE Leave("capture")
  /\ mishaps' = mishaps \cup {"unrestored"}
  /\ UNCHANGED <<app, saved, registered, server, fetch, excused, misfiled>>

(***************************************************************************)
(* What the application has when it has stopped is filed for the account   *)
(* that was seen signing in.                                               *)
(***************************************************************************)
KeepProfile ==
  /\ op.pc = "keep"
  /\ live.tok # NoToken
  /\ saved' = [saved EXCEPT ![op.label] = [tok |-> live.tok, browser |-> browser]]
  /\ NoteFiling(op.label)
  /\ Go("meta")
  /\ UNCHANGED <<live, browser, app, registered, prelogin, server, fetch, mishaps, closed,
                 troubles>>

WriteMeta ==
  /\ op.pc = "meta"
  /\ registered' = registered \cup {op.label}
  /\ Go("relaunch")
  /\ UNCHANGED <<live, browser, app, saved, prelogin, server, fetch, history, troubles>>

CannotKeep ==
  /\ op.pc \in {"keep", "meta"}
  /\ IF op.pc = "keep" /\ live.tok = NoToken THEN UNCHANGED troubles ELSE Trouble
  /\ saved' = [saved EXCEPT ![op.label] = NoProfile]
  /\ Go("undo")
  /\ UNCHANGED <<live, browser, app, registered, prelogin, server, fetch, history>>

Crash ==
  /\ op.pc # "idle"
  /\ Trouble
  /\ mishaps' = mishaps \cup {"crash"}
  /\ Leave(IF app = "down" THEN "crash" ELSE "no")
  /\ UNCHANGED <<live, browser, saved, registered, app, server, fetch, excused, misfiled>>

-----------------------------------------------------------------------------
(* The fetch of a saved account's usage. *)

(***************************************************************************)
(* Whose file to read is decided before the lock is asked for.             *)
(***************************************************************************)
Resolve ==
  /\ fetch.pc = "idle"
  /\ \E a \in registered :
       fetch' = [NoFetch EXCEPT !.pc = "resolved", !.acct = a, !.active = (live.acct = a)]
  /\ UNCHANGED <<files, app, server, op, history, troubles>>

LockAndRead ==
  /\ fetch.pc = "resolved"
  /\ LockFree
  /\ LET tok == IF fetch.active THEN live.tok ELSE saved[fetch.acct].tok IN
       IF tok = NoToken
       THEN fetch' = NoFetch
       ELSE fetch' = [fetch EXCEPT !.pc = "holding", !.tok = tok,
                                   !.moved = fetch.active /\ live.acct # fetch.acct]
  /\ UNCHANGED <<files, app, server, op, history, troubles>>

LockTimesOut ==
  /\ fetch.pc = "resolved"
  /\ ~LockFree
  /\ fetch' = NoFetch
  /\ UNCHANGED <<files, app, server, op, history, troubles>>

MayRefresh_Always_Bug == TRUE
MayRefresh == ~fetch.active

(***************************************************************************)
(* The saved token has expired.  Spending it also ends the live login when *)
(* the account has become the active one since it was resolved.            *)
(***************************************************************************)
Refresh ==
  /\ fetch.pc = "holding"
  /\ MayRefresh
  /\ fetch.tok \in alive
  /\ Renew(fetch.tok)
  /\ fetch' = [fetch EXCEPT !.pc = "exchanged", !.tok = Len(issued) + 1]
  /\ excused' = IF live.tok = fetch.tok /\ ~fetch.active
              THEN excused \cup {fetch.acct} ELSE excused
  /\ UNCHANGED <<files, app, op, misfiled, mishaps, closed, troubles>>

StoreRefreshed ==
  /\ fetch.pc = "exchanged"
  /\ saved' = [saved EXCEPT ![fetch.acct].tok = fetch.tok]
  /\ fetch' = [fetch EXCEPT !.pc = "holding"]
  /\ UNCHANGED <<live, browser, app, registered, prelogin, server, op, history, troubles>>

(***************************************************************************)
(* The write fails, which is reported, or the process dies before it.      *)
(***************************************************************************)
RefreshedIsLost ==
  /\ fetch.pc = "exchanged"
  /\ Trouble
  /\ fetch' = NoFetch
  /\ excused' = excused \cup {fetch.acct}
  /\ UNCHANGED <<files, app, server, op, misfiled, mishaps, closed>>

(***************************************************************************)
(* The lock is dropped and the usage asked for with what was read.         *)
(***************************************************************************)
Ask ==
  /\ fetch.pc = "holding"
  /\ fetch' = NoFetch
  /\ UNCHANGED <<files, app, server, op, history, troubles>>

Switch == PlanSwitch \/ SwitchCannotQuit \/ Archive \/ CannotArchive \/ MergeHistory
          \/ SwapCredentials \/ RestoreState \/ RestoreFails \/ Rollback \/ RollbackFails
Capture == BeginCapture \/ CaptureCannotQuit \/ Backup \/ Clear \/ ClearFails \/ OpenLogin
           \/ CannotOpenLogin \/ AlreadySaved \/ NewLogin \/ GiveUp \/ QuitAgain \/ PutBack
           \/ PutBackFails \/ KeepProfile \/ WriteMeta \/ CannotKeep
Both == Quit \/ NothingToSnapshot \/ SnapshotRefused \/ SnapshotTokens \/ SnapshotState
        \/ StepFails \/ Relaunch \/ CannotRelaunch \/ Crash
App == AppRenews \/ AppSignsIn \/ AppSignedIn \/ UserOpensApp
Fetch == Resolve \/ LockAndRead \/ LockTimesOut \/ Refresh \/ StoreRefreshed
         \/ RefreshedIsLost \/ Ask

Next == Switch \/ Capture \/ Both \/ App \/ Fetch

Spec == Init /\ [][Next]_vars

-----------------------------------------------------------------------------
Logins == [acct : Accounts \cup {None}, tok : Tokens \cup {NoToken}]
Asides == [live : Logins, browser : Accounts \cup {None, Torn}]
Profiles == [tok : Tokens \cup {NoToken}, browser : Accounts \cup {None, Torn}]

TypeOK ==
  /\ live \in Logins
  /\ browser \in Accounts \cup {None, Torn}
  /\ app \in {"up", "down"}
  /\ saved \in [Accounts -> Profiles]
  /\ registered \subseteq Accounts
  /\ prelogin \in Asides \cup {None}
  /\ issued \in Seq(Accounts) /\ Len(issued) <= MaxTokens
  /\ alive \subseteq 1 .. Len(issued)
  /\ op.label \in Accounts \cup {None} /\ op.tok \in 0 .. Len(issued) /\ op.found \in Asides
  /\ fetch.acct \in Accounts \cup {None} /\ fetch.tok \in 0 .. Len(issued)
  /\ excused \subseteq Accounts \cup {None}
  /\ misfiled \subseteq Accounts \cup {None}
  /\ mishaps \subseteq {"crash", "unrestored"}
  /\ closed \in {"no", "capture", "relaunch", "crash"}
  /\ troubles \in 0 .. MaxTroubles

(***************************************************************************)
(* Every saved account keeps a token the server accepts, in its profile,   *)
(* in the application, or in the hands of the fetch that has just          *)
(* exchanged it: no switch, capture, failure or crash throws the last copy *)
(* of a login away.  Named exceptions: a switch to the account already     *)
(* active puts the tokens it planned with over the ones it has just filed; *)
(* an answer to a refresh that is never stored; a token spent by a fetch   *)
(* that took an account for inactive which a switch has made active since; *)
(* an archive that cannot be unpacked; the only good copy, given up by the *)
(* user who signs in as somebody; a sign-in between a capture's naming the *)
(* outgoing account, or seeing the new one, and its stopping the           *)
(* application, which files another login under that name, or none.        *)
(***************************************************************************)
EveryLoginKept ==
  \A a \in registered \ excused :
    \/ Copies(a) \cap alive # {}
    \/ fetch.pc = "exchanged" /\ fetch.acct = a

(***************************************************************************)
(* The application is never left with a token somebody else has spent:     *)
(* switches put current tokens in place and the usage fetch renews only    *)
(* the tokens of accounts that are not active (same exceptions).           *)
(***************************************************************************)
AppKeepsItsLogin ==
  live.tok # NoToken /\ live.acct \notin excused => live.tok \in alive

(***************************************************************************)
(* No login is filed under another account: the tokens in a profile and in *)
(* the application were issued to the account named beside them, a         *)
(* profile's browser state is its account's as long as no crash and no     *)
(* failed roll-back has mixed the live one, and a fetch holds the token of *)
(* the account it asks for, although the user may sign in as another       *)
(* account until the moment the application stops.  Two exceptions, exact: *)
(* a profile a capture has filled with another login than the one it had   *)
(* named, and a fetch that took its account for the active one and found   *)
(* another login in the application once it had the lock.                  *)
(***************************************************************************)
FiledUnderItsOwn ==
  /\ \A a \in Accounts \ misfiled : saved[a].tok # NoToken => issued[saved[a].tok] = a
  /\ live.tok # NoToken /\ live.acct \notin misfiled => issued[live.tok] = live.acct
  /\ mishaps \cap {"crash", "unrestored"} = {} =>
       \A a \in Accounts \ misfiled : saved[a].browser \in {None, a}
  /\ fetch.pc = "holding" /\ fetch.acct \notin misfiled /\ ~fetch.moved
       => issued[fetch.tok] = fetch.acct

(***************************************************************************)
(* A switch or capture that is over, whichever of its steps failed, has    *)
(* left tokens and browser state of one account, as no crash or failed     *)
(* roll-back has torn them and no capture has given that account's profile *)
(* another login, and the application closed only for a reason:            *)
(* it could not be opened, the process died, or a capture returned early.  *)
(***************************************************************************)
EndsWhole ==
  op.pc = "idle" =>
    /\ mishaps \cap {"crash", "unrestored"} = {} /\ live.acct \notin misfiled
         => browser = live.acct
    /\ app = "down" => closed # "no"

(***************************************************************************)
(* While a capture waits for a new sign-in the login it put aside is the   *)
(* one it found, and still good: nothing renews its token, or swaps        *)
(* another login in, meanwhile.                                            *)
(***************************************************************************)
CaptureCanGoBack ==
  op.pc \in {"login", "wait", "saving", "giveup", "putback", "undo", "keep", "meta"} =>
    /\ prelogin = op.found
    /\ prelogin.live.tok # NoToken /\ prelogin.live.acct \notin excused
         => prelogin.live.tok \in alive

(***************************************************************************)
(* Switches and captures end well and can be taken back: the two together. *)
(***************************************************************************)
EndsWholeOrGoesBack == EndsWhole /\ CaptureCanGoBack
=============================================================================
