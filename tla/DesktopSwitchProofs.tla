------------------------- MODULE DesktopSwitchProofs -------------------------
(***************************************************************************)
(* Claude Desktop's switch and capture, next to the running application    *)
(* and the fetch of a saved account, for any accounts and any number of    *)
(* tokens and failures.  The stages of a switch and of a capture say what  *)
(* the files hold at each of them; from that, and from who was issued      *)
(* which token, follow that nothing is filed under another account, that   *)
(* every saved login and the application's own stay good, and that a       *)
(* switch or capture ends whole.                                           *)
(***************************************************************************)
EXTENDS DesktopSwitch, FiniteSetTheorems, TLAPS

Pcs == {"idle", "quit", "archive", "history", "snapshot", "state", "swap", "restore",
        "rollback", "relaunch", "backup", "clear", "login", "wait", "saving", "giveup",
        "putback", "undo", "keep", "meta"}
FetchPcs == {"idle", "resolved", "holding", "exchanged"}

Browsers == Accounts \cup {None, Torn}

OpType == op \in [pc : Pcs, kind : {"none", "switch", "capture"},
                  label : Accounts \cup {None}, tok : Nat, found : Asides]

FetchType ==
  /\ fetch \in [pc : FetchPcs, acct : Accounts \cup {None},
            active : BOOLEAN, moved : BOOLEAN, tok : Nat]
  /\ fetch.pc # "idle" => fetch.acct \in registered

FilesType ==
  /\ live \in Logins /\ browser \in Browsers
  /\ saved \in [Accounts -> Profiles]
  /\ registered \subseteq Accounts
  /\ prelogin \in Asides \cup {None}

ServerType ==
  /\ issued \in Seq(Accounts) /\ Len(issued) <= MaxTokens
  /\ alive \subseteq 1 .. Len(issued)

TokensAreIssued ==
  /\ live.tok <= Len(issued)
  /\ \A a \in Accounts : saved[a].tok <= Len(issued)
  /\ op.tok <= Len(issued) /\ op.found.live.tok <= Len(issued)
  /\ fetch.tok <= Len(issued)

RestType ==
  /\ app \in {"up", "down"}
  /\ excused \subseteq Accounts \cup {None}
  /\ misfiled \subseteq Accounts \cup {None}
  /\ mishaps \subseteq {"crash", "unrestored"}
  /\ closed \in {"no", "capture", "relaunch", "crash"}
  /\ troubles \in 0 .. MaxTroubles

-----------------------------------------------------------------------------
(* What the helpers do. *)

(***************************************************************************)
(* An operation moves on: nothing else about it changes.                   *)
(***************************************************************************)
LEMMA GoDoes ==
  ASSUME OpType, NEW pc \in Pcs, Go(pc)
  PROVE  /\ OpType'
         /\ op'.pc = pc /\ op'.kind = op.kind /\ op'.label = op.label
         /\ op'.tok = op.tok /\ op'.found = op.found
  BY DEF OpType, Go

(***************************************************************************)
(* An operation that is over.                                              *)
(***************************************************************************)
LEMMA NoOpIs ==
  /\ NoOp.pc = "idle" /\ NoOp.kind = "none" /\ NoOp.label = None /\ NoOp.tok = 0
  /\ NoOp.found.live = NoLogin /\ NoOp.found.browser = None
  /\ NoLogin.acct = None /\ NoLogin.tok = 0
  /\ NoOp \in [pc : Pcs, kind : {"none", "switch", "capture"},
               label : Accounts \cup {None}, tok : Nat, found : Asides]
  BY DEF NoOp, NoLogin, NoToken, Pcs, Asides, Logins

LEMMA LeaveDoes ==
  ASSUME NEW why, Leave(why)
  PROVE  /\ OpType' /\ op' = NoOp
         /\ op'.pc = "idle" /\ op'.kind = "none" /\ op'.label = None /\ op'.tok = 0
         /\ op'.found.live = NoLogin /\ op'.found.browser = None
         /\ op'.found.live.acct = None /\ op'.found.live.tok = 0
  BY NoOpIs DEF OpType, Leave

LEMMA NoFetchIs ==
  /\ NoFetch.pc = "idle" /\ NoFetch.acct = None /\ NoFetch.active = FALSE
  /\ NoFetch.moved = FALSE /\ NoFetch.tok = 0
  /\ NoFetch \in [pc : FetchPcs, acct : Accounts \cup {None},
            active : BOOLEAN, moved : BOOLEAN, tok : Nat]
  BY DEF NoFetch, NoToken, FetchPcs

(***************************************************************************)
(* The server's list grows by one token, and what it said stays.           *)
(***************************************************************************)
Grown(a) ==
  /\ issued' \in Seq(Accounts)
  /\ Len(issued) \in Nat /\ Len(issued') = Len(issued) + 1
  /\ Len(issued) < MaxTokens
  /\ \A i \in 1 .. Len(issued) : issued'[i] = issued[i]
  /\ issued'[Len(issued) + 1] = a

LEMMA AppendGrows ==
  ASSUME ServerType, NEW a \in Accounts, Len(issued) < MaxTokens,
         issued' = Append(issued, a)
  PROVE  Grown(a)
  BY DEF Grown, ServerType

LEMMA RenewDoes ==
  ASSUME ServerType, NEW tok \in alive, Renew(tok)
  PROVE  /\ Grown(issued[tok]) /\ issued[tok] \in Accounts
         /\ alive' = (alive \ {tok}) \cup {Len(issued) + 1}
         /\ ServerType'
<1>1. issued[tok] \in Accounts
  BY DEF ServerType
<1>2. Grown(issued[tok])
  BY <1>1, AppendGrows DEF Renew
<1>3. ServerType'
  <2>1. /\ MaxTokens \in Nat
        /\ Len(issued) \in Nat /\ Len(issued') = Len(issued) + 1
        /\ Len(issued) < MaxTokens
    BY <1>2, DesktopAssumption DEF Grown
  <2>2. /\ alive \subseteq 1 .. Len(issued)
        /\ alive' = (alive \ {tok}) \cup {Len(issued) + 1}
    BY DEF ServerType, Renew
  <2>3. Len(issued') <= MaxTokens
    BY <2>1
  <2>4. ASSUME NEW t \in alive' PROVE t \in 1 .. Len(issued')
    <3>1. CASE t \in alive
      BY <2>1, <2>2, <3>1
    <3>2. CASE t = Len(issued) + 1
      BY <2>1, <3>2
    <3> QED BY <2>2, <2>4, <3>1, <3>2
  <2> QED BY <1>2, <2>3, <2>4 DEF ServerType, Grown
<1> QED BY <1>1, <1>2, <1>3 DEF Renew

-----------------------------------------------------------------------------
(* The types. *)

TypeInv == FilesType /\ ServerType /\ TokensAreIssued /\ RestType /\ OpType /\ FetchType

(***************************************************************************)
(* The application runs under its own, newest token.                       *)
(***************************************************************************)
LEMMA StartIs ==
  ASSUME Init
  PROVE  /\ ServerType
         /\ live.acct \in Accounts /\ live.tok \in 1 .. Len(issued)
         /\ live.acct = issued[live.tok] /\ live.tok \in alive
         /\ live \in [acct : Accounts, tok : 1 .. Len(issued)]
         /\ registered \subseteq Accounts
         /\ saved \in [Accounts -> [tok : 0 .. Len(issued) - 1, browser : Accounts \cup {None}]]
         /\ \A a \in registered : /\ saved[a].tok \in 1 .. Len(issued) - 1
                                  /\ issued[saved[a].tok] = a
                                  /\ saved[a].browser = a
                                  /\ a # live.acct => saved[a].tok \in alive
         /\ \A a \in Accounts \ registered : saved[a] = NoProfile
<1> DEFINE last == Cardinality(registered) + 1
<1>1. registered \subseteq Accounts
  BY DEF Init
<1>2. last \in Nat /\ last \in 1 .. MaxTokens
  <2>1. IsFiniteSet(registered) /\ Cardinality(registered) <= Cardinality(Accounts)
    BY <1>1, DesktopAssumption, FS_Subset
  <2>2. Cardinality(registered) \in Nat /\ Cardinality(Accounts) \in Nat
    BY <2>1, DesktopAssumption, FS_CardinalityType
  <2> QED BY <2>1, <2>2, DesktopAssumption
<1>3. /\ issued \in [1 .. last -> Accounts]
      /\ \A a \in registered : \E i \in 1 .. last - 1 : issued[i] = a
      /\ alive \in {1 .. last, {i \in 1 .. last : issued[i] = issued[last] => i = last}}
      /\ live = [acct |-> issued[last], tok |-> last]
      /\ saved = [a \in Accounts |->
            IF a \in registered
            THEN [tok |-> CHOOSE i \in 1 .. last - 1 : issued[i] = a, browser |-> a]
            ELSE NoProfile]
  BY DEF Init
<1> HIDE DEF last
<1>4. issued \in Seq(Accounts) /\ Len(issued) = last
  BY <1>2, <1>3
<1>5. \A a \in registered : (CHOOSE i \in 1 .. last - 1 : issued[i] = a) \in 1 .. last - 1
                            /\ issued[CHOOSE i \in 1 .. last - 1 : issued[i] = a] = a
  BY <1>3
<1>6. live.acct = issued[last] /\ live.tok = last
  BY <1>3
<1>7. /\ live.acct \in Accounts /\ live.tok \in 1 .. Len(issued)
      /\ live.acct = issued[live.tok]
      /\ live \in [acct : Accounts, tok : 1 .. Len(issued)]
  BY <1>2, <1>3, <1>4, <1>6
<1>8. ServerType /\ live.tok \in alive
  BY <1>2, <1>3, <1>4, <1>6 DEF ServerType
<1>9. \A a \in registered : /\ saved[a].tok \in 1 .. last - 1
                           /\ issued[saved[a].tok] = a
                           /\ saved[a].browser = a
  BY <1>1, <1>3, <1>5
<1>10. \A a \in registered : a # live.acct => saved[a].tok \in alive
  BY <1>1, <1>2, <1>3, <1>6, <1>9
<1>11. \A a \in Accounts \ registered : saved[a] = NoProfile
  BY <1>3
<1>12. saved \in [Accounts -> [tok : 0 .. last - 1, browser : Accounts \cup {None}]]
  <2>1. ASSUME NEW a \in Accounts
        PROVE  saved[a] \in [tok : 0 .. last - 1, browser : Accounts \cup {None}]
    <3>1. CASE a \in registered
      BY <1>2, <1>3, <1>5, <3>1
    <3>2. CASE a \notin registered
      BY <1>2, <1>11, <3>2 DEF NoProfile, NoToken
    <3> QED BY <3>1, <3>2
  <2>2. saved = [a \in Accounts |-> saved[a]]
    BY <1>3
  <2> QED BY <2>1, <2>2
<1> QED BY <1>1, <1>4, <1>7, <1>8, <1>9, <1>10, <1>11, <1>12

(***************************************************************************)
(* No account is forgotten, and what was excused stays so.                 *)
(***************************************************************************)
LEMMA Grows ==
  ASSUME Next
  PROVE  /\ registered \subseteq registered' /\ excused \subseteq excused'
         /\ misfiled \subseteq misfiled'
<1>1. CASE Switch
  BY <1>1 DEF Switch, SwitchCannotQuit, Archive, CannotArchive, MergeHistory,
     SwapCredentials, RestoreState, RestoreFails, Rollback, RollbackFails, PlanSwitch,
     files, history
<1>2. CASE Capture
  BY <1>2 DEF Capture, BeginCapture, CaptureCannotQuit, AlreadySaved, NewLogin, PutBackFails,
     Backup, Clear, ClearFails, OpenLogin, CannotOpenLogin, GiveUp, QuitAgain,
     PutBack, KeepProfile, WriteMeta, CannotKeep, NoteFiling, files, history
<1>3. CASE Both
  BY <1>3 DEF Both, Quit, Relaunch, CannotRelaunch,
     Crash, NothingToSnapshot, SnapshotRefused, SnapshotTokens, SnapshotState, StepFails,
     NoteFiling, files, history
<1>4. CASE App \/ Fetch
  BY <1>4 DEF App, AppRenews, AppSignsIn, AppSignedIn, UserOpensApp, Fetch, Resolve,
     LockAndRead, LockTimesOut, Refresh, StoreRefreshed, RefreshedIsLost, Ask, files, history
<1> QED BY <1>1, <1>2, <1>3, <1>4 DEF Next

(***************************************************************************)
(* What each step does to the operation's stage.                           *)
(***************************************************************************)
LEMMA OpTypeStep ==
  ASSUME TypeInv, Next
  PROVE  OpType'
<1> USE DEF TypeInv
<1>a. ASSUME UNCHANGED op PROVE OpType'
  BY <1>a DEF OpType
<1>b. ASSUME NEW pc \in Pcs, Go(pc) PROVE OpType'
  BY <1>b, GoDoes
<1>1. CASE Switch
  <2>1. CASE PlanSwitch
    <3>1. PICK a \in registered :
            op' = [NoOp EXCEPT !.kind = "switch", !.pc = "quit", !.label = a, !.tok = saved[a].tok]
      BY <2>1 DEF PlanSwitch
    <3>2. a \in Accounts /\ saved[a].tok \in Nat
      BY <3>1, DesktopAssumption DEF FilesType, Profiles, Tokens, NoToken
    <3> QED BY <3>1, <3>2, NoOpIs DEF OpType, Pcs, NoOp
  <2>2. ASSUME ~PlanSwitch PROVE \E pc \in Pcs : Go(pc)
    BY <1>1, <2>2 DEF Switch, SwitchCannotQuit, Archive, CannotArchive, MergeHistory,
       SwapCredentials, RestoreState, RestoreFails, Rollback, RollbackFails, Pcs, OnError
  <2> QED BY <2>1, <2>2, <1>b
<1>2. CASE Capture
  <2>1. CASE BeginCapture
    <3>1. PICK a \in Accounts \cup {None} :
            op' = [NoOp EXCEPT !.kind = "capture", !.pc = "quit", !.label = a]
      BY <2>1 DEF BeginCapture, FilesType
    <3> QED BY <3>1, NoOpIs DEF OpType, Pcs, NoOp
  <2>2. CASE CaptureCannotQuit \/ AlreadySaved
    BY <2>2, LeaveDoes DEF CaptureCannotQuit, AlreadySaved
  <2>3. CASE NewLogin
    BY <2>3 DEF NewLogin, OpType, Pcs, FilesType, Logins
  <2>4. CASE PutBackFails
    BY <2>4, LeaveDoes, <1>b DEF PutBackFails, Pcs
  <2>5. CASE Backup \/ Clear \/ ClearFails \/ OpenLogin \/ CannotOpenLogin \/ GiveUp
             \/ QuitAgain \/ PutBack \/ KeepProfile \/ WriteMeta \/ CannotKeep
    <3>1. \E pc \in Pcs : Go(pc)
      BY <2>5 DEF Backup, Clear, ClearFails, OpenLogin, CannotOpenLogin, GiveUp, QuitAgain,
         PutBack, KeepProfile, WriteMeta, CannotKeep, Pcs
    <3> QED BY <3>1, <1>b
  <2> QED BY <1>2, <2>1, <2>2, <2>3, <2>4, <2>5 DEF Capture
<1>3. CASE Both
  <2>1. CASE Quit
    BY <2>1 DEF Quit, OpType, Pcs, AfterQuit, Aside, Asides, FilesType, Browsers
  <2>2. CASE Relaunch \/ CannotRelaunch \/ Crash
    BY <2>2, LeaveDoes DEF Relaunch, CannotRelaunch, Crash
  <2>3. CASE NothingToSnapshot \/ SnapshotRefused \/ SnapshotTokens \/ SnapshotState \/ StepFails
    <3>1. \E pc \in Pcs : Go(pc)
      BY <2>3 DEF NothingToSnapshot, SnapshotRefused, SnapshotTokens, SnapshotState, StepFails,
         Pcs, AfterSnapshot, OnError
    <3> QED BY <3>1, <1>b
  <2> QED BY <1>3, <2>1, <2>2, <2>3 DEF Both
<1>4. CASE App \/ Fetch
  <2>1. UNCHANGED op
    BY <1>4 DEF App, AppRenews, AppSignsIn, AppSignedIn, UserOpensApp, Fetch, Resolve,
       LockAndRead, LockTimesOut, Refresh, StoreRefreshed, RefreshedIsLost, Ask
  <2> QED BY <2>1, <1>a
<1> QED BY <1>1, <1>2, <1>3, <1>4 DEF Next

(***************************************************************************)
(* The fetch keeps its shape.                                              *)
(***************************************************************************)
LEMMA FetchTypeStep ==
  ASSUME TypeInv, Next
  PROVE  FetchType'
<1> USE DEF TypeInv
<1>1. CASE Switch \/ Capture \/ Both \/ App
  <2>1. UNCHANGED fetch
    BY <1>1 DEF Switch, SwitchCannotQuit, Archive, CannotArchive, MergeHistory,
       SwapCredentials, RestoreState, RestoreFails, Rollback, RollbackFails, PlanSwitch,
       Capture, BeginCapture, CaptureCannotQuit, AlreadySaved, NewLogin, PutBackFails,
       Backup, Clear, ClearFails, OpenLogin, CannotOpenLogin, GiveUp, QuitAgain,
       PutBack, KeepProfile, WriteMeta, CannotKeep, Both, Quit, Relaunch, CannotRelaunch,
       Crash, NothingToSnapshot, SnapshotRefused, SnapshotTokens, SnapshotState, StepFails,
       App, AppRenews, AppSignsIn, AppSignedIn, UserOpensApp
  <2> QED BY <2>1, Grows DEF FetchType
<1>2. CASE Resolve
  <2>1. PICK a \in registered :
          fetch' = [NoFetch EXCEPT !.pc = "resolved", !.acct = a, !.active = (live.acct = a)]
    BY <1>2 DEF Resolve
  <2>2. a \in Accounts
    BY <2>1 DEF FilesType
  <2> QED BY <1>2, <2>1, <2>2, NoFetchIs DEF Resolve, files, FetchType, FetchPcs, NoFetch
<1>3. CASE LockAndRead
  <2> DEFINE tok == IF fetch.active THEN live.tok ELSE saved[fetch.acct].tok
  <2>1. CASE tok = NoToken
    BY <1>3, <2>1, NoFetchIs DEF LockAndRead, FetchType
  <2>2. CASE tok # NoToken
    <3> DEFINE moved == fetch.active /\ live.acct # fetch.acct
    <3>1. fetch' = [fetch EXCEPT !.pc = "holding", !.tok = tok, !.moved = moved]
      BY <1>3, <2>2 DEF LockAndRead
    <3>2. fetch.pc # "idle" /\ UNCHANGED registered
      BY <1>3 DEF LockAndRead, files
    <3>3. fetch.acct \in Accounts
      BY <3>2 DEF FetchType, FilesType
    <3>4. live.tok \in Nat /\ saved[fetch.acct].tok \in Nat
      BY <3>3, DesktopAssumption DEF FilesType, Logins, Profiles, Tokens, NoToken
    <3>5. tok \in Nat
      BY <3>4
    <3>5a. moved \in BOOLEAN
      OBVIOUS
    <3> HIDE DEF tok, moved
    <3>6. fetch' \in [pc : FetchPcs, acct : Accounts \cup {None},
            active : BOOLEAN, moved : BOOLEAN, tok : Nat]
      BY <3>1, <3>5, <3>5a DEF FetchType, FetchPcs
    <3>7. fetch'.acct = fetch.acct
      BY <3>1 DEF FetchType
    <3>8. fetch.acct \in registered'
      BY <3>2 DEF FetchType
    <3> QED BY <3>6, <3>7, <3>8 DEF FetchType
  <2> QED BY <2>1, <2>2
<1>4. CASE LockTimesOut \/ RefreshedIsLost \/ Ask
  BY <1>4, NoFetchIs DEF LockTimesOut, RefreshedIsLost, Ask, FetchType
<1>5. CASE Refresh
  <2>1. Len(issued) + 1 \in Nat
    BY DEF ServerType
  <2>2. fetch' = [fetch EXCEPT !.pc = "exchanged", !.tok = Len(issued) + 1]
    BY <1>5 DEF Refresh
  <2>3. PICK fresh \in Nat : fetch' = [fetch EXCEPT !.pc = "exchanged", !.tok = fresh]
    BY <2>1, <2>2, Zenon
  <2>4. /\ fetch' \in [pc : FetchPcs, acct : Accounts \cup {None},
            active : BOOLEAN, moved : BOOLEAN, tok : Nat]
        /\ fetch'.acct = fetch.acct
    BY <2>3 DEF FetchType, FetchPcs
  <2>5. fetch.acct \in registered
    BY <1>5 DEF Refresh, FetchType
  <2>6. UNCHANGED registered
    BY <1>5 DEF Refresh, files
  <2> QED BY <2>4, <2>5, <2>6 DEF FetchType
<1>6. CASE StoreRefreshed
  BY <1>6, Grows DEF Next, Fetch, StoreRefreshed, FetchType, FetchPcs
<1> QED BY <1>1, <1>2, <1>3, <1>4, <1>5, <1>6 DEF Next, Fetch


(***************************************************************************)
(* A token that was issued, or none.                                       *)
(***************************************************************************)
LEMMA TokensAre ==
  ASSUME TypeInv
  PROVE  /\ Len(issued) \in Nat /\ Len(issued) <= MaxTokens /\ MaxTokens \in Nat
         /\ live.tok \in 0 .. Len(issued)
         /\ \A a \in Accounts : saved[a].tok \in 0 .. Len(issued)
         /\ op.tok \in 0 .. Len(issued) /\ fetch.tok \in 0 .. Len(issued)
         /\ op.found.live.tok \in 0 .. Len(issued)
         /\ Len(issued) < MaxTokens => Len(issued) + 1 \in Tokens
         /\ \A t \in 0 .. Len(issued) : t \in Tokens \cup {NoToken}
<1> USE DesktopAssumption DEF TypeInv, Tokens, NoToken
<1>1. Len(issued) \in Nat
  BY DEF ServerType
<1>2. live.tok \in Nat /\ op.found.live.tok \in Nat
  BY DEF FilesType, Logins, OpType, Asides
<1>3. \A a \in Accounts : saved[a].tok \in Nat
  BY DEF FilesType, Profiles
<1>4. op.tok \in Nat /\ fetch.tok \in Nat
  BY DEF OpType, FetchType
<1> QED BY <1>1, <1>2, <1>3, <1>4 DEF TokensAreIssued, ServerType

(***************************************************************************)
(* The server's list and what it accepts.                                  *)
(***************************************************************************)
Issues(a) ==
  /\ Grown(a)
  /\ ServerType'
  /\ Len(issued) + 1 \in alive'

LEMMA AppRenewsDoes ==
  ASSUME TypeInv, AppRenews
  PROVE  Issues(issued[live.tok]) /\ live' = [live EXCEPT !.tok = Len(issued) + 1]
         /\ alive' = (alive \ {live.tok}) \cup {Len(issued) + 1}
<1>1. ServerType /\ live.tok \in alive /\ Renew(live.tok)
  BY DEF TypeInv, AppRenews
<1>2. /\ Grown(issued[live.tok]) /\ ServerType'
      /\ alive' = (alive \ {live.tok}) \cup {Len(issued) + 1}
  BY <1>1, RenewDoes
<1> QED BY <1>2 DEF AppRenews, Issues

LEMMA AppSignedInDoes ==
  ASSUME TypeInv, AppSignedIn
  PROVE  Issues(live.acct) /\ live' = [live EXCEPT !.tok = Len(issued) + 1]
         /\ alive' = alive \cup {Len(issued) + 1}
<1>1. live.acct \in Accounts
  BY DEF TypeInv, AppSignedIn, FilesType, Logins
<1>2. Grown(live.acct)
  BY <1>1, AppendGrows DEF TypeInv, AppSignedIn
<1>3. ServerType'
  BY <1>2, DesktopAssumption DEF TypeInv, AppSignedIn, ServerType, Grown
<1>4. Len(issued) + 1 \in alive'
  BY DEF AppSignedIn
<1> QED BY <1>2, <1>3, <1>4 DEF AppSignedIn, Issues

LEMMA RefreshDoes ==
  ASSUME TypeInv, Refresh
  PROVE  /\ Issues(issued[fetch.tok])
         /\ fetch' = [fetch EXCEPT !.pc = "exchanged", !.tok = Len(issued) + 1]
         /\ alive' = (alive \ {fetch.tok}) \cup {Len(issued) + 1}
<1>1. ServerType /\ fetch.tok \in alive /\ Renew(fetch.tok)
  BY DEF TypeInv, Refresh
<1>2. /\ Grown(issued[fetch.tok]) /\ ServerType'
      /\ alive' = (alive \ {fetch.tok}) \cup {Len(issued) + 1}
  BY <1>1, RenewDoes
<1> QED BY <1>2 DEF Refresh, Issues

(***************************************************************************)
(* The steps that leave the server alone, and the three that do not.       *)
(***************************************************************************)
LEMMA ServerRests ==
  ASSUME Next, ~AppRenews, ~AppSignedIn, ~Refresh
  PROVE  UNCHANGED server
<1>1. CASE Switch
  BY <1>1 DEF Switch, SwitchCannotQuit, Archive, CannotArchive, MergeHistory,
     SwapCredentials, RestoreState, RestoreFails, Rollback, RollbackFails, PlanSwitch
<1>2. CASE Capture
  BY <1>2 DEF Capture, BeginCapture, CaptureCannotQuit, AlreadySaved, NewLogin, PutBackFails,
     Backup, Clear, ClearFails, OpenLogin, CannotOpenLogin, GiveUp, QuitAgain,
     PutBack, KeepProfile, WriteMeta, CannotKeep
<1>3. CASE Both
  BY <1>3 DEF Both, Quit, Relaunch, CannotRelaunch,
     Crash, NothingToSnapshot, SnapshotRefused, SnapshotTokens, SnapshotState, StepFails
<1>4. CASE App \/ Fetch
  BY <1>4 DEF App, AppSignsIn, UserOpensApp, Fetch, Resolve,
     LockAndRead, LockTimesOut, StoreRefreshed, RefreshedIsLost, Ask
<1> QED BY <1>1, <1>2, <1>3, <1>4 DEF Next

LEMMA ServerTypeStep ==
  ASSUME TypeInv, Next
  PROVE  /\ ServerType'
         /\ Len(issued) \in Nat /\ Len(issued') \in Nat /\ Len(issued) <= Len(issued')
         /\ \A i \in 1 .. Len(issued) : issued'[i] = issued[i]
<1>1. CASE AppRenews \/ AppSignedIn \/ Refresh
  BY <1>1, AppRenewsDoes, AppSignedInDoes, RefreshDoes DEF Issues, Grown
<1>2. CASE ~(AppRenews \/ AppSignedIn \/ Refresh)
  <2>1. issued' = issued /\ alive' = alive
    BY <1>2, ServerRests DEF server
  <2>2. ServerType'
    BY <2>1 DEF TypeInv, ServerType
  <2>3. Len(issued) \in Nat
    BY DEF TypeInv, ServerType
  <2> QED BY <2>1, <2>2, <2>3
<1> QED BY <1>1, <1>2

(***************************************************************************)
(* The two steps that file a login, and note whose.                        *)
(***************************************************************************)
LEMMA MisfiledMoves ==
  ASSUME Next
  PROVE  \/ misfiled' = misfiled
         \/ /\ SnapshotTokens /\ FilesAnothers(Outgoing)
            /\ misfiled' = misfiled \cup {Outgoing}
            /\ excused' = excused \cup {Outgoing, live.acct}
         \/ /\ KeepProfile /\ FilesAnothers(op.label)
            /\ misfiled' = misfiled \cup {op.label}
            /\ excused' = excused \cup {op.label, live.acct}
<1>1. CASE Switch
  BY <1>1 DEF Switch, PlanSwitch, SwitchCannotQuit, Archive, CannotArchive, MergeHistory,
     SwapCredentials, RestoreState, RestoreFails, Rollback, RollbackFails, history
<1>2. CASE Capture
  BY <1>2 DEF Capture, BeginCapture, CaptureCannotQuit, Backup, Clear, ClearFails, OpenLogin,
     CannotOpenLogin, AlreadySaved, NewLogin, GiveUp, QuitAgain, PutBack, PutBackFails,
     KeepProfile, WriteMeta, CannotKeep, NoteFiling, history
<1>3. CASE Both
  BY <1>3 DEF Both, Quit, NothingToSnapshot, SnapshotRefused, SnapshotTokens, SnapshotState,
     StepFails, Relaunch, CannotRelaunch, Crash, NoteFiling, history
<1>4. CASE App
  BY <1>4 DEF App, AppRenews, AppSignsIn, AppSignedIn, UserOpensApp, history
<1>5. CASE Fetch
  BY <1>5 DEF Fetch, Resolve, LockAndRead, LockTimesOut, Refresh, StoreRefreshed,
     RefreshedIsLost, Ask, history
<1> QED BY <1>1, <1>2, <1>3, <1>4, <1>5 DEF Next

LEMMA RestTypeStep ==
  ASSUME TypeInv, Next
  PROVE  RestType'
<1>1. app' \in {"up", "down"}
  <2> USE DEF TypeInv, RestType
  <2>1. CASE Switch
    BY <2>1 DEF Switch, SwitchCannotQuit, Archive, CannotArchive, MergeHistory,
       SwapCredentials, RestoreState, RestoreFails, Rollback, RollbackFails, PlanSwitch
  <2>2. CASE Capture
    BY <2>2 DEF Capture, BeginCapture, CaptureCannotQuit, AlreadySaved, NewLogin, PutBackFails,
       Backup, Clear, ClearFails, OpenLogin, CannotOpenLogin, GiveUp, QuitAgain,
       PutBack, KeepProfile, WriteMeta, CannotKeep
  <2>3. CASE Both
    BY <2>3 DEF Both, Quit, Relaunch, CannotRelaunch,
       Crash, NothingToSnapshot, SnapshotRefused, SnapshotTokens, SnapshotState, StepFails
  <2>4. CASE App
    BY <2>4 DEF App, AppRenews, AppSignsIn, AppSignedIn, UserOpensApp
  <2>5. CASE Fetch
    BY <2>5 DEF Fetch, Resolve,
       LockAndRead, LockTimesOut, Refresh, StoreRefreshed, RefreshedIsLost, Ask
  <2> QED BY <2>1, <2>2, <2>3, <2>4, <2>5 DEF Next
<1>2. excused' \subseteq Accounts \cup {None}
  <2> USE DEF TypeInv, RestType, history
  <2>a. op.label \in Accounts \cup {None} /\ op.found.live.acct \in Accounts \cup {None}
    BY DEF OpType, Asides, Logins
  <2>b. fetch.acct \in Accounts \cup {None}
    BY DEF FetchType
  <2>c. live.acct \in Accounts \cup {None} /\ registered \subseteq Accounts
    BY DEF FilesType, Logins
  <2>d. Outgoing \in Accounts \cup {None}
    BY <2>a, <2>c DEF Outgoing
  <2>1. CASE Switch
    BY <2>1, <2>a, <2>b DEF Switch, SwitchCannotQuit, Archive, CannotArchive, MergeHistory,
       SwapCredentials, RestoreState, RestoreFails, Rollback, RollbackFails, PlanSwitch
  <2>2. CASE Capture
    BY <2>2, <2>a, <2>c DEF Capture, BeginCapture, CaptureCannotQuit, AlreadySaved, NewLogin, PutBackFails,
       Backup, Clear, ClearFails, OpenLogin, CannotOpenLogin, GiveUp, QuitAgain,
       PutBack, KeepProfile, WriteMeta, CannotKeep, NoteFiling
  <2>3. CASE Both
    BY <2>3, <2>c, <2>d DEF Both, Quit, Relaunch, CannotRelaunch,
       Crash, NothingToSnapshot, SnapshotRefused, SnapshotTokens, SnapshotState, StepFails,
       NoteFiling
  <2>4. CASE App
    BY <2>4, <2>c DEF App, AppRenews, AppSignsIn, AppSignedIn, UserOpensApp
  <2>5. CASE Fetch
    BY <2>5, <2>a, <2>b DEF Fetch, Resolve,
       LockAndRead, LockTimesOut, Refresh, StoreRefreshed, RefreshedIsLost, Ask
  <2> QED BY <2>1, <2>2, <2>3, <2>4, <2>5 DEF Next
<1>7. misfiled' \subseteq Accounts \cup {None}
  <2>1. misfiled' = misfiled \/ (\E l \in {Outgoing, op.label} : misfiled' = misfiled \cup {l})
    BY MisfiledMoves
  <2>2. op.label \in Accounts \cup {None} /\ live.acct \in Accounts \cup {None}
    BY DEF TypeInv, OpType, FilesType, Logins
  <2>3. Outgoing \in Accounts \cup {None}
    BY <2>2 DEF Outgoing
  <2> QED BY <2>1, <2>2, <2>3 DEF TypeInv, RestType
<1>3. mishaps' \subseteq {"crash", "unrestored"}
  <2> USE DEF TypeInv, RestType, history
  <2>1. CASE Switch
    BY <2>1 DEF Switch, SwitchCannotQuit, Archive, CannotArchive, MergeHistory,
       SwapCredentials, RestoreState, RestoreFails, Rollback, RollbackFails, PlanSwitch
  <2>2. CASE Capture
    BY <2>2 DEF Capture, BeginCapture, CaptureCannotQuit, AlreadySaved, NewLogin, PutBackFails,
       Backup, Clear, ClearFails, OpenLogin, CannotOpenLogin, GiveUp, QuitAgain,
       PutBack, KeepProfile, WriteMeta, CannotKeep
  <2>3. CASE Both
    BY <2>3 DEF Both, Quit, Relaunch, CannotRelaunch,
       Crash, NothingToSnapshot, SnapshotRefused, SnapshotTokens, SnapshotState, StepFails
  <2>4. CASE App
    BY <2>4 DEF App, AppRenews, AppSignsIn, AppSignedIn, UserOpensApp
  <2>5. CASE Fetch
    BY <2>5 DEF Fetch, Resolve,
       LockAndRead, LockTimesOut, Refresh, StoreRefreshed, RefreshedIsLost, Ask
  <2> QED BY <2>1, <2>2, <2>3, <2>4, <2>5 DEF Next
<1>4. closed' \in {"no", "capture", "relaunch", "crash"}
  <2> USE DEF TypeInv, RestType, history, Leave
  <2>1. CASE Switch
    BY <2>1 DEF Switch, SwitchCannotQuit, Archive, CannotArchive, MergeHistory,
       SwapCredentials, RestoreState, RestoreFails, Rollback, RollbackFails, PlanSwitch
  <2>2. CASE Capture
    BY <2>2 DEF Capture, BeginCapture, CaptureCannotQuit, AlreadySaved, NewLogin, PutBackFails,
       Backup, Clear, ClearFails, OpenLogin, CannotOpenLogin, GiveUp, QuitAgain,
       PutBack, KeepProfile, WriteMeta, CannotKeep
  <2>3. CASE Both
    BY <2>3 DEF Both, Quit, Relaunch, CannotRelaunch,
       Crash, NothingToSnapshot, SnapshotRefused, SnapshotTokens, SnapshotState, StepFails
  <2>4. CASE App
    BY <2>4 DEF App, AppRenews, AppSignsIn, AppSignedIn, UserOpensApp
  <2>5. CASE Fetch
    BY <2>5 DEF Fetch, Resolve,
       LockAndRead, LockTimesOut, Refresh, StoreRefreshed, RefreshedIsLost, Ask
  <2> QED BY <2>1, <2>2, <2>3, <2>4, <2>5 DEF Next
<1>5. troubles' = troubles \/ Trouble
  <2>1. CASE Switch
    BY <2>1 DEF Switch, SwitchCannotQuit, Archive, CannotArchive, MergeHistory,
       SwapCredentials, RestoreState, RestoreFails, Rollback, RollbackFails, PlanSwitch
  <2>2. CASE Capture
    BY <2>2 DEF Capture, BeginCapture, CaptureCannotQuit, AlreadySaved, NewLogin, PutBackFails,
       Backup, Clear, ClearFails, OpenLogin, CannotOpenLogin, GiveUp, QuitAgain,
       PutBack, KeepProfile, WriteMeta, CannotKeep
  <2>3. CASE Both
    BY <2>3 DEF Both, Quit, Relaunch, CannotRelaunch,
       Crash, NothingToSnapshot, SnapshotRefused, SnapshotTokens, SnapshotState, StepFails
  <2>4. CASE App
    BY <2>4 DEF App, AppRenews, AppSignsIn, AppSignedIn, UserOpensApp
  <2>5. CASE Fetch
    BY <2>5 DEF Fetch, Resolve,
       LockAndRead, LockTimesOut, Refresh, StoreRefreshed, RefreshedIsLost, Ask
  <2> QED BY <2>1, <2>2, <2>3, <2>4, <2>5 DEF Next
<1>6. troubles' \in 0 .. MaxTroubles
  BY <1>5, DesktopAssumption DEF Trouble, TypeInv, RestType
<1> QED BY <1>1, <1>2, <1>3, <1>4, <1>6, <1>7 DEF RestType

-----------------------------------------------------------------------------
(* The stages of a switch and of a capture, and what the files hold then.  *)

OfASwitch == {"archive", "history", "swap", "restore", "rollback"}
OfACapture == {"backup", "clear", "login", "wait", "saving", "giveup", "putback", "undo",
               "keep", "meta"}
Stopped == {"archive", "history", "snapshot", "state", "swap", "restore", "rollback",
            "backup", "clear", "login", "putback", "undo", "keep", "meta"}
Untouched == {"archive", "history", "snapshot", "state", "swap", "backup", "clear"}
PutAside == OfACapture \ {"backup"}
SignedIn == {"saving", "keep", "meta"}

(***************************************************************************)
(* A switch is to an account that is saved, with a token.  The application *)
(* is stopped, or open for the user to sign in.                            *)
(***************************************************************************)
Course ==
  /\ op.pc = "idle" <=> op.kind = "none"
  /\ op.pc \in OfASwitch => op.kind = "switch"
  /\ op.pc \in OfACapture => op.kind = "capture"
  /\ op.kind = "switch" => op.label \in registered /\ op.tok # NoToken
  /\ op.pc \in Stopped => app = "down"
  /\ op.pc \in {"wait", "saving"} => app = "up"

(***************************************************************************)
(* Before anything was written the application's login is the one that was *)
(* found; from then on it is the one that was put in its place, or, in a   *)
(* roll-back, still the one that was found.                                *)
(***************************************************************************)
Swapped == live = [acct |-> op.label, tok |-> op.tok]

LiveIs ==
  /\ op.pc \in Untouched => op.found = Aside
  /\ op.pc \in PutAside => prelogin = op.found
  /\ op.pc = "restore" => Swapped
  /\ op.pc = "rollback" => live = op.found.live \/ Swapped
  /\ op.pc = "login" => live = NoLogin

(***************************************************************************)
(* A capture files what it finds under the saved account it named first,   *)
(* and what signed in under an account that was not saved: their own, or   *)
(* it is noted.                                                            *)
(***************************************************************************)
FiledAs(label) == label = live.acct \/ label \in misfiled

LabelIs ==
  /\ op.kind = "capture" /\ op.pc \in {"quit", "snapshot", "state"} =>
       op.label \in registered \cup {None}
  /\ op.pc = "state" => Outgoing # None /\ FiledAs(Outgoing)
  /\ op.pc \in SignedIn => op.label \notin registered /\ op.label # None
  /\ op.pc = "meta" => /\ saved[op.label].tok = live.tok /\ live.tok # NoToken
                       /\ FiledAs(op.label)

(***************************************************************************)
(* Who holds the lock; and a token just exchanged is nobody else's.        *)
(***************************************************************************)
LockInv ==
  /\ op.pc # "idle" => fetch.pc \in {"idle", "resolved"}
  /\ fetch.pc \in {"holding", "exchanged"} => fetch.tok # NoToken
  /\ fetch.pc = "exchanged" => /\ ~fetch.active
                               /\ fetch.tok \in alive /\ fetch.tok # live.tok

Stages == Course /\ LiveIs /\ LabelIs /\ LockInv

-----------------------------------------------------------------------------
(* What each step makes of the application's login. *)

LEMMA LiveMoves ==
  ASSUME Next
  PROVE  \/ live' = live
         \/ SwapCredentials \/ Rollback \/ RollbackFails \/ Clear \/ ClearFails
         \/ PutBack \/ PutBackFails \/ AppSignsIn \/ AppRenews \/ AppSignedIn
<1>1. CASE Switch
  BY <1>1 DEF Switch, PlanSwitch, SwitchCannotQuit, Archive, CannotArchive, MergeHistory,
     SwapCredentials, RestoreState, RestoreFails, Rollback, RollbackFails, files
<1>2. CASE Capture
  BY <1>2 DEF Capture, BeginCapture, CaptureCannotQuit, Backup, Clear, ClearFails, OpenLogin,
     CannotOpenLogin, AlreadySaved, NewLogin, GiveUp, QuitAgain, PutBack, PutBackFails,
     KeepProfile, WriteMeta, CannotKeep, files
<1>3. CASE Both
  BY <1>3 DEF Both, Quit, NothingToSnapshot, SnapshotRefused, SnapshotTokens, SnapshotState,
     StepFails, Relaunch, CannotRelaunch, Crash, files
<1>4. CASE App
  BY <1>4 DEF App, AppRenews, AppSignsIn, AppSignedIn, UserOpensApp, files
<1>5. CASE Fetch
  BY <1>5 DEF Fetch, Resolve, LockAndRead, LockTimesOut, Refresh, StoreRefreshed,
     RefreshedIsLost, Ask, files
<1> QED BY <1>1, <1>2, <1>3, <1>4, <1>5 DEF Next

LEMMA SavedMoves ==
  ASSUME Next
  PROVE  \/ saved' = saved
         \/ SnapshotTokens \/ SnapshotState \/ KeepProfile \/ CannotKeep \/ StoreRefreshed
<1>1. CASE Switch
  BY <1>1 DEF Switch, PlanSwitch, SwitchCannotQuit, Archive, CannotArchive, MergeHistory,
     SwapCredentials, RestoreState, RestoreFails, Rollback, RollbackFails, files
<1>2. CASE Capture
  BY <1>2 DEF Capture, BeginCapture, CaptureCannotQuit, Backup, Clear, ClearFails, OpenLogin,
     CannotOpenLogin, AlreadySaved, NewLogin, GiveUp, QuitAgain, PutBack, PutBackFails,
     KeepProfile, WriteMeta, CannotKeep, files
<1>3. CASE Both
  BY <1>3 DEF Both, Quit, NothingToSnapshot, SnapshotRefused, SnapshotTokens, SnapshotState,
     StepFails, Relaunch, CannotRelaunch, Crash, files
<1>4. CASE App
  BY <1>4 DEF App, AppRenews, AppSignsIn, AppSignedIn, UserOpensApp, files
<1>5. CASE Fetch
  BY <1>5 DEF Fetch, Resolve, LockAndRead, LockTimesOut, Refresh, StoreRefreshed,
     RefreshedIsLost, Ask, files
<1> QED BY <1>1, <1>2, <1>3, <1>4, <1>5 DEF Next

LEMMA AppMoves ==
  ASSUME Next
  PROVE  \/ app' = app
         \/ app' = "down" /\ (Quit \/ SwitchCannotQuit \/ CaptureCannotQuit \/ QuitAgain)
         \/ app' = "up" /\ (UserOpensApp \/ Relaunch \/ OpenLogin)
<1>1. CASE Switch
  BY <1>1 DEF Switch, PlanSwitch, SwitchCannotQuit, Archive, CannotArchive, MergeHistory,
     SwapCredentials, RestoreState, RestoreFails, Rollback, RollbackFails, files
<1>2. CASE Capture
  BY <1>2 DEF Capture, BeginCapture, CaptureCannotQuit, Backup, Clear, ClearFails, OpenLogin,
     CannotOpenLogin, AlreadySaved, NewLogin, GiveUp, QuitAgain, PutBack, PutBackFails,
     KeepProfile, WriteMeta, CannotKeep, files
<1>3. CASE Both
  BY <1>3 DEF Both, Quit, NothingToSnapshot, SnapshotRefused, SnapshotTokens, SnapshotState,
     StepFails, Relaunch, CannotRelaunch, Crash, files
<1>4. CASE App
  BY <1>4 DEF App, AppRenews, AppSignsIn, AppSignedIn, UserOpensApp, files
<1>5. CASE Fetch
  BY <1>5 DEF Fetch, Resolve, LockAndRead, LockTimesOut, Refresh, StoreRefreshed,
     RefreshedIsLost, Ask, files
<1> QED BY <1>1, <1>2, <1>3, <1>4, <1>5 DEF Next

LEMMA RegisteredMoves ==
  ASSUME Next
  PROVE  registered' = registered \/ WriteMeta
<1>1. CASE Switch
  BY <1>1 DEF Switch, PlanSwitch, SwitchCannotQuit, Archive, CannotArchive, MergeHistory,
     SwapCredentials, RestoreState, RestoreFails, Rollback, RollbackFails, files
<1>2. CASE Capture
  BY <1>2 DEF Capture, BeginCapture, CaptureCannotQuit, Backup, Clear, ClearFails, OpenLogin,
     CannotOpenLogin, AlreadySaved, NewLogin, GiveUp, QuitAgain, PutBack, PutBackFails,
     KeepProfile, WriteMeta, CannotKeep, files
<1>3. CASE Both
  BY <1>3 DEF Both, Quit, NothingToSnapshot, SnapshotRefused, SnapshotTokens, SnapshotState,
     StepFails, Relaunch, CannotRelaunch, Crash, files
<1>4. CASE App
  BY <1>4 DEF App, AppRenews, AppSignsIn, AppSignedIn, UserOpensApp, files
<1>5. CASE Fetch
  BY <1>5 DEF Fetch, Resolve, LockAndRead, LockTimesOut, Refresh, StoreRefreshed,
     RefreshedIsLost, Ask, files
<1> QED BY <1>1, <1>2, <1>3, <1>4, <1>5 DEF Next

LEMMA FetchMoves ==
  ASSUME Next
  PROVE  fetch' = fetch \/ Fetch
<1>1. CASE Switch
  BY <1>1 DEF Switch, PlanSwitch, SwitchCannotQuit, Archive, CannotArchive, MergeHistory,
     SwapCredentials, RestoreState, RestoreFails, Rollback, RollbackFails, files
<1>2. CASE Capture
  BY <1>2 DEF Capture, BeginCapture, CaptureCannotQuit, Backup, Clear, ClearFails, OpenLogin,
     CannotOpenLogin, AlreadySaved, NewLogin, GiveUp, QuitAgain, PutBack, PutBackFails,
     KeepProfile, WriteMeta, CannotKeep, files
<1>3. CASE Both
  BY <1>3 DEF Both, Quit, NothingToSnapshot, SnapshotRefused, SnapshotTokens, SnapshotState,
     StepFails, Relaunch, CannotRelaunch, Crash, files
<1>4. CASE App
  BY <1>4 DEF App, AppRenews, AppSignsIn, AppSignedIn, UserOpensApp, files
<1>5. CASE Fetch
  BY <1>5 DEF Fetch, Resolve, LockAndRead, LockTimesOut, Refresh, StoreRefreshed,
     RefreshedIsLost, Ask, files
<1> QED BY <1>1, <1>2, <1>3, <1>4, <1>5 DEF Next

(***************************************************************************)
(* What a fetch does leaves the application and the operation alone.       *)
(***************************************************************************)
LEMMA FetchDoes ==
  ASSUME Fetch
  PROVE  /\ UNCHANGED <<live, browser, app, registered, prelogin, op, misfiled, mishaps, closed>>
         /\ saved' = saved \/ StoreRefreshed
  BY DEF Fetch, Resolve, LockAndRead, LockTimesOut, Refresh, StoreRefreshed, RefreshedIsLost,
     Ask, files, history

LEMMA AppDoes ==
  ASSUME App
  PROVE  /\ UNCHANGED <<saved, registered, prelogin, op, fetch, misfiled, mishaps>>
         /\ \/ app' = app /\ closed' = closed /\ app = "up"
            \/ UserOpensApp /\ live' = live
         /\ excused' = excused \/ AppSignsIn
  BY DEF App, AppRenews, AppSignsIn, AppSignedIn, UserOpensApp, files, history

LEMMA PreloginMoves ==
  ASSUME Next
  PROVE  prelogin' \in {prelogin, None} \/ (Backup /\ prelogin' = Aside)
<1>1. CASE Switch
  BY <1>1 DEF Switch, PlanSwitch, SwitchCannotQuit, Archive, CannotArchive, MergeHistory,
     SwapCredentials, RestoreState, RestoreFails, Rollback, RollbackFails, files, Leave
<1>2. CASE Capture
  BY <1>2 DEF Capture, BeginCapture, CaptureCannotQuit, Backup, Clear, ClearFails, OpenLogin,
     CannotOpenLogin, AlreadySaved, NewLogin, GiveUp, QuitAgain, PutBack, PutBackFails,
     KeepProfile, WriteMeta, CannotKeep, files, Leave
<1>3. CASE Both
  BY <1>3 DEF Both, Quit, NothingToSnapshot, SnapshotRefused, SnapshotTokens, SnapshotState,
     StepFails, Relaunch, CannotRelaunch, Crash, files, Leave
<1>4. CASE App
  BY <1>4 DEF App, AppRenews, AppSignsIn, AppSignedIn, UserOpensApp, files, Leave
<1>5. CASE Fetch
  BY <1>5 DEF Fetch, Resolve, LockAndRead, LockTimesOut, Refresh, StoreRefreshed,
     RefreshedIsLost, Ask, files, Leave
<1> QED BY <1>1, <1>2, <1>3, <1>4, <1>5 DEF Next

LEMMA BrowserMoves ==
  ASSUME Next
  PROVE  \/ browser' = browser
         \/ browser' = Torn
         \/ op.kind = "switch" /\ browser' = saved[op.label].browser
         \/ browser' = op.found.browser
         \/ browser' = None
         \/ op.pc \in {"putback", "undo"} /\ browser' = prelogin.browser
         \/ AppSignsIn /\ browser' \in Accounts
<1>1. CASE Switch
  BY <1>1 DEF Switch, PlanSwitch, SwitchCannotQuit, Archive, CannotArchive, MergeHistory,
     SwapCredentials, RestoreState, RestoreFails, Rollback, RollbackFails, files, At
<1>2. CASE Capture
  BY <1>2 DEF Capture, BeginCapture, CaptureCannotQuit, Backup, Clear, ClearFails, OpenLogin,
     CannotOpenLogin, AlreadySaved, NewLogin, GiveUp, QuitAgain, PutBack, PutBackFails,
     KeepProfile, WriteMeta, CannotKeep, files, At
<1>3. CASE Both
  BY <1>3 DEF Both, Quit, NothingToSnapshot, SnapshotRefused, SnapshotTokens, SnapshotState,
     StepFails, Relaunch, CannotRelaunch, Crash, files, At
<1>4. CASE App
  BY <1>4 DEF App, AppRenews, AppSignsIn, AppSignedIn, UserOpensApp, files, At
<1>5. CASE Fetch
  BY <1>5 DEF Fetch, Resolve, LockAndRead, LockTimesOut, Refresh, StoreRefreshed,
     RefreshedIsLost, Ask, files, At
<1> QED BY <1>1, <1>2, <1>3, <1>4, <1>5 DEF Next

LEMMA FilesTypeStep ==
  ASSUME TypeInv, Stages, Next
  PROVE  FilesType'
<1>1. live' \in Logins
  <2>0. live \in Logins /\ NoLogin \in Logins /\ op.found.live \in Logins
    BY DEF TypeInv, FilesType, OpType, Asides, Logins, NoLogin
  <2>1. CASE SwapCredentials
    <3>1. op.label \in Accounts \cup {None} /\ op.tok \in Tokens \cup {NoToken}
      BY TokensAre DEF TypeInv, OpType
    <3> QED BY <2>1, <3>1 DEF SwapCredentials, Logins
  <2>2. CASE Rollback \/ RollbackFails \/ Clear \/ ClearFails
    BY <2>0, <2>2 DEF Rollback, RollbackFails, Clear, ClearFails
  <2>3. CASE PutBack \/ PutBackFails
    <3>1. prelogin = op.found
      BY <2>3 DEF PutBack, PutBackFails, Stages, LiveIs, PutAside, OfACapture
    <3> QED BY <2>0, <2>3, <3>1 DEF PutBack, PutBackFails
  <2>4. CASE AppSignsIn
    BY <2>0, <2>4 DEF AppSignsIn, Logins
  <2>5. CASE AppRenews \/ AppSignedIn
    <3>1. live' = [live EXCEPT !.tok = Len(issued) + 1] /\ Len(issued) < MaxTokens
      BY <2>5 DEF AppRenews, AppSignedIn, Renew
    <3>2. Len(issued) + 1 \in Tokens
      BY <3>1, TokensAre
    <3> QED BY <2>0, <3>1, <3>2 DEF Logins
  <2> QED BY <2>0, <2>1, <2>2, <2>3, <2>4, <2>5, LiveMoves
<1>2. saved' \in [Accounts -> Profiles]
  <2>0. saved \in [Accounts -> Profiles]
    BY DEF TypeInv, FilesType
  <2>1. CASE SnapshotTokens
    <3>1. PICK t \in Tokens \cup {NoToken} : \E a : saved' = [saved EXCEPT ![a].tok = t]
      BY <2>1 DEF SnapshotTokens, TypeInv, FilesType, Logins
    <3> QED BY <2>0, <3>1 DEF Profiles
  <2>2. CASE SnapshotState
    <3>1. PICK b \in Browsers : \E a : saved' = [saved EXCEPT ![a].browser = b]
      BY <2>2 DEF SnapshotState, TypeInv, FilesType
    <3> QED BY <2>0, <3>1 DEF Profiles, Browsers
  <2>3. CASE KeepProfile
    <3>1. [tok |-> live.tok, browser |-> browser] \in Profiles
      BY DEF TypeInv, FilesType, Profiles, Browsers, Logins
    <3> QED BY <2>0, <2>3, <3>1 DEF KeepProfile
  <2>4. CASE CannotKeep
    <3>1. NoProfile \in Profiles
      BY DEF NoProfile, Profiles
    <3> QED BY <2>0, <2>4, <3>1 DEF CannotKeep
  <2>5. CASE StoreRefreshed
    <3>1. PICK t \in Tokens \cup {NoToken} : \E a : saved' = [saved EXCEPT ![a].tok = t]
      BY <2>5, TokensAre DEF StoreRefreshed
    <3> QED BY <2>0, <3>1 DEF Profiles
  <2> QED BY <2>0, <2>1, <2>2, <2>3, <2>4, <2>5, SavedMoves
<1>3. registered' \subseteq Accounts
  <2>1. CASE WriteMeta
    <3>1. op.label \in Accounts
      BY <2>1 DEF WriteMeta, TypeInv, OpType, Stages, LabelIs, SignedIn
    <3> QED BY <2>1, <3>1 DEF WriteMeta, TypeInv, FilesType
  <2> QED BY <2>1, RegisteredMoves DEF TypeInv, FilesType
<1>4. prelogin' \in Asides \cup {None}
  <2>1. prelogin \in Asides \cup {None} /\ Aside \in Asides
    BY DEF TypeInv, FilesType, Aside, Asides, Browsers
  <2>2. prelogin' \in {prelogin, None, Aside}
    BY PreloginMoves
  <2> QED BY <2>1, <2>2
<1>5. browser' \in Browsers
  <2>1. browser \in Browsers /\ op.found.browser \in Browsers /\ None \in Browsers
        /\ Torn \in Browsers /\ Accounts \subseteq Browsers
    BY DEF TypeInv, FilesType, OpType, Asides, Browsers
  <2>2. op.kind = "switch" => saved[op.label].browser \in Browsers
    BY DEF Stages, Course, TypeInv, FilesType, Profiles, Browsers
  <2>3. op.pc \in {"putback", "undo"} => prelogin = op.found
    BY DEF Stages, LiveIs, PutAside, OfACapture
  <2> QED BY <2>1, <2>2, <2>3, BrowserMoves
<1> QED BY <1>1, <1>2, <1>3, <1>4, <1>5 DEF FilesType

(***************************************************************************)
(* What each step makes of the operation.                                  *)
(***************************************************************************)
OpSame == /\ op'.kind = op.kind /\ op'.label = op.label /\ op'.tok = op.tok
          /\ op'.found = op.found

LEMMA PlanSwitchDoes ==
  ASSUME PlanSwitch
  PROVE  \E a \in registered :
           /\ saved[a].tok # NoToken /\ saved[a].browser # None
           /\ op'.pc = "quit" /\ op'.kind = "switch" /\ op'.label = a
           /\ op'.tok = saved[a].tok
           /\ op'.found.live = NoLogin /\ op'.found.browser = None
<1>1. PICK a \in registered :
        /\ saved[a].tok # NoToken /\ saved[a].browser # None
        /\ op' = [NoOp EXCEPT !.kind = "switch", !.pc = "quit", !.label = a, !.tok = saved[a].tok]
  BY DEF PlanSwitch
<1> DEFINE t == saved[a].tok
<1>2. op' = [NoOp EXCEPT !.kind = "switch", !.pc = "quit", !.label = a, !.tok = t]
  BY <1>1
<1> HIDE DEF t
<1>3. /\ op'.pc = "quit" /\ op'.kind = "switch" /\ op'.label = a /\ op'.tok = t
      /\ op'.found.live = NoLogin /\ op'.found.browser = None
  BY <1>2 DEF NoOp
<1> QED BY <1>1, <1>3 DEF t

LEMMA BeginCaptureDoes ==
  ASSUME BeginCapture
  PROVE  /\ op'.pc = "quit" /\ op'.kind = "capture" /\ op'.tok = NoToken
         /\ op'.label = IF live.acct \in registered THEN live.acct ELSE None
         /\ op'.found.live = NoLogin /\ op'.found.browser = None
<1> DEFINE l == IF live.acct \in registered THEN live.acct ELSE None
<1>2. op' = [NoOp EXCEPT !.kind = "capture", !.pc = "quit", !.label = l]
  BY DEF BeginCapture
<1> HIDE DEF l
<1>3. /\ op'.pc = "quit" /\ op'.kind = "capture" /\ op'.tok = NoToken /\ op'.label = l
      /\ op'.found.live = NoLogin /\ op'.found.browser = None
  BY <1>2 DEF NoOp
<1> QED BY <1>3 DEF l

LEMMA QuitDoes ==
  ASSUME OpType, Quit
  PROVE  /\ op'.pc = AfterQuit /\ op'.found = Aside
         /\ op'.kind = op.kind /\ op'.label = op.label /\ op'.tok = op.tok
<1> DEFINE pc == AfterQuit
           at == Aside
<1>1. op' = [op EXCEPT !.pc = pc, !.found = at]
  BY DEF Quit
<1> HIDE DEF pc, at
<1>2. /\ op'.pc = pc /\ op'.found = at
      /\ op'.kind = op.kind /\ op'.label = op.label /\ op'.tok = op.tok
  BY <1>1 DEF OpType
<1> QED BY <1>2 DEF pc, at

LEMMA NewLoginDoes ==
  ASSUME OpType, NewLogin
  PROVE  /\ op'.pc = "saving" /\ op'.label = live.acct
         /\ op'.kind = op.kind /\ op'.tok = op.tok /\ op'.found = op.found
<1> DEFINE l == live.acct
<1>1. op' = [op EXCEPT !.pc = "saving", !.label = l]
  BY DEF NewLogin
<1> HIDE DEF l
<1>2. /\ op'.pc = "saving" /\ op'.label = l
      /\ op'.kind = op.kind /\ op'.tok = op.tok /\ op'.found = op.found
  BY <1>1 DEF OpType
<1> QED BY <1>2 DEF l

Over == op'.pc = "idle" /\ op'.kind = "none" /\ op'.label = None /\ op'.tok = 0
        /\ op'.found.live = NoLogin /\ op'.found.browser = None

LEMMA OpMoves ==
  ASSUME OpType, Next
  PROVE  OpSame \/ Over \/ PlanSwitch \/ BeginCapture \/ Quit \/ NewLogin
<1>a. ASSUME NEW pc, Go(pc) PROVE OpSame
  BY <1>a DEF Go, OpType, OpSame
<1>b. ASSUME NEW why, Leave(why) PROVE Over
  BY <1>b, LeaveDoes DEF Over
<1>c. ASSUME UNCHANGED op PROVE OpSame
  BY <1>c DEF OpSame
<1> HIDE DEF OpSame, Over
<1>1. CASE Switch
  BY <1>1, <1>a, <1>b, <1>c DEF Switch, PlanSwitch, SwitchCannotQuit, Archive, CannotArchive, MergeHistory,
     SwapCredentials, RestoreState, RestoreFails, Rollback, RollbackFails
<1>2. CASE Capture
  BY <1>2, <1>a, <1>b, <1>c DEF Capture, BeginCapture, CaptureCannotQuit, Backup, Clear, ClearFails, OpenLogin,
     CannotOpenLogin, AlreadySaved, NewLogin, GiveUp, QuitAgain, PutBack, PutBackFails,
     KeepProfile, WriteMeta, CannotKeep
<1>3. CASE Both
  BY <1>3, <1>a, <1>b, <1>c DEF Both, Quit, NothingToSnapshot, SnapshotRefused, SnapshotTokens, SnapshotState,
     StepFails, Relaunch, CannotRelaunch, Crash
<1>4. CASE App
  BY <1>4, <1>a, <1>b, <1>c DEF App, AppRenews, AppSignsIn, AppSignedIn, UserOpensApp
<1>5. CASE Fetch
  BY <1>5, <1>a, <1>b, <1>c DEF Fetch, Resolve, LockAndRead, LockTimesOut, Refresh, StoreRefreshed,
     RefreshedIsLost, Ask
<1> QED BY <1>1, <1>2, <1>3, <1>4, <1>5 DEF Next

LEMMA TokensStep ==
  ASSUME TypeInv, Stages, Next
  PROVE  TokensAreIssued'
<1> DEFINE n == Len(issued)
           m == Len(issued')
<1>1. n \in Nat /\ m \in Nat /\ n <= m
  BY ServerTypeStep
<1>2. ASSUME AppRenews \/ AppSignedIn \/ Refresh
      PROVE  m = n + 1
  BY <1>2, AppRenewsDoes, AppSignedInDoes, RefreshDoes DEF Issues, Grown
<1>3. /\ live.tok \in 0 .. n /\ op.tok \in 0 .. n /\ op.found.live.tok \in 0 .. n
      /\ fetch.tok \in 0 .. n /\ \A a \in Accounts : saved[a].tok \in 0 .. n
  BY TokensAre
<1>4. NoLogin.tok = 0 /\ NoToken = 0
  BY DEF NoLogin, NoToken
<1> HIDE DEF n, m
<1>5. live'.tok <= m
  <2>1. CASE SwapCredentials
    BY <1>1, <1>3, <2>1 DEF SwapCredentials
  <2>2. CASE Rollback \/ RollbackFails \/ Clear \/ ClearFails
    BY <1>1, <1>3, <1>4, <2>2 DEF Rollback, RollbackFails, Clear, ClearFails
  <2>3. CASE PutBack \/ PutBackFails
    <3>1. prelogin = op.found
      BY <2>3 DEF PutBack, PutBackFails, Stages, LiveIs, PutAside, OfACapture
    <3> QED BY <1>1, <1>3, <2>3, <3>1 DEF PutBack, PutBackFails
  <2>4. CASE AppSignsIn
    BY <1>1, <1>4, <2>4 DEF AppSignsIn, NoLogin
  <2>5. CASE AppRenews \/ AppSignedIn
    <3>1. live' = [live EXCEPT !.tok = n + 1]
      BY <2>5 DEF AppRenews, AppSignedIn, Renew, n
    <3>2. live'.tok = n + 1
      BY <3>1 DEF TypeInv, FilesType, Logins
    <3> QED BY <1>1, <1>2, <2>5, <3>2
  <2> QED BY <1>1, <1>3, <2>1, <2>2, <2>3, <2>4, <2>5, LiveMoves
<1>6. ASSUME NEW a \in Accounts PROVE saved'[a].tok <= m
  <2>0. saved \in [Accounts -> Profiles]
    BY DEF TypeInv, FilesType
  <2>1. CASE SnapshotTokens \/ SnapshotState \/ KeepProfile \/ CannotKeep \/ StoreRefreshed
    <3>1. saved'[a].tok \in {saved[a].tok, live.tok, fetch.tok, 0}
      <4>1. CASE SnapshotTokens
        <5> DEFINE o == Outgoing
        <5>1. saved' = [saved EXCEPT ![o].tok = live.tok]
          BY <4>1 DEF SnapshotTokens
        <5> HIDE DEF o
        <5> QED BY <2>0, <5>1 DEF Profiles
      <4>2. CASE SnapshotState
        <5> DEFINE o == Outgoing
        <5>1. saved' = [saved EXCEPT ![o].browser = browser]
          BY <4>2 DEF SnapshotState
        <5> HIDE DEF o
        <5> QED BY <2>0, <5>1 DEF Profiles
      <4>3. CASE KeepProfile
        BY <2>0, <4>3 DEF KeepProfile
      <4>4. CASE CannotKeep
        BY <2>0, <4>4 DEF CannotKeep, NoProfile, NoToken
      <4>5. CASE StoreRefreshed
        BY <2>0, <4>5 DEF StoreRefreshed, Profiles
      <4> QED BY <2>1, <4>1, <4>2, <4>3, <4>4, <4>5
    <3> QED BY <1>1, <1>3, <3>1
  <2> QED BY <1>1, <1>3, <2>1, SavedMoves
<1>7. op'.tok <= m /\ op'.found.live.tok <= m
  <2>1. CASE OpSame
    BY <1>1, <1>3, <2>1 DEF OpSame
  <2>2. CASE Over
    BY <1>1, <1>4, <2>2 DEF Over
  <2>3. CASE PlanSwitch
    <3>1. PICK a \in registered : op'.tok = saved[a].tok /\ op'.found.live = NoLogin
      BY <2>3, PlanSwitchDoes
    <3>2. a \in Accounts
      BY DEF TypeInv, FilesType
    <3> QED BY <1>1, <1>3, <1>4, <3>1, <3>2
  <2>4. CASE BeginCapture
    BY <1>1, <1>4, <2>4, BeginCaptureDoes
  <2>5. CASE Quit
    BY <1>1, <1>3, <2>5, QuitDoes DEF Aside, TypeInv
  <2>6. CASE NewLogin
    BY <1>1, <1>3, <2>6, NewLoginDoes DEF TypeInv
  <2> QED BY <2>1, <2>2, <2>3, <2>4, <2>5, <2>6, OpMoves DEF TypeInv
<1>8. fetch'.tok <= m
  <2>1. CASE Fetch
    <3>1. CASE Resolve
      BY <1>1, <1>4, <3>1 DEF Resolve, NoFetch
    <3>2. CASE LockAndRead
      <4>1. fetch.acct \in Accounts
        BY <3>2 DEF LockAndRead, TypeInv, FetchType, FilesType
      <4> DEFINE t == IF fetch.active THEN live.tok ELSE saved[fetch.acct].tok
      <4>2. t \in 0 .. n
        BY <1>3, <4>1
      <4> DEFINE mv == fetch.active /\ live.acct # fetch.acct
      <4>3. fetch' = NoFetch \/ fetch' = [fetch EXCEPT !.pc = "holding", !.tok = t, !.moved = mv]
        BY <3>2 DEF LockAndRead
      <4> HIDE DEF t, mv
      <4>4. fetch'.tok \in {0, t}
        BY <4>3, NoFetchIs DEF TypeInv, FetchType
      <4> QED BY <1>1, <4>2, <4>4
    <3>3. CASE LockTimesOut \/ RefreshedIsLost \/ Ask
      BY <1>1, <3>3, NoFetchIs DEF LockTimesOut, RefreshedIsLost, Ask
    <3>4. CASE Refresh
      <4>1. fetch' = [fetch EXCEPT !.pc = "exchanged", !.tok = n + 1]
        BY <3>4 DEF Refresh, n
      <4>2. fetch'.tok = n + 1
        BY <4>1 DEF TypeInv, FetchType
      <4> QED BY <1>1, <1>2, <3>4, <4>2
    <3>5. CASE StoreRefreshed
      BY <1>1, <1>3, <3>5 DEF StoreRefreshed, TypeInv, FetchType
    <3> QED BY <2>1, <3>1, <3>2, <3>3, <3>4, <3>5 DEF Fetch
  <2> QED BY <1>1, <1>3, <2>1, FetchMoves
<1> QED BY <1>5, <1>6, <1>7, <1>8 DEF TokensAreIssued, m

LEMMA TypeStep ==
  ASSUME TypeInv, Stages, Next
  PROVE  TypeInv'
  BY FilesTypeStep, ServerTypeStep, TokensStep, RestTypeStep, OpTypeStep, FetchTypeStep
     DEF TypeInv

-----------------------------------------------------------------------------
(* The stages are kept. *)

LEMMA MovesOn ==
  ASSUME OpType, NEW pc, Go(pc)
  PROVE  op'.pc = pc /\ OpSame
  BY DEF OpType, Go, OpSame

LEMMA CourseOfOp ==
  ASSUME TypeInv, Stages, Next
  PROVE  /\ op'.pc = "idle" <=> op'.kind = "none"
         /\ op'.pc \in OfASwitch => op'.kind = "switch"
         /\ op'.pc \in OfACapture => op'.kind = "capture"
         /\ op'.kind = "switch" => op'.label \in registered' /\ op'.tok # NoToken
<1> USE DEF OfASwitch, OfACapture
<1>0. /\ op.pc = "idle" <=> op.kind = "none"
      /\ op.pc \in OfASwitch => op.kind = "switch"
      /\ op.pc \in OfACapture => op.kind = "capture"
      /\ op.kind = "switch" => op.label \in registered /\ op.tok # NoToken
  BY DEF Stages, Course
<1>a. ASSUME NEW pc, Go(pc) PROVE op'.pc = pc /\ OpSame
  BY <1>a, MovesOn DEF TypeInv
<1>b. ASSUME NEW why, Leave(why) PROVE Over
  BY <1>b, LeaveDoes DEF Over
<1>c. registered \subseteq registered'
  BY Grows
<1>d. op.kind \in {"none", "switch", "capture"}
  BY DEF TypeInv, OpType
<1>1. CASE PlanSwitch
  <2>1. PICK a \in registered : /\ saved[a].tok # NoToken
                                /\ op'.pc = "quit" /\ op'.kind = "switch" /\ op'.label = a
                                /\ op'.tok = saved[a].tok
    BY <1>1, PlanSwitchDoes
  <2> QED BY <1>c, <2>1
<1>2. CASE BeginCapture
  BY <1>2, BeginCaptureDoes
<1>3. CASE Quit
  BY <1>0, <1>c, <1>d, <1>3, QuitDoes DEF Quit, AfterQuit, TypeInv
<1>4. CASE NewLogin
  BY <1>0, <1>c, <1>4, NewLoginDoes DEF NewLogin, TypeInv
<1>5. CASE SwitchCannotQuit \/ Archive \/ CannotArchive \/ MergeHistory
           \/ SwapCredentials \/ RestoreState \/ RestoreFails \/ Rollback \/ RollbackFails
  BY <1>0, <1>5, <1>a, <1>c DEF SwitchCannotQuit, Archive, CannotArchive, MergeHistory,
     SwapCredentials, RestoreState, RestoreFails, Rollback, RollbackFails, At, OnError, OpSame
<1>6. CASE CaptureCannotQuit \/ AlreadySaved \/ Relaunch \/ CannotRelaunch \/ Crash
  BY <1>6, <1>b DEF CaptureCannotQuit, AlreadySaved, Relaunch, CannotRelaunch, Crash, Over
<1>7. CASE Backup \/ Clear \/ ClearFails \/ OpenLogin \/ CannotOpenLogin
           \/ GiveUp \/ QuitAgain \/ PutBack \/ KeepProfile \/ WriteMeta \/ CannotKeep
  BY <1>0, <1>7, <1>a, <1>c DEF Backup, Clear, ClearFails, OpenLogin, CannotOpenLogin, GiveUp,
     QuitAgain, PutBack, KeepProfile, WriteMeta, CannotKeep, OpSame
<1>8. CASE PutBackFails
  BY <1>0, <1>8, <1>a, <1>b, <1>c DEF PutBackFails, OpSame, Over
<1>9. CASE NothingToSnapshot \/ SnapshotRefused \/ SnapshotTokens \/ SnapshotState
           \/ StepFails
  BY <1>0, <1>9, <1>a, <1>c, <1>d DEF NothingToSnapshot, SnapshotRefused, SnapshotTokens,
     SnapshotState, StepFails, AfterSnapshot, OnError, OpSame
<1>10. CASE App \/ Fetch
  BY <1>0, <1>10, <1>c, AppDoes, FetchDoes
<1> QED BY <1>1, <1>2, <1>3, <1>4, <1>5, <1>6, <1>7, <1>8, <1>9, <1>10
        DEF Next, Switch, Capture, Both

LEMMA CourseStep ==
  ASSUME TypeInv, Stages, Next
  PROVE  Course'
<1> USE DEF Stopped
<1>0. /\ op.pc \in Stopped => app = "down"
      /\ op.pc \in {"wait", "saving"} => app = "up"
  BY DEF Stages, Course
<1>a. ASSUME NEW pc, Go(pc) PROVE op'.pc = pc
  BY <1>a, MovesOn DEF TypeInv
<1>b. ASSUME NEW why, Leave(why) PROVE op'.pc = "idle"
  BY <1>b, LeaveDoes
<1>h. app = "up" \/ app = "down"
  BY DEF TypeInv, RestType
<1> SUFFICES /\ op'.pc \in Stopped => app' = "down"
             /\ op'.pc \in {"wait", "saving"} => app' = "up"
  BY CourseOfOp DEF Course
<1>1. CASE PlanSwitch \/ BeginCapture
  BY <1>1, PlanSwitchDoes, BeginCaptureDoes
<1>3. CASE Quit
  BY <1>3, QuitDoes DEF Quit, AfterQuit, TypeInv
<1>4. CASE NewLogin
  BY <1>0, <1>4, NewLoginDoes DEF NewLogin, TypeInv
<1>5. CASE SwitchCannotQuit \/ Archive \/ CannotArchive \/ MergeHistory
           \/ SwapCredentials \/ RestoreState \/ RestoreFails \/ Rollback \/ RollbackFails
  BY <1>0, <1>5, <1>a DEF SwitchCannotQuit, Archive, CannotArchive, MergeHistory,
     SwapCredentials, RestoreState, RestoreFails, Rollback, RollbackFails, At, OnError
<1>6. CASE CaptureCannotQuit \/ AlreadySaved \/ Relaunch \/ CannotRelaunch \/ Crash
  BY <1>6, <1>b DEF CaptureCannotQuit, AlreadySaved, Relaunch, CannotRelaunch, Crash
<1>7. CASE Backup \/ Clear \/ ClearFails \/ OpenLogin \/ CannotOpenLogin
           \/ GiveUp \/ QuitAgain \/ PutBack \/ KeepProfile \/ WriteMeta \/ CannotKeep
  BY <1>0, <1>7, <1>a DEF Backup, Clear, ClearFails, OpenLogin, CannotOpenLogin, GiveUp,
     QuitAgain, PutBack, KeepProfile, WriteMeta, CannotKeep
<1>8. CASE PutBackFails
  BY <1>0, <1>8, <1>a, <1>b DEF PutBackFails
<1>9. CASE NothingToSnapshot \/ SnapshotRefused \/ SnapshotTokens \/ SnapshotState
           \/ StepFails
  BY <1>0, <1>9, <1>a DEF NothingToSnapshot, SnapshotRefused, SnapshotTokens,
     SnapshotState, StepFails, AfterSnapshot, OnError
<1>10. CASE App \/ Fetch
  BY <1>0, <1>10, AppDoes, FetchDoes DEF UserOpensApp
<1> QED BY <1>1, <1>3, <1>4, <1>5, <1>6, <1>7, <1>8, <1>9, <1>10
        DEF Next, Switch, Capture, Both

LEMMA LiveIsStep ==
  ASSUME TypeInv, Stages, Next
  PROVE  LiveIs'
<1> USE DEF Untouched, PutAside, OfACapture, OfASwitch, Stopped, Swapped, Aside
<1>0. /\ op.pc \in Untouched => op.found = Aside
      /\ op.pc \in PutAside => prelogin = op.found
      /\ op.pc = "restore" => live = [acct |-> op.label, tok |-> op.tok]
      /\ op.pc = "rollback" => live = op.found.live \/ live = [acct |-> op.label, tok |-> op.tok]
      /\ op.pc = "login" => live = NoLogin
  BY DEF Stages, LiveIs
<1>s. /\ op.pc \in Stopped => app = "down"
      /\ op.pc \in OfASwitch => op.kind = "switch"
      /\ op.pc \in OfACapture => op.kind = "capture"
  BY DEF Stages, Course
<1>a. ASSUME NEW pc, Go(pc)
      PROVE  op'.pc = pc /\ op'.label = op.label /\ op'.tok = op.tok /\ op'.found = op.found
  BY <1>a, MovesOn DEF TypeInv, OpSame
<1>b. ASSUME NEW why, Leave(why) PROVE op'.pc = "idle"
  BY <1>b, LeaveDoes
<1>d. op.kind \in {"none", "switch", "capture"}
  BY DEF TypeInv, OpType
<1> SUFFICES
      /\ op'.pc \in Untouched => op'.found = [live |-> live', browser |-> browser']
      /\ op'.pc \in PutAside => prelogin' = op'.found
      /\ op'.pc = "restore" => live' = [acct |-> op'.label, tok |-> op'.tok]
      /\ op'.pc = "rollback" => \/ live' = op'.found.live
                                \/ live' = [acct |-> op'.label, tok |-> op'.tok]
      /\ op'.pc = "login" => live' = NoLogin
  BY DEF LiveIs
<1>1. CASE PlanSwitch
  BY <1>1, <1>0, <1>s, <1>d, PlanSwitchDoes
     DEF PlanSwitch, files
<1>2. CASE BeginCapture
  BY <1>2, <1>0, <1>s, <1>d, BeginCaptureDoes
     DEF BeginCapture, files
<1>3. CASE Quit
  BY <1>3, <1>0, <1>s, <1>d, QuitDoes
     DEF Quit, AfterQuit, TypeInv, files
<1>4. CASE NewLogin
  BY <1>4, <1>0, <1>s, <1>d, NewLoginDoes
     DEF NewLogin, TypeInv, files
<1>5. CASE SwitchCannotQuit \/ Archive \/ CannotArchive \/ MergeHistory
  BY <1>5, <1>0, <1>s, <1>d, <1>a
     DEF SwitchCannotQuit, Archive, CannotArchive, MergeHistory, At, files
<1>6. CASE SwapCredentials \/ RestoreState \/ RestoreFails \/ Rollback \/ RollbackFails
  BY <1>6, <1>0, <1>s, <1>d, <1>a
     DEF SwapCredentials, RestoreState,
     RestoreFails, Rollback, RollbackFails, At, OnError, files
<1>7. CASE CaptureCannotQuit \/ AlreadySaved \/ Relaunch \/ CannotRelaunch \/ Crash
  BY <1>7, <1>0, <1>s, <1>d, <1>b
     DEF CaptureCannotQuit, AlreadySaved, Relaunch, CannotRelaunch, Crash, files
<1>8. CASE Backup \/ Clear \/ ClearFails \/ OpenLogin \/ CannotOpenLogin
  BY <1>8, <1>0, <1>s, <1>d, <1>a
     DEF Backup, Clear, ClearFails, OpenLogin, CannotOpenLogin, files
<1>9. CASE GiveUp \/ QuitAgain \/ PutBack \/ KeepProfile \/ WriteMeta \/ CannotKeep
  BY <1>9, <1>0, <1>s, <1>d, <1>a
     DEF GiveUp, QuitAgain, PutBack, KeepProfile, WriteMeta, CannotKeep, files
<1>10. CASE PutBackFails
  BY <1>10, <1>0, <1>s, <1>d, <1>a, <1>b
     DEF PutBackFails, files
<1>11. CASE NothingToSnapshot \/ SnapshotRefused \/ SnapshotTokens \/ SnapshotState
           \/ StepFails
  BY <1>11, <1>0, <1>s, <1>d, <1>a
     DEF NothingToSnapshot, SnapshotRefused, SnapshotTokens,
     SnapshotState, StepFails, AfterSnapshot, OnError, files
<1>12. CASE App
  BY <1>12, <1>0, <1>s, <1>d, AppDoes
     DEF App, AppRenews, AppSignsIn, AppSignedIn, UserOpensApp, files
<1>13. CASE Fetch
  BY <1>13, <1>0, <1>s, <1>d, FetchDoes
<1> QED BY <1>1, <1>2, <1>3, <1>4, <1>5, <1>6, <1>7, <1>8, <1>9, <1>10, <1>11, <1>12, <1>13
        DEF Next, Switch, Capture, Both

LEMMA LockStep ==
  ASSUME TypeInv, Stages, Next
  PROVE  LockInv'
<1>0. /\ op.pc # "idle" => fetch.pc \in {"idle", "resolved"}
      /\ fetch.pc \in {"holding", "exchanged"} => fetch.tok # NoToken
      /\ fetch.pc = "exchanged" => /\ ~fetch.active
                                   /\ fetch.tok \in alive /\ fetch.tok # live.tok
  BY DEF Stages, LockInv
<1>n. /\ fetch.tok \in 0 .. Len(issued) /\ live.tok \in 0 .. Len(issued)
      /\ Len(issued) \in Nat /\ NoToken = 0
  BY TokensAre DEF NoToken
<1>1. CASE Fetch
  <2>0. op' = op /\ live' = live
    BY <1>1, FetchDoes
  <2>1. CASE Resolve
    <3>1. PICK a : fetch' = [NoFetch EXCEPT !.pc = "resolved", !.acct = a, !.active = (live.acct = a)]
      BY <2>1 DEF Resolve
    <3> DEFINE c == live.acct = a
    <3>2. fetch' = [NoFetch EXCEPT !.pc = "resolved", !.acct = a, !.active = c]
      BY <3>1
    <3> HIDE DEF c
    <3>3. fetch'.pc = "resolved"
      BY <3>2 DEF NoFetch
    <3> QED BY <3>3 DEF LockInv
  <2>2. CASE LockAndRead
    <3> DEFINE t == IF fetch.active THEN live.tok ELSE saved[fetch.acct].tok
    <3> DEFINE mv == fetch.active /\ live.acct # fetch.acct
    <3>1. \/ fetch' = NoFetch
          \/ t # NoToken /\ fetch' = [fetch EXCEPT !.pc = "holding", !.tok = t, !.moved = mv]
      BY <2>2 DEF LockAndRead
    <3> HIDE DEF t, mv
    <3>2. fetch'.pc = "idle" \/ (fetch'.pc = "holding" /\ fetch'.tok # NoToken)
      BY <3>1, NoFetchIs DEF TypeInv, FetchType
    <3>3. op.pc = "idle"
      BY <2>2 DEF LockAndRead, LockFree
    <3> QED BY <2>0, <3>2, <3>3 DEF LockInv
  <2>3. CASE LockTimesOut \/ RefreshedIsLost \/ Ask
    BY <2>3, NoFetchIs DEF LockTimesOut, RefreshedIsLost, Ask, LockInv
  <2>4. CASE Refresh
    <3> DEFINE t == Len(issued) + 1
    <3>1. fetch' = [fetch EXCEPT !.pc = "exchanged", !.tok = t] /\ t \in alive'
      BY <2>4, RefreshDoes DEF Issues
    <3>2. t # NoToken /\ t # live.tok
      BY <1>n
    <3> HIDE DEF t
    <3>3. fetch'.pc = "exchanged" /\ fetch'.tok = t /\ fetch'.active = fetch.active
      BY <3>1 DEF TypeInv, FetchType
    <3>4. ~fetch.active /\ op.pc = "idle"
      BY <1>0, <2>4 DEF Refresh, MayRefresh
    <3> QED BY <2>0, <3>1, <3>2, <3>3, <3>4 DEF LockInv
  <2>5. CASE StoreRefreshed
    <3>1. fetch' = [fetch EXCEPT !.pc = "holding"] /\ fetch.pc = "exchanged"
      BY <2>5 DEF StoreRefreshed
    <3>2. fetch'.pc = "holding" /\ fetch'.tok = fetch.tok
      BY <3>1 DEF TypeInv, FetchType
    <3>3. op.pc = "idle" /\ fetch.tok # NoToken
      BY <1>0, <3>1
    <3> QED BY <2>0, <3>2, <3>3 DEF LockInv
  <2> QED BY <1>1, <2>1, <2>2, <2>3, <2>4, <2>5 DEF Fetch
<1>2. CASE ~Fetch
  <2>1. fetch' = fetch
    BY <1>2, FetchMoves
  <2>2. CASE App
    <3>1. op' = op
      BY <2>2, AppDoes
    <3>2. fetch.pc = "exchanged" => fetch.tok \in alive' /\ fetch.tok # live'.tok
      <4>1. CASE AppRenews
        <5>1. live'.tok = Len(issued) + 1
          BY <4>1, AppRenewsDoes DEF TypeInv, FilesType, Logins
        <5>2. alive' = (alive \ {live.tok}) \cup {Len(issued) + 1}
          BY <4>1, AppRenewsDoes
        <5> QED BY <1>0, <1>n, <5>1, <5>2
      <4>2. CASE AppSignedIn
        <5>1. live'.tok = Len(issued) + 1
          BY <4>2, AppSignedInDoes DEF TypeInv, FilesType, Logins
        <5>2. alive' = alive \cup {Len(issued) + 1}
          BY <4>2, AppSignedInDoes
        <5> QED BY <1>0, <1>n, <5>1, <5>2
      <4>3. CASE AppSignsIn
        BY <1>0, <4>3 DEF AppSignsIn, NoLogin, server
      <4>4. CASE UserOpensApp
        BY <1>0, <4>4 DEF UserOpensApp, files, server
      <4> QED BY <2>2, <4>1, <4>2, <4>3, <4>4 DEF App
    <3> QED BY <1>0, <2>1, <3>1, <3>2 DEF LockInv
  <2>3. CASE ~App
    <3>1. alive' = alive
      BY <1>2, <2>3, ServerRests DEF App, Fetch, server
    <3>2. CASE op.pc # "idle"
      BY <1>0, <2>1, <3>2 DEF LockInv
    <3>3. CASE op.pc = "idle"
      <4>1. PlanSwitch \/ BeginCapture
        BY <1>2, <2>3, <3>3 DEF Next, Switch, Capture, Both, SwitchCannotQuit, Archive,
           CannotArchive, MergeHistory, SwapCredentials, RestoreState, RestoreFails, Rollback,
           RollbackFails, CaptureCannotQuit, Backup, Clear, ClearFails, OpenLogin,
           CannotOpenLogin, AlreadySaved, NewLogin, GiveUp, QuitAgain, PutBack, PutBackFails,
           KeepProfile, WriteMeta, CannotKeep, Quit, NothingToSnapshot, SnapshotRefused,
           SnapshotTokens, SnapshotState, StepFails, Relaunch, CannotRelaunch, Crash, At
      <4>2. fetch.pc \in {"idle", "resolved"}
        BY <4>1 DEF PlanSwitch, BeginCapture, LockFree, TypeInv, FetchType, FetchPcs
      <4> QED BY <2>1, <4>2 DEF LockInv
    <3> QED BY <3>2, <3>3
  <2> QED BY <2>2, <2>3
<1> QED BY <1>1, <1>2

(***************************************************************************)
(* A running application has its account, with a new token, or another     *)
(* account without one yet.                                                *)
(***************************************************************************)
LEMMA AppLive ==
  ASSUME TypeInv, App
  PROVE  \/ live' = live
         \/ /\ app = "up" /\ live'.tok = NoToken
            /\ live'.acct \in Accounts /\ browser' = live'.acct
         \/ /\ app = "up" /\ live'.acct = live.acct /\ live'.tok = Len(issued) + 1
            /\ live'.tok # NoToken /\ browser' = browser
            /\ live.acct # None \/ live.tok # NoToken
<1>0. live \in Logins /\ Len(issued) \in Nat /\ NoToken = 0 /\ NoLogin.tok = NoToken
  BY TokensAre DEF TypeInv, FilesType, NoToken, NoLogin
<1>1. CASE AppRenews
  <2>1. live' = [live EXCEPT !.tok = Len(issued) + 1] /\ app = "up" /\ browser' = browser
    BY <1>1 DEF AppRenews
  <2>2. live'.acct = live.acct /\ live'.tok = Len(issued) + 1
    BY <1>0, <2>1 DEF Logins
  <2>3. live.tok # NoToken
    BY <1>0, <1>1 DEF AppRenews, TypeInv, ServerType
  <2> QED BY <1>0, <2>1, <2>2, <2>3
<1>2. CASE AppSignedIn
  <2>1. /\ live' = [live EXCEPT !.tok = Len(issued) + 1] /\ app = "up" /\ browser' = browser
        /\ live.acct # None
    BY <1>2 DEF AppSignedIn
  <2>2. live'.acct = live.acct /\ live'.tok = Len(issued) + 1
    BY <1>0, <2>1 DEF Logins
  <2> QED BY <1>0, <2>1, <2>2
<1>3. CASE AppSignsIn
  BY <1>0, <1>3 DEF AppSignsIn, NoLogin
<1>4. CASE UserOpensApp
  BY <1>4 DEF UserOpensApp, files
<1> QED BY <1>1, <1>2, <1>3, <1>4 DEF App

LEMMA LabelIsStep ==
  ASSUME TypeInv, Stages, live.tok # NoToken => live.acct # None, Next
  PROVE  LabelIs'
<1> USE DEF OfACapture, OfASwitch, Stopped, SignedIn
<1>0. /\ op.kind = "capture" /\ op.pc \in {"quit", "snapshot", "state"} =>
           op.label \in registered \cup {None}
      /\ op.pc = "state" => Outgoing # None /\ (Outgoing = live.acct \/ Outgoing \in misfiled)
      /\ op.pc \in SignedIn => op.label \notin registered /\ op.label # None
      /\ op.pc = "meta" => /\ saved[op.label].tok = live.tok /\ live.tok # NoToken
                           /\ op.label = live.acct \/ op.label \in misfiled
  BY DEF Stages, LabelIs, FiledAs
<1>g. misfiled \subseteq misfiled' /\ registered \subseteq registered'
  BY Grows
<1>s. /\ op.pc \in Stopped => app = "down"
      /\ op.pc \in OfASwitch => op.kind = "switch"
      /\ op.pc \in OfACapture => op.kind = "capture"
  BY DEF Stages, Course
<1>l. op.pc # "idle" => fetch.pc \in {"idle", "resolved"}
  BY DEF Stages, LockInv
<1>a. ASSUME NEW pc, Go(pc)
      PROVE  op'.pc = pc /\ op'.label = op.label /\ op'.kind = op.kind
  BY <1>a, MovesOn DEF TypeInv, OpSame
<1>b. ASSUME NEW why, Leave(why) PROVE op'.pc = "idle"
  BY <1>b, LeaveDoes
<1>t. /\ op.kind \in {"none", "switch", "capture"} /\ op.label \in Accounts \cup {None}
      /\ live.acct \in Accounts \cup {None} /\ saved \in [Accounts -> Profiles]
      /\ registered \subseteq Accounts
  BY DEF TypeInv, OpType, FilesType, Logins
<1>n. None \notin Accounts
  BY DesktopAssumption
<1>m. live.tok # NoToken => live.acct # None
  OBVIOUS
<1> SUFFICES
      /\ op'.kind = "capture" /\ op'.pc \in {"quit", "snapshot", "state"} =>
           op'.label \in registered' \cup {None}
      /\ op'.pc = "state" =>
           \E o : /\ o = (IF op'.kind = "capture" THEN op'.label
                          ELSE IF live'.acct \in registered' THEN live'.acct ELSE None)
                 /\ o # None /\ (o = live'.acct \/ o \in misfiled')
      /\ op'.pc \in SignedIn => op'.label \notin registered' /\ op'.label # None
      /\ op'.pc = "meta" => /\ saved'[op'.label].tok = live'.tok /\ live'.tok # NoToken
                            /\ op'.label = live'.acct \/ op'.label \in misfiled'
  BY DEF LabelIs, Outgoing, FiledAs
<1>1. CASE PlanSwitch
  BY <1>1, <1>0, <1>s, <1>t, <1>n, <1>m, PlanSwitchDoes
     DEF PlanSwitch, files
<1>2. CASE BeginCapture
  BY <1>2, <1>0, <1>s, <1>t, <1>n, <1>m, BeginCaptureDoes
     DEF BeginCapture, files
<1>3. CASE Quit
  BY <1>3, <1>0, <1>s, <1>t, <1>n, <1>m, QuitDoes
     DEF Quit, AfterQuit, TypeInv, files
<1>4. CASE NewLogin
  BY <1>4, <1>0, <1>s, <1>t, <1>n, <1>m, NewLoginDoes
     DEF NewLogin, TypeInv, files
<1>5. CASE SwitchCannotQuit \/ Archive \/ CannotArchive \/ MergeHistory
  BY <1>5, <1>0, <1>s, <1>t, <1>n, <1>m, <1>a
     DEF SwitchCannotQuit, Archive, CannotArchive, MergeHistory, At, files
<1>6. CASE SwapCredentials \/ RestoreState \/ RestoreFails \/ Rollback \/ RollbackFails
  BY <1>6, <1>0, <1>s, <1>t, <1>n, <1>m, <1>a
     DEF SwapCredentials, RestoreState,
     RestoreFails, Rollback, RollbackFails, At, OnError, files
<1>7. CASE CaptureCannotQuit \/ AlreadySaved \/ Relaunch \/ CannotRelaunch \/ Crash
  BY <1>7, <1>0, <1>s, <1>t, <1>n, <1>m, <1>b
     DEF CaptureCannotQuit, AlreadySaved, Relaunch, CannotRelaunch, Crash, files
<1>8. CASE Backup \/ Clear \/ ClearFails \/ OpenLogin \/ CannotOpenLogin
  BY <1>8, <1>0, <1>s, <1>t, <1>n, <1>m, <1>a
     DEF Backup, Clear, ClearFails, OpenLogin, CannotOpenLogin, files
<1>9k. CASE KeepProfile
  <2>1. /\ op'.pc = "meta" /\ op'.label = op.label /\ op.pc = "keep" /\ live' = live
        /\ registered' = registered /\ saved' = [saved EXCEPT ![op.label] =
                                                 [tok |-> live.tok, browser |-> browser]]
        /\ live.tok # NoToken
    BY <1>a, <1>9k DEF KeepProfile
  <2>2. op.label = live.acct \/ op.label \in misfiled'
    BY <1>9k, <1>s DEF KeepProfile, NoteFiling, FilesAnothers
  <2>3. saved'[op.label].tok = live.tok
    BY <1>0, <1>t, <2>1
  <2> QED BY <1>0, <2>1, <2>2, <2>3
<1>9. CASE GiveUp \/ QuitAgain \/ PutBack \/ WriteMeta \/ CannotKeep
  BY <1>9, <1>0, <1>s, <1>t, <1>n, <1>m, <1>a
     DEF GiveUp, QuitAgain, PutBack, WriteMeta, CannotKeep, files
<1>10. CASE PutBackFails
  BY <1>10, <1>0, <1>s, <1>t, <1>n, <1>m, <1>a, <1>b
     DEF PutBackFails, files
<1>11. CASE NothingToSnapshot \/ SnapshotRefused \/ SnapshotTokens \/ SnapshotState
           \/ StepFails
  <2>1. UNCHANGED <<live, registered>>
    BY <1>11 DEF NothingToSnapshot, SnapshotRefused, SnapshotTokens, SnapshotState, StepFails,
       files
  <2>2. CASE SnapshotTokens
    <3>1. op'.pc = "state" /\ op'.label = op.label /\ op'.kind = op.kind
          /\ Outgoing # None /\ op.pc = "snapshot"
      BY <1>a, <2>2 DEF SnapshotTokens
    <3>2. Outgoing = live.acct \/ Outgoing \in misfiled'
      BY <2>2, <3>1 DEF SnapshotTokens, NoteFiling, FilesAnothers, Outgoing
    <3> QED BY <1>0, <1>g, <2>1, <3>1, <3>2 DEF Outgoing
  <2>3. CASE ~SnapshotTokens
    <3>1. op'.pc \in {"swap", "backup", "rollback", "relaunch"}
      BY <1>11, <1>a, <2>3 DEF NothingToSnapshot, SnapshotRefused, SnapshotState, StepFails,
         AfterSnapshot, OnError
    <3> QED BY <3>1
  <2> QED BY <2>2, <2>3
<1>12. CASE App
  <2>1. UNCHANGED <<saved, registered, op, misfiled>>
    BY <1>12, AppDoes
  <2>2. CASE live' = live
    BY <1>0, <2>1, <2>2 DEF Outgoing
  <2>3. CASE app = "up"
    BY <1>0, <1>s, <2>1, <2>3
  <2> QED BY <1>12, <2>2, <2>3, AppLive
<1>13. CASE Fetch
  <2>1. UNCHANGED <<live, registered, op, misfiled>>
    BY <1>13, FetchDoes
  <2>2. op.pc # "idle" => saved' = saved
    BY <1>l, <1>13, FetchDoes DEF StoreRefreshed
  <2> QED BY <1>0, <2>1, <2>2 DEF Outgoing
<1> QED BY <1>1, <1>2, <1>3, <1>4, <1>5, <1>6, <1>7, <1>8, <1>9, <1>9k, <1>10, <1>11, <1>12, <1>13
        DEF Next, Switch, Capture, Both

LEMMA StagesStep ==
  ASSUME TypeInv, Stages, live.tok # NoToken => live.acct # None, Next
  PROVE  Stages'
  BY CourseStep, LiveIsStep, LabelIsStep, LockStep DEF Stages

-----------------------------------------------------------------------------
(* Who was issued which token. *)

(***************************************************************************)
(* A token is an account's when it was issued to it, or when a capture has *)
(* filed it under that account although it was not.                        *)
(***************************************************************************)
OwnedBy(list, mis, exc, tok, a) ==
  \/ tok = NoToken
  \/ /\ tok \in 1 .. Len(list)
     /\ list[tok] = a \/ (a \in mis /\ list[tok] \in exc)

OwnedNow(tok, a) == OwnedBy(issued, misfiled, excused, tok, a)

(***************************************************************************)
(* Every token in a file, in the hands of a switch or of a fetch that      *)
(* found the account it was sent for, is the account's it is kept for; and *)
(* accounts with another's token are excused, both of them.                *)
(***************************************************************************)
Own ==
  /\ misfiled \subseteq excused /\ None \notin misfiled
  /\ OwnedNow(live.tok, live.acct)
  /\ \A a \in Accounts : OwnedNow(saved[a].tok, a)
  /\ op.kind = "switch" => OwnedNow(op.tok, op.label)
  /\ OwnedNow(op.found.live.tok, op.found.live.acct)
  /\ fetch.moved => fetch.active
  /\ ~fetch.moved => OwnedNow(fetch.tok, fetch.acct)

(***************************************************************************)
(* A token is still its account's when the server has issued another and   *)
(* more is noted.                                                          *)
(***************************************************************************)
LEMMA OwnedStays ==
  ASSUME NEW s, NEW r, Len(s) \in Nat, Len(r) \in Nat, Len(s) <= Len(r),
         \A i \in 1 .. Len(s) : r[i] = s[i],
         NEW m1, NEW m2, m1 \subseteq m2, NEW e1, NEW e2, e1 \subseteq e2,
         NEW t, NEW a, OwnedBy(s, m1, e1, t, a)
  PROVE  OwnedBy(r, m2, e2, t, a)
<1> DEFINE n == Len(s)
           m == Len(r)
<1>1. n \in Nat /\ m \in Nat /\ n <= m /\ \A i \in 1 .. n : r[i] = s[i]
  OBVIOUS
<1>2. t = NoToken \/ (t \in 1 .. n /\ (s[t] = a \/ (a \in m1 /\ s[t] \in e1)))
  BY DEF OwnedBy
<1> HIDE DEF n, m
<1>3. t = NoToken \/ (t \in 1 .. m /\ (r[t] = a \/ (a \in m2 /\ r[t] \in e2)))
  BY <1>1, <1>2
<1> QED BY <1>3 DEF OwnedBy, m

Stays(t, a) == OwnedBy(issued', misfiled', excused', t, a)

LEMMA OwnedNext ==
  ASSUME TypeInv, Next, NEW t, NEW a, OwnedNow(t, a)
  PROVE  Stays(t, a)
  BY ServerTypeStep, Grows, OwnedStays DEF OwnedNow, Stays

(***************************************************************************)
(* Two accounts never have one token unless both are excused.              *)
(***************************************************************************)
LEMMA OneOwner ==
  ASSUME Own, NEW t, t # NoToken, NEW a, NEW b, a \notin excused,
         OwnedNow(t, a), OwnedNow(t, b)
  PROVE  a = b
  BY DEF Own, OwnedNow, OwnedBy

(***************************************************************************)
(* A new token is the account's it was issued to.                          *)
(***************************************************************************)
LEMMA NewIsOwned ==
  ASSUME NEW o, Issues(o), NEW a, o = a \/ (a \in misfiled' /\ o \in excused')
  PROVE  Stays(Len(issued) + 1, a)
<1> DEFINE n == Len(issued)
           m == Len(issued')
<1>1. n \in Nat /\ m = n + 1 /\ issued'[n + 1] = o
  BY DEF Issues, Grown
<1> HIDE DEF n, m
<1>2. n + 1 \in 1 .. m /\ issued'[n + 1] = o
  BY <1>1
<1> QED BY <1>2 DEF Stays, OwnedBy, n, m

LEMMA OwnNames ==
  ASSUME TypeInv, Own
  PROVE  live.tok # NoToken => live.acct # None
<1>1. CASE live.tok # NoToken
  <2>1. /\ live.tok \in 1 .. Len(issued)
        /\ issued[live.tok] = live.acct \/ live.acct \in misfiled
    BY <1>1 DEF Own, OwnedNow, OwnedBy
  <2>2. issued[live.tok] \in Accounts
    BY <2>1 DEF TypeInv, ServerType
  <2> QED BY <2>1, <2>2, DesktopAssumption DEF Own
<1> QED BY <1>1

(***************************************************************************)
(* A token that is renewed leaves its account with the new one.            *)
(***************************************************************************)
LEMMA RenewedIsOwned ==
  ASSUME TypeInv, Next, NEW t, NEW a, t # NoToken, OwnedNow(t, a), Issues(issued[t])
  PROVE  Stays(Len(issued) + 1, a)
<1>1. issued[t] = a \/ (a \in misfiled /\ issued[t] \in excused)
  BY DEF OwnedNow, OwnedBy
<1> QED BY <1>1, Grows, NewIsOwned

LEMMA OwnLive ==
  ASSUME TypeInv, Stages, Own, Next
  PROVE  Stays(live'.tok, live'.acct)
<1>s. ASSUME NEW t, NEW a, OwnedNow(t, a) PROVE Stays(t, a)
  BY <1>s, OwnedNext
<1>0. ASSUME NEW a PROVE Stays(NoToken, a)
  BY DEF Stays, OwnedBy
<1>n. NoLogin.tok = NoToken
  BY DEF NoLogin
<1>1. CASE SwapCredentials
  <2>1. live'.tok = op.tok /\ live'.acct = op.label /\ op.kind = "switch"
    BY <1>1 DEF SwapCredentials, At
  <2> QED BY <1>s, <2>1 DEF Own
<1>2. CASE Rollback
  BY <1>s, <1>2 DEF Rollback, Own
<1>3. CASE RollbackFails \/ Clear
  BY <1>0, <1>n, <1>3 DEF RollbackFails, Clear
<1>4. CASE ClearFails
  BY <1>s, <1>0, <1>n, <1>4 DEF ClearFails, Own
<1>5. CASE PutBack \/ PutBackFails
  <2>1. prelogin = op.found
    BY <1>5 DEF PutBack, PutBackFails, Stages, LiveIs, PutAside, OfACapture
  <2> QED BY <1>s, <1>5, <2>1 DEF PutBack, PutBackFails, Own
<1>6. CASE AppSignsIn
  <2>1. live'.tok = NoToken
    BY <1>6 DEF AppSignsIn, NoLogin
  <2> QED BY <1>0, <2>1
<1>7. CASE AppRenews
  <2>1. live'.tok = Len(issued) + 1 /\ live'.acct = live.acct
    BY <1>7, AppRenewsDoes DEF TypeInv, FilesType, Logins
  <2>2. live.tok # NoToken
    BY <1>7 DEF AppRenews, TypeInv, ServerType, NoToken
  <2> QED BY <1>7, <2>1, <2>2, AppRenewsDoes, RenewedIsOwned DEF Own
<1>8. CASE AppSignedIn
  <2>1. live'.tok = Len(issued) + 1 /\ live'.acct = live.acct
    BY <1>8, AppSignedInDoes DEF TypeInv, FilesType, Logins
  <2> QED BY <1>8, <2>1, AppSignedInDoes, NewIsOwned
<1>9. CASE live' = live
  BY <1>s, <1>9 DEF Own
<1> QED BY <1>1, <1>2, <1>3, <1>4, <1>5, <1>6, <1>7, <1>8, <1>9, LiveMoves

(***************************************************************************)
(* What is filed under an account is that account's, or both are noted.    *)
(***************************************************************************)
LEMMA OutgoingIs ==
  ASSUME TypeInv, Stages, op.pc \in {"snapshot", "state"}, Outgoing # None
  PROVE  /\ Outgoing \in Accounts /\ Outgoing \in registered
         /\ op.kind # "capture" => Outgoing = live.acct
<1>1. op.kind = "capture" => op.label \in registered \cup {None}
  BY DEF Stages, LabelIs
<1>2. registered \subseteq Accounts
  BY DEF TypeInv, FilesType
<1> QED BY <1>1, <1>2 DEF Outgoing

Files(a) == (SnapshotTokens /\ a = Outgoing) \/ (KeepProfile /\ a = op.label)

LEMMA FilingNoted ==
  ASSUME TypeInv, Stages, NEW a, Files(a)
  PROVE  /\ a \in Accounts
         /\ a = live.acct \/ (a \in misfiled' /\ {a, live.acct} \subseteq excused')
<1>1. CASE SnapshotTokens /\ a = Outgoing
  <2>1. op.pc = "snapshot" /\ Outgoing # None /\ NoteFiling(Outgoing)
    BY <1>1 DEF SnapshotTokens
  <2> QED BY <1>1, <2>1, OutgoingIs DEF NoteFiling, FilesAnothers
<1>2. CASE KeepProfile /\ a = op.label
  <2>1. op.pc = "keep" /\ NoteFiling(op.label)
    BY <1>2 DEF KeepProfile
  <2>2. op.kind = "capture" /\ op.label \in Accounts
    BY <2>1 DEF Stages, Course, LabelIs, SignedIn, OfACapture, TypeInv, OpType
  <2> QED BY <1>2, <2>1, <2>2 DEF NoteFiling, FilesAnothers
<1> QED BY <1>1, <1>2 DEF Files

LEMMA SavedTokens ==
  ASSUME TypeInv, Stages, Next, NEW a \in Accounts
  PROVE  \/ saved'[a].tok = saved[a].tok
         \/ SnapshotTokens /\ a = Outgoing /\ saved'[a].tok = live.tok
         \/ KeepProfile /\ a = op.label /\ saved'[a].tok = live.tok
         \/ CannotKeep /\ a = op.label /\ saved'[a].tok = NoToken
         \/ StoreRefreshed /\ a = fetch.acct /\ saved'[a].tok = fetch.tok
<1>0. saved \in [Accounts -> Profiles]
  BY DEF TypeInv, FilesType
<1>1. CASE SnapshotTokens
  <2> DEFINE o == Outgoing
  <2>1. saved' = [saved EXCEPT ![o].tok = live.tok]
    BY <1>1 DEF SnapshotTokens
  <2> HIDE DEF o
  <2>2. saved'[a].tok = IF a = o THEN live.tok ELSE saved[a].tok
    BY <1>0, <2>1 DEF Profiles
  <2> QED BY <1>1, <2>2 DEF o
<1>2. CASE SnapshotState
  <2> DEFINE o == Outgoing
  <2>1. saved' = [saved EXCEPT ![o].browser = browser]
    BY <1>2 DEF SnapshotState
  <2> HIDE DEF o
  <2> QED BY <1>0, <2>1 DEF Profiles
<1>3. CASE KeepProfile
  BY <1>0, <1>3 DEF KeepProfile
<1>4. CASE CannotKeep
  BY <1>0, <1>4 DEF CannotKeep, NoProfile
<1>5. CASE StoreRefreshed
  BY <1>0, <1>5 DEF StoreRefreshed, Profiles
<1> QED BY <1>1, <1>2, <1>3, <1>4, <1>5, SavedMoves

(***************************************************************************)
(* A login a capture files is the account's, as far as is noted.           *)
(***************************************************************************)
LEMMA FiledIsOwned ==
  ASSUME TypeInv, Stages, Own, Next, NEW a, Files(a)
  PROVE  Stays(live.tok, a)
<1>1. a = live.acct \/ (a \in misfiled' /\ {a, live.acct} \subseteq excused')
  BY FilingNoted
<1>2. Stays(live.tok, live.acct)
  BY OwnedNext DEF Own
<1> QED BY <1>1, <1>2 DEF Stays, OwnedBy

LEMMA NotedStays ==
  ASSUME TypeInv, Stages, Own, Next
  PROVE  misfiled' \subseteq excused' /\ None \notin misfiled'
<1>1. excused \subseteq excused' /\ None \notin Accounts
  BY Grows, DesktopAssumption
<1>2. CASE SnapshotTokens /\ misfiled' = misfiled \cup {Outgoing}
           /\ excused' = excused \cup {Outgoing, live.acct}
  BY <1>1, <1>2 DEF Own, SnapshotTokens
<1>3. CASE KeepProfile /\ misfiled' = misfiled \cup {op.label}
           /\ excused' = excused \cup {op.label, live.acct}
  BY <1>1, <1>3, FilingNoted DEF Own, Files
<1>4. CASE misfiled' = misfiled
  BY <1>1, <1>4 DEF Own
<1> QED BY <1>2, <1>3, <1>4, MisfiledMoves

LEMMA OwnStep ==
  ASSUME TypeInv, Stages, Own, Next
  PROVE  Own'
<1>s. ASSUME NEW t, NEW a, OwnedNow(t, a) PROVE Stays(t, a)
  BY <1>s, OwnedNext
<1>0. ASSUME NEW a PROVE Stays(NoToken, a) /\ Stays(0, a)
  BY DEF Stays, OwnedBy, NoToken
<1>n. NoLogin.tok = NoToken
  BY DEF NoLogin
<1>1. Stays(live'.tok, live'.acct)
  BY OwnLive
<1>2. ASSUME NEW a \in Accounts PROVE Stays(saved'[a].tok, a)
  <2>1. CASE StoreRefreshed /\ a = fetch.acct /\ saved'[a].tok = fetch.tok
    <3>1. ~fetch.moved
      BY <2>1 DEF StoreRefreshed, Stages, LockInv, Own
    <3> QED BY <1>s, <2>1, <3>1 DEF Own
  <2>2. CASE \/ SnapshotTokens /\ a = Outgoing /\ saved'[a].tok = live.tok
             \/ KeepProfile /\ a = op.label /\ saved'[a].tok = live.tok
    BY <2>2, FiledIsOwned DEF Files
  <2>3. CASE saved'[a].tok = saved[a].tok \/ saved'[a].tok = NoToken
    BY <1>s, <1>0, <2>3 DEF Own
  <2> QED BY <2>1, <2>2, <2>3, SavedTokens
<1>3. /\ op'.kind = "switch" => Stays(op'.tok, op'.label)
      /\ Stays(op'.found.live.tok, op'.found.live.acct)
  <2>1. CASE OpSame
    BY <1>s, <2>1 DEF OpSame, Own
  <2>2. CASE Over
    BY <1>0, <1>n, <2>2 DEF Over
  <2>3. CASE PlanSwitch
    <3>1. PICK a \in registered : op'.tok = saved[a].tok /\ op'.label = a /\ op'.found.live = NoLogin
      BY <2>3, PlanSwitchDoes
    <3>2. a \in Accounts
      BY DEF TypeInv, FilesType
    <3> QED BY <1>s, <1>0, <1>n, <3>1, <3>2 DEF Own
  <2>4. CASE BeginCapture
    BY <1>0, <1>n, <2>4, BeginCaptureDoes
  <2>5. CASE Quit
    BY <1>s, <2>5, QuitDoes DEF Aside, TypeInv, Own
  <2>6. CASE NewLogin
    <3>1. op.kind = "capture"
      BY <2>6 DEF NewLogin, Stages, Course, OfACapture
    <3> QED BY <1>s, <2>6, <3>1, NewLoginDoes DEF TypeInv, Own
  <2> QED BY <2>1, <2>2, <2>3, <2>4, <2>5, <2>6, OpMoves DEF TypeInv
<1>4. /\ fetch'.moved => fetch'.active
      /\ ~fetch'.moved => Stays(fetch'.tok, fetch'.acct)
  <2>1. CASE fetch' = fetch
    BY <1>s, <2>1 DEF Own
  <2>2. CASE Resolve
    <3>1. PICK a : fetch' = [NoFetch EXCEPT !.pc = "resolved", !.acct = a, !.active = (live.acct = a)]
      BY <2>2 DEF Resolve
    <3>2. fetch'.tok = NoToken /\ fetch'.moved = FALSE
      BY <3>1 DEF NoFetch
    <3> QED BY <1>0, <3>2
  <2>3. CASE LockAndRead
    <3>0. fetch.acct \in Accounts
      BY <2>3 DEF LockAndRead, TypeInv, FetchType, FilesType
    <3> DEFINE t == IF fetch.active THEN live.tok ELSE saved[fetch.acct].tok
               mv == fetch.active /\ live.acct # fetch.acct
    <3>1. fetch' = NoFetch \/ fetch' = [fetch EXCEPT !.pc = "holding", !.tok = t, !.moved = mv]
      BY <2>3 DEF LockAndRead
    <3> HIDE DEF t, mv
    <3>2. \/ fetch'.tok = 0 /\ fetch'.moved = FALSE
          \/ /\ fetch'.tok = t /\ fetch'.acct = fetch.acct /\ fetch'.active = fetch.active
             /\ fetch'.moved = mv
      BY <3>1, NoFetchIs DEF TypeInv, FetchType
    <3>3. ~mv => Stays(t, fetch.acct)
      BY <1>s, <3>0 DEF t, mv, Own
    <3>4. mv => fetch.active
      BY DEF mv
    <3> QED BY <1>0, <3>2, <3>3, <3>4
  <2>4. CASE LockTimesOut \/ RefreshedIsLost \/ Ask
    BY <1>0, <2>4, NoFetchIs DEF LockTimesOut, RefreshedIsLost, Ask
  <2>5. CASE Refresh
    <3>1. ~fetch.active /\ ~fetch.moved /\ fetch.tok # NoToken
      BY <2>5 DEF Refresh, MayRefresh, Stages, LockInv, Own
    <3> DEFINE t == Len(issued) + 1
    <3>3. fetch' = [fetch EXCEPT !.pc = "exchanged", !.tok = t]
      BY <2>5, RefreshDoes
    <3>4. Stays(t, fetch.acct)
      BY <2>5, <3>1, RefreshDoes, RenewedIsOwned DEF Own
    <3> HIDE DEF t
    <3>5. fetch'.tok = t /\ fetch'.acct = fetch.acct /\ fetch'.moved = fetch.moved
      BY <3>3 DEF TypeInv, FetchType
    <3> QED BY <3>1, <3>4, <3>5
  <2>6. CASE StoreRefreshed
    <3>1. /\ fetch'.tok = fetch.tok /\ fetch'.acct = fetch.acct /\ fetch'.active = fetch.active
          /\ fetch'.moved = fetch.moved
      BY <2>6 DEF StoreRefreshed, TypeInv, FetchType
    <3> QED BY <1>s, <3>1 DEF Own
  <2> QED BY <2>1, <2>2, <2>3, <2>4, <2>5, <2>6, FetchMoves DEF Fetch
<1> QED BY <1>1, <1>2, <1>3, <1>4, NotedStays DEF Own, OwnedNow, Stays

-----------------------------------------------------------------------------
(* A switch or capture ends whole. *)

Between == {"restore", "rollback", "undo"}

(***************************************************************************)
(* While nothing has torn the files, tokens and browser state are of one   *)
(* account but between the two halves of a replacement, the login that was *)
(* found is whole, and every profile holds its own account's state: unless *)
(* the account has a profile that a capture gave another's login.          *)
(***************************************************************************)
OneAccount ==
  /\ op.pc \notin Between => browser = live.acct \/ live.acct \in misfiled
  /\ op.found.browser = op.found.live.acct \/ op.found.live.acct \in misfiled
  /\ op.kind = "switch" => saved[op.label].browser = op.label \/ op.label \in misfiled
  /\ \A a \in Accounts \ misfiled : saved[a].browser \in {None, a}

ClosedForAReason == app = "down" /\ op.pc = "idle" => closed # "no"

WholeInv == ClosedForAReason /\ (mishaps = {} => OneAccount)

LEMMA MishapsGrow ==
  ASSUME Next
  PROVE  mishaps \subseteq mishaps'
<1>1. CASE Switch
  BY <1>1 DEF Switch, PlanSwitch, SwitchCannotQuit, Archive, CannotArchive, MergeHistory,
     SwapCredentials, RestoreState, RestoreFails, Rollback, RollbackFails, history
<1>2. CASE Capture
  BY <1>2 DEF Capture, BeginCapture, CaptureCannotQuit, Backup, Clear, ClearFails, OpenLogin,
     CannotOpenLogin, AlreadySaved, NewLogin, GiveUp, QuitAgain, PutBack, PutBackFails,
     KeepProfile, WriteMeta, CannotKeep, history
<1>3. CASE Both
  BY <1>3 DEF Both, Quit, NothingToSnapshot, SnapshotRefused, SnapshotTokens, SnapshotState,
     StepFails, Relaunch, CannotRelaunch, Crash, history
<1>4. CASE App
  BY <1>4 DEF App, AppRenews, AppSignsIn, AppSignedIn, UserOpensApp, history
<1>5. CASE Fetch
  BY <1>5 DEF Fetch, Resolve, LockAndRead, LockTimesOut, Refresh, StoreRefreshed,
     RefreshedIsLost, Ask, history
<1> QED BY <1>1, <1>2, <1>3, <1>4, <1>5 DEF Next

LEMMA ClosedStep ==
  ASSUME TypeInv, Stages, ClosedForAReason, Next
  PROVE  ClosedForAReason'
<1>0. /\ app = "down" /\ op.pc = "idle" => closed # "no"
      /\ op.pc = "wait" => app = "up"
  BY DEF ClosedForAReason, Stages, Course
<1>a. ASSUME NEW pc, Go(pc) PROVE op'.pc = pc
  BY <1>a, MovesOn DEF TypeInv
<1>b. ASSUME NEW why, Leave(why) PROVE closed' = why
  BY <1>b DEF Leave
<1> SUFFICES app' = "down" /\ op'.pc = "idle" => closed' # "no"
  BY DEF ClosedForAReason
<1>1. CASE PlanSwitch
  BY <1>1, <1>0, PlanSwitchDoes
     DEF PlanSwitch, files, history, OnError
<1>2. CASE BeginCapture
  BY <1>2, <1>0, BeginCaptureDoes
     DEF BeginCapture, files, history, OnError
<1>3. CASE Quit
  BY <1>3, <1>0, QuitDoes
     DEF Quit, AfterQuit, TypeInv, files, history, OnError
<1>4. CASE NewLogin
  BY <1>4, <1>0, NewLoginDoes
     DEF NewLogin, TypeInv, files, history, OnError
<1>5. CASE SwitchCannotQuit \/ Archive \/ CannotArchive \/ MergeHistory
  BY <1>5, <1>0, <1>a
     DEF SwitchCannotQuit, Archive, CannotArchive, MergeHistory, At, files, history, OnError
<1>6. CASE SwapCredentials \/ RestoreState \/ RestoreFails \/ Rollback \/ RollbackFails
  BY <1>6, <1>0, <1>a
     DEF SwapCredentials, RestoreState,
     RestoreFails, Rollback, RollbackFails, At, OnError, files, history
<1>7. CASE CaptureCannotQuit \/ AlreadySaved \/ Relaunch \/ CannotRelaunch \/ Crash
  BY <1>7, <1>0, <1>b
     DEF CaptureCannotQuit, AlreadySaved, Relaunch, CannotRelaunch, Crash, files, history, OnError
<1>8. CASE Backup \/ Clear \/ ClearFails \/ OpenLogin \/ CannotOpenLogin
  BY <1>8, <1>0, <1>a
     DEF Backup, Clear, ClearFails, OpenLogin, CannotOpenLogin, files, history, OnError
<1>9. CASE GiveUp \/ QuitAgain \/ PutBack \/ KeepProfile \/ WriteMeta \/ CannotKeep
  BY <1>9, <1>0, <1>a
     DEF GiveUp, QuitAgain, PutBack, KeepProfile, WriteMeta, CannotKeep, files, history, OnError
<1>10. CASE PutBackFails
  BY <1>10, <1>0, <1>a, <1>b
     DEF PutBackFails, files, history, OnError
<1>11. CASE NothingToSnapshot \/ SnapshotRefused \/ SnapshotTokens \/ SnapshotState
           \/ StepFails
  BY <1>11, <1>0, <1>a
     DEF NothingToSnapshot, SnapshotRefused, SnapshotTokens,
     SnapshotState, StepFails, AfterSnapshot, OnError, files, history
<1>12. CASE App
  BY <1>12, <1>0, AppDoes
     DEF App, AppRenews, AppSignsIn, AppSignedIn, UserOpensApp, files, history, OnError
<1>13. CASE Fetch
  BY <1>13, <1>0, FetchDoes
     DEF history, OnError
<1> QED BY <1>1, <1>2, <1>3, <1>4, <1>5, <1>6, <1>7, <1>8, <1>9, <1>10, <1>11, <1>12, <1>13
        DEF Next, Switch, Capture, Both

(***************************************************************************)
(* What each step makes of the browser state in a profile.                 *)
(***************************************************************************)
LEMMA SavedBrowsers ==
  ASSUME TypeInv, Stages, Next, NEW a \in Accounts
  PROVE  \/ saved'[a].browser = saved[a].browser
         \/ /\ SnapshotState \/ KeepProfile
            /\ a = live.acct \/ a \in misfiled'
            /\ saved'[a].browser = browser
         \/ CannotKeep /\ a = op.label /\ saved'[a].browser = None
<1>0. saved \in [Accounts -> Profiles]
  BY DEF TypeInv, FilesType
<1>1. CASE SnapshotTokens
  <2> DEFINE o == Outgoing
  <2>1. saved' = [saved EXCEPT ![o].tok = live.tok]
    BY <1>1 DEF SnapshotTokens
  <2> HIDE DEF o
  <2> QED BY <1>0, <2>1 DEF Profiles
<1>2. CASE SnapshotState
  <2> DEFINE o == Outgoing
  <2>1. saved' = [saved EXCEPT ![o].browser = browser] /\ op.pc = "state"
    BY <1>2 DEF SnapshotState
  <2>2. o = live.acct \/ o \in misfiled'
    BY <2>1, Grows DEF Stages, LabelIs, FiledAs
  <2> HIDE DEF o
  <2>3. saved'[a].browser = IF a = o THEN browser ELSE saved[a].browser
    BY <1>0, <2>1 DEF Profiles
  <2> QED BY <1>2, <2>2, <2>3
<1>3. CASE KeepProfile
  <2>1. op.label = live.acct \/ op.label \in misfiled'
    BY <1>3, FilingNoted DEF Files
  <2>2. saved'[a].browser = IF a = op.label THEN browser ELSE saved[a].browser
    BY <1>0, <1>3 DEF KeepProfile, Profiles
  <2> QED BY <1>3, <2>1, <2>2
<1>4. CASE CannotKeep
  BY <1>0, <1>4 DEF CannotKeep, NoProfile
<1>5. CASE StoreRefreshed
  BY <1>0, <1>5 DEF StoreRefreshed, Profiles
<1> QED BY <1>1, <1>2, <1>3, <1>4, <1>5, SavedMoves

LEMMA LiveWhole ==
  ASSUME TypeInv, Stages, OneAccount, Next, mishaps' = {}
  PROVE  op'.pc \notin Between => browser' = live'.acct \/ live'.acct \in misfiled'
<1> USE DEF Between
<1>0. /\ op.pc \notin Between => browser = live.acct \/ live.acct \in misfiled
      /\ op.found.browser = op.found.live.acct \/ op.found.live.acct \in misfiled
      /\ op.kind = "switch" => saved[op.label].browser = op.label \/ op.label \in misfiled
  BY DEF OneAccount
<1> SUFFICES op'.pc \notin Between => browser' = live'.acct \/ live'.acct \in misfiled
  BY Grows
<1>s. /\ op.pc \in PutAside => prelogin = op.found
      /\ op.pc = "restore" => live.acct = op.label
      /\ op.pc \in OfASwitch => op.kind = "switch"
      /\ op.pc \in OfACapture => op.kind = "capture"
  BY DEF Stages, LiveIs, Swapped, Course
<1> USE DEF PutAside, OfACapture, OfASwitch
<1>a. ASSUME NEW pc, Go(pc)
      PROVE  op'.pc = pc
  BY <1>a, MovesOn DEF TypeInv, OpSame
<1>b. ASSUME NEW why, Leave(why) PROVE op'.pc = "idle"
  BY <1>b, LeaveDoes
<1>d. op.kind \in {"none", "switch", "capture"}
  BY DEF TypeInv, OpType
<1>n. NoLogin.acct = None
  BY DEF NoLogin
<1>1. CASE PlanSwitch
  BY <1>1, <1>0, <1>s, <1>d, <1>n, PlanSwitchDoes
     DEF PlanSwitch, files, history, LockFree
<1>2. CASE BeginCapture
  BY <1>2, <1>0, <1>s, <1>d, <1>n, BeginCaptureDoes
     DEF BeginCapture, files, history, LockFree
<1>3. CASE Quit
  BY <1>3, <1>0, <1>s, <1>d, <1>n, QuitDoes
     DEF Quit, AfterQuit, TypeInv, files, history, LockFree
<1>4. CASE NewLogin
  BY <1>4, <1>0, <1>s, <1>d, <1>n, NewLoginDoes
     DEF NewLogin, TypeInv, files, history, LockFree
<1>5. CASE SwitchCannotQuit \/ Archive \/ CannotArchive \/ MergeHistory
  BY <1>5, <1>0, <1>s, <1>d, <1>n, <1>a
     DEF SwitchCannotQuit, Archive, CannotArchive, MergeHistory, At, files, history, LockFree
<1>6. CASE SwapCredentials \/ RestoreState \/ RestoreFails \/ Rollback \/ RollbackFails
  BY <1>6, <1>0, <1>s, <1>d, <1>n, <1>a
     DEF SwapCredentials, RestoreState,
     RestoreFails, Rollback, RollbackFails, At, OnError, files, history, LockFree
<1>7. CASE CaptureCannotQuit \/ AlreadySaved \/ Relaunch \/ CannotRelaunch \/ Crash
  BY <1>7, <1>0, <1>s, <1>d, <1>n, <1>b
     DEF CaptureCannotQuit, AlreadySaved, Relaunch, CannotRelaunch, Crash, files, history, LockFree
<1>8. CASE Backup \/ Clear \/ ClearFails \/ OpenLogin \/ CannotOpenLogin
  BY <1>8, <1>0, <1>s, <1>d, <1>n, <1>a
     DEF Backup, Clear, ClearFails, OpenLogin, CannotOpenLogin, files, history, LockFree
<1>9. CASE GiveUp \/ QuitAgain \/ PutBack \/ KeepProfile \/ WriteMeta \/ CannotKeep
  BY <1>9, <1>0, <1>s, <1>d, <1>n, <1>a
     DEF GiveUp, QuitAgain, PutBack, KeepProfile, WriteMeta, CannotKeep, files, history, LockFree
<1>10. CASE PutBackFails
  BY <1>10, <1>0, <1>s, <1>d, <1>n, <1>a, <1>b
     DEF PutBackFails, files, history, LockFree
<1>11. CASE NothingToSnapshot \/ SnapshotRefused \/ SnapshotTokens \/ SnapshotState
           \/ StepFails
  BY <1>11, <1>0, <1>s, <1>d, <1>n, <1>a
     DEF NothingToSnapshot, SnapshotRefused, SnapshotTokens,
     SnapshotState, StepFails, AfterSnapshot, OnError, files, history, LockFree
<1>12. CASE App
  <2>1. op' = op
    BY <1>12, AppDoes
  <2>2. CASE AppSignsIn
    BY <1>0, <2>1, <2>2 DEF AppSignsIn
  <2>3. CASE UserOpensApp
    BY <1>0, <2>1, <2>3 DEF UserOpensApp, files
  <2>4. CASE AppRenews \/ AppSignedIn
    <3>1. live'.acct = live.acct
      BY <2>4 DEF AppRenews, AppSignedIn, TypeInv, FilesType, Logins
    <3>2. browser' = browser
      BY <2>4 DEF AppRenews, AppSignedIn
    <3> QED BY <1>0, <2>1, <3>1, <3>2
  <2> QED BY <1>12, <2>2, <2>3, <2>4 DEF App
<1>13. CASE Fetch
  BY <1>13, <1>0, <1>s, <1>d, <1>n, FetchDoes
     DEF history, LockFree
<1> QED BY <1>1, <1>2, <1>3, <1>4, <1>5, <1>6, <1>7, <1>8, <1>9, <1>10, <1>11, <1>12, <1>13
        DEF Next, Switch, Capture, Both

LEMMA OneAccountStep ==
  ASSUME TypeInv, Stages, OneAccount, Next, mishaps' = {}
  PROVE  OneAccount'
<1>g. misfiled \subseteq misfiled'
  BY Grows
<1>1. op'.pc \notin Between => browser' = live'.acct \/ live'.acct \in misfiled'
  BY LiveWhole
<1>f. ASSUME SnapshotState \/ KeepProfile
      PROVE  browser = live.acct \/ live.acct \in misfiled
  BY <1>f DEF OneAccount, Between, SnapshotState, KeepProfile
<1>2. ASSUME NEW a \in Accounts, a \notin misfiled'
      PROVE  saved'[a].browser \in {None, a}
  <2>1. saved[a].browser \in {None, a}
    BY <1>g, <1>2 DEF OneAccount
  <2> QED BY <1>f, <1>g, <1>2, <2>1, SavedBrowsers
<1>3. op'.found.browser = op'.found.live.acct \/ op'.found.live.acct \in misfiled'
  <2>0. NoLogin.acct = None
    BY DEF NoLogin
  <2>1. CASE Quit
    <3>1. op'.found = Aside /\ (browser = live.acct \/ live.acct \in misfiled)
      BY <2>1, QuitDoes DEF TypeInv, OneAccount, Quit, Between
    <3> QED BY <1>g, <3>1 DEF Aside
  <2>2. CASE PlanSwitch \/ BeginCapture \/ Over
    BY <2>0, <2>2, PlanSwitchDoes, BeginCaptureDoes DEF Over
  <2>3. CASE OpSame \/ NewLogin
    BY <1>g, <2>3, NewLoginDoes DEF OpSame, OneAccount, TypeInv
  <2> QED BY <2>1, <2>2, <2>3, OpMoves DEF TypeInv
<1>4. ASSUME op'.kind = "switch", op'.label \notin misfiled'
      PROVE  saved'[op'.label].browser = op'.label
  <2>1. CASE PlanSwitch
    <3>1. PICK a \in registered : saved[a].browser # None /\ op'.label = a
      BY <2>1, PlanSwitchDoes
    <3>2. a \in Accounts /\ saved' = saved
      BY <2>1 DEF TypeInv, FilesType, PlanSwitch, files
    <3> QED BY <1>g, <1>4, <3>1, <3>2 DEF OneAccount
  <2>2. CASE OpSame \/ Quit
    <3>1. op'.kind = op.kind /\ op'.label = op.label
      BY <2>2, QuitDoes DEF OpSame, TypeInv
    <3>2. op.label \in Accounts /\ saved[op.label].browser = op.label
      BY <1>g, <1>4, <3>1 DEF OneAccount, Stages, Course, TypeInv, FilesType
    <3>3. ~CannotKeep
      BY <1>4, <3>1 DEF CannotKeep, Stages, Course, OfACapture
    <3> QED BY <1>f, <1>g, <1>4, <3>1, <3>2, <3>3, SavedBrowsers
  <2>3. CASE BeginCapture \/ Over
    BY <1>4, <2>3, BeginCaptureDoes DEF Over
  <2>4. CASE NewLogin
    BY <1>4, <2>4, NewLoginDoes DEF NewLogin, Stages, Course, OfACapture, TypeInv
  <2> QED BY <2>1, <2>2, <2>3, <2>4, OpMoves DEF TypeInv
<1> QED BY <1>1, <1>2, <1>3, <1>4 DEF OneAccount

LEMMA WholeStep ==
  ASSUME TypeInv, Stages, WholeInv, Next
  PROVE  WholeInv'
  BY ClosedStep, OneAccountStep, MishapsGrow DEF WholeInv

-----------------------------------------------------------------------------
(* Nobody's last token is thrown away. *)

Filed == {"state", "swap", "restore", "backup", "clear", "login", "wait", "saving", "giveup",
          "putback", "undo", "keep", "meta"}
Open == {"wait", "saving", "giveup"}

(***************************************************************************)
(* From the filing of the login that was found on, the profiles alone hold *)
(* a good token of every account: the application's may go.                *)
(***************************************************************************)
SavedSuffice == \A a \in registered \ excused : saved[a].tok \in alive

Replaceable ==
  \/ op.pc \in Filed
  \/ op.pc = "rollback" /\ live # op.found.live

(***************************************************************************)
(* What signs in meanwhile has tokens of its own, so renewing them spends  *)
(* neither a profile's nor the one that was put aside.                     *)
(***************************************************************************)
Apart ==
  op.pc \in Open =>
    \/ live.tok = NoToken
    \/ live.tok # op.found.live.tok /\ \A a \in Accounts : saved[a].tok # live.tok

(***************************************************************************)
(* A switch has put the token of the profile in place, or the account is   *)
(* excused; and the login it found is still good.                          *)
(***************************************************************************)
SwapIsCurrent ==
  op.pc \in {"restore", "rollback"} =>
    live = op.found.live \/ op.label \in excused \/ op.tok = saved[op.label].tok

FoundIsGood ==
  op.pc \in Filed \cup {"rollback"} =>
    \/ op.found.live.tok = NoToken \/ op.found.live.acct \in excused
    \/ op.found.live.tok \in alive

KeptInv ==
  /\ EveryLoginKept /\ AppKeepsItsLogin
  /\ Replaceable => SavedSuffice
  /\ Apart /\ SwapIsCurrent /\ FoundIsGood

LEMMA CopiesAre ==
  ASSUME NEW a
  PROVE  Copies(a) \cap alive # {} <=>
           saved[a].tok \in alive \/ (live.acct = a /\ live.tok \in alive)
  BY DEF Copies

LEMMA CopiesBecome ==
  ASSUME NEW a
  PROVE  (Copies(a) \cap alive # {})' <=>
           saved'[a].tok \in alive' \/ (live'.acct = a /\ live'.tok \in alive')
  BY DEF Copies

(***************************************************************************)
(* The steps of a switch or capture: nobody asks the server anything, and  *)
(* no fetch holds the lock.                                                *)
(***************************************************************************)
OpStep == Switch \/ Capture \/ Both

LEMMA OpStepAlone ==
  ASSUME OpStep
  PROVE  UNCHANGED <<server, fetch>>
<1>1. CASE Switch
  BY <1>1 DEF Switch, PlanSwitch, SwitchCannotQuit, Archive, CannotArchive, MergeHistory,
     SwapCredentials, RestoreState, RestoreFails, Rollback, RollbackFails
<1>2. CASE Capture
  BY <1>2 DEF Capture, BeginCapture, CaptureCannotQuit, Backup, Clear, ClearFails, OpenLogin,
     CannotOpenLogin, AlreadySaved, NewLogin, GiveUp, QuitAgain, PutBack, PutBackFails,
     KeepProfile, WriteMeta, CannotKeep
<1>3. CASE Both
  BY <1>3 DEF Both, Quit, NothingToSnapshot, SnapshotRefused, SnapshotTokens, SnapshotState,
     StepFails, Relaunch, CannotRelaunch, Crash
<1> QED BY <1>1, <1>2, <1>3 DEF OpStep

LEMMA OpStepBusy ==
  ASSUME OpStep
  PROVE  op.pc # "idle" \/ PlanSwitch \/ BeginCapture
<1>1. CASE Switch
  BY <1>1 DEF Switch, PlanSwitch, SwitchCannotQuit, Archive, CannotArchive, MergeHistory,
     SwapCredentials, RestoreState, RestoreFails, Rollback, RollbackFails, At
<1>2. CASE Capture
  BY <1>2 DEF Capture, BeginCapture, CaptureCannotQuit, Backup, Clear, ClearFails, OpenLogin,
     CannotOpenLogin, AlreadySaved, NewLogin, GiveUp, QuitAgain, PutBack, PutBackFails,
     KeepProfile, WriteMeta, CannotKeep, At
<1>3. CASE Both
  BY <1>3 DEF Both, Quit, NothingToSnapshot, SnapshotRefused, SnapshotTokens, SnapshotState,
     StepFails, Relaunch, CannotRelaunch, Crash, At
<1> QED BY <1>1, <1>2, <1>3 DEF OpStep

LEMMA OpStepIs ==
  ASSUME TypeInv, Stages, EveryLoginKept, OpStep
  PROVE  /\ alive' = alive /\ fetch' = fetch /\ fetch.pc # "exchanged"
         /\ \A a \in registered \ excused :
              saved[a].tok \in alive \/ (live.acct = a /\ live.tok \in alive)
         /\ Next
<1>1. alive' = alive /\ fetch' = fetch
  BY OpStepAlone DEF server
<1>2. fetch.pc # "exchanged"
  BY OpStepBusy DEF PlanSwitch, BeginCapture, LockFree, Stages, LockInv
<1> QED BY <1>1, <1>2, CopiesAre DEF EveryLoginKept, OpStep, Next

(***************************************************************************)
(* What a switch or capture makes of the tokens in the profiles of saved   *)
(* accounts.                                                               *)
(***************************************************************************)
LEMMA OpSaved ==
  ASSUME TypeInv, Stages, Next, OpStep, NEW a \in registered
  PROVE  \/ saved'[a].tok = saved[a].tok
         \/ SnapshotTokens /\ a = Outgoing /\ saved'[a].tok = live.tok /\ live.tok # NoToken
<1>1. a \in Accounts
  BY DEF TypeInv, FilesType
<1>2. a # op.label \/ ~(KeepProfile \/ CannotKeep)
  BY DEF KeepProfile, CannotKeep, Stages, LabelIs, SignedIn
<1>3. saved'[a].tok # saved[a].tok => ~StoreRefreshed
  BY OpStepAlone DEF StoreRefreshed, TypeInv, FetchType
<1> QED BY <1>1, <1>2, <1>3, SavedTokens DEF SnapshotTokens


(***************************************************************************)
(* Outside the stages at which a login is replaced, it stays.              *)
(***************************************************************************)
LEMMA OpLive ==
  ASSUME OpStep, op.pc \notin Filed, op.pc = "rollback" => live = op.found.live
  PROVE  live' = live \/ RollbackFails
<1>1. CASE Switch
  BY <1>1 DEF Switch, PlanSwitch, SwitchCannotQuit, Archive, CannotArchive, MergeHistory,
     SwapCredentials, RestoreState, RestoreFails, Rollback, RollbackFails, At, files, Filed
<1>2. CASE Capture
  BY <1>2 DEF Capture, BeginCapture, CaptureCannotQuit, Backup, Clear, ClearFails, OpenLogin,
     CannotOpenLogin, AlreadySaved, NewLogin, GiveUp, QuitAgain, PutBack, PutBackFails,
     KeepProfile, WriteMeta, CannotKeep, At, files, Filed
<1>3. CASE Both
  BY <1>3 DEF Both, Quit, NothingToSnapshot, SnapshotRefused, SnapshotTokens, SnapshotState,
     StepFails, Relaunch, CannotRelaunch, Crash, At, files, Filed
<1> QED BY <1>1, <1>2, <1>3 DEF OpStep

LEMMA OpSuffices ==
  ASSUME TypeInv, Stages, KeptInv, OpStep, ~WriteMeta,
         SavedSuffice \/ SnapshotTokens \/ NothingToSnapshot
  PROVE  SavedSuffice'
<1>0. /\ alive' = alive /\ Next
      /\ \A a \in registered \ excused :
           saved[a].tok \in alive \/ (live.acct = a /\ live.tok \in alive)
  BY OpStepIs DEF KeptInv
<1>1. registered' = registered /\ excused \subseteq excused'
  BY <1>0, RegisteredMoves, Grows
<1>2. ASSUME NEW a \in registered, a \notin excused'
      PROVE  saved'[a].tok \in alive
  <2>e. a \notin excused
    BY <1>1, <1>2
  <2>1. CASE saved'[a].tok = saved[a].tok /\ SavedSuffice
    BY <2>e, <2>1 DEF SavedSuffice
  <2>2. CASE SnapshotTokens
    <3>1. /\ Outgoing # live.acct => {Outgoing, live.acct} \subseteq excused'
          /\ op.pc = "snapshot" /\ Outgoing # None /\ live.tok # NoToken
      <4>1. /\ NoteFiling(Outgoing)
            /\ op.pc = "snapshot" /\ Outgoing # None /\ live.tok # NoToken
        BY <2>2 DEF SnapshotTokens
      <4> QED BY <4>1, OutgoingIs DEF NoteFiling, FilesAnothers
    <3>2. CASE a = live.acct
      <4>1. Outgoing = a /\ a \in Accounts
        BY <1>2, <3>1, <3>2 DEF TypeInv, FilesType
      <4>2. saved'[a].tok = live.tok
        <5> DEFINE o == Outgoing
        <5>1. saved' = [saved EXCEPT ![o].tok = live.tok] /\ o = a
          BY <2>2, <4>1 DEF SnapshotTokens
        <5> HIDE DEF o
        <5> QED BY <4>1, <5>1 DEF TypeInv, FilesType, Profiles
      <4>3. live.tok \in alive
        BY <2>e, <3>1, <3>2 DEF KeptInv, AppKeepsItsLogin
      <4> QED BY <4>2, <4>3
    <3>3. CASE a # live.acct
      <4>1. a # Outgoing
        BY <1>2, <3>1, <3>3
      <4> QED BY <1>0, <2>e, <3>3, <4>1, OpSaved
    <3> QED BY <3>2, <3>3
  <2>3. CASE NothingToSnapshot
    <3>1. a # live.acct /\ saved' = saved
      BY <1>2, <2>3 DEF NothingToSnapshot, files
    <3> QED BY <1>0, <2>e, <3>1
  <2> QED BY <1>0, <1>2, <2>1, <2>2, <2>3, OpSaved
<1> QED BY <1>0, <1>1, <1>2 DEF SavedSuffice

LEMMA OpKeeps ==
  ASSUME TypeInv, Stages, Own, KeptInv, OpStep
  PROVE  EveryLoginKept'
<1>0. /\ alive' = alive /\ fetch' = fetch /\ Next
      /\ \A a \in registered \ excused :
           saved[a].tok \in alive \/ (live.acct = a /\ live.tok \in alive)
  BY OpStepIs DEF KeptInv
<1>g. excused \subseteq excused'
  BY <1>0, Grows
<1>1. CASE WriteMeta
  <2>1. /\ op.pc = "meta" /\ registered' = registered \cup {op.label}
        /\ live' = live /\ saved' = saved
    BY <1>1 DEF WriteMeta
  <2>2. op.label \notin excused => live.acct = op.label /\ live.tok # NoToken
    BY <2>1 DEF Stages, LabelIs, FiledAs, Own
  <2>3. op.label \notin excused => live.tok \in alive
    BY <2>2 DEF KeptInv, AppKeepsItsLogin
  <2>4. ASSUME NEW a \in registered', a \notin excused'
        PROVE  (Copies(a) \cap alive # {})'
    BY <1>0, <1>g, <2>1, <2>2, <2>3, <2>4, CopiesBecome
  <2> QED BY <2>4 DEF EveryLoginKept
<1>2. CASE ~WriteMeta /\ (SavedSuffice \/ SnapshotTokens \/ NothingToSnapshot)
  <2>1. SavedSuffice'
    BY <1>2, OpSuffices
  <2>2. ASSUME NEW a \in registered', a \notin excused'
        PROVE  (Copies(a) \cap alive # {})'
    BY <2>1, <2>2, CopiesBecome DEF SavedSuffice
  <2> QED BY <2>2 DEF EveryLoginKept
<1>3. CASE ~WriteMeta /\ ~SavedSuffice /\ ~SnapshotTokens /\ ~NothingToSnapshot
  <2>1. op.pc \notin Filed /\ (op.pc = "rollback" => live = op.found.live)
    BY <1>3 DEF KeptInv, Replaceable
  <2>2. live' = live \/ RollbackFails
    BY <1>0, <2>1, LiveMoves, OpLive
  <2>3. registered' = registered
    BY <1>0, <1>3, RegisteredMoves
  <2>4. ASSUME NEW a \in registered', a \notin excused'
        PROVE  (Copies(a) \cap alive # {})'
    <3>1. saved'[a].tok = saved[a].tok
      BY <1>0, <1>3, <2>3, OpSaved
    <3>2. CASE live' = live
      BY <1>0, <1>g, <2>3, <2>4, <3>1, <3>2, CopiesBecome
    <3>3. CASE RollbackFails
      <4>1. a # live.acct
        BY <2>1, <2>4, <3>3 DEF RollbackFails, At
      <4> QED BY <1>0, <1>g, <2>3, <2>4, <3>1, <4>1, CopiesBecome
    <3> QED BY <2>2, <3>2, <3>3
  <2> QED BY <2>4 DEF EveryLoginKept
<1> QED BY <1>1, <1>2, <1>3


(***************************************************************************)
(* What a switch or capture makes of the application's login.              *)
(***************************************************************************)
LEMMA OpLiveMoves ==
  ASSUME OpStep
  PROVE  \/ live' = live \/ SwapCredentials \/ Rollback \/ RollbackFails
         \/ Clear \/ ClearFails \/ PutBack \/ PutBackFails
<1>1. CASE Switch
  BY <1>1 DEF Switch, PlanSwitch, SwitchCannotQuit, Archive, CannotArchive, MergeHistory,
     SwapCredentials, RestoreState, RestoreFails, Rollback, RollbackFails, files
<1>2. CASE Capture
  BY <1>2 DEF Capture, BeginCapture, CaptureCannotQuit, Backup, Clear, ClearFails, OpenLogin,
     CannotOpenLogin, AlreadySaved, NewLogin, GiveUp, QuitAgain, PutBack, PutBackFails,
     KeepProfile, WriteMeta, CannotKeep, files
<1>3. CASE Both
  BY <1>3 DEF Both, Quit, NothingToSnapshot, SnapshotRefused, SnapshotTokens, SnapshotState,
     StepFails, Relaunch, CannotRelaunch, Crash, files
<1> QED BY <1>1, <1>2, <1>3 DEF OpStep

LEMMA OpAppKeeps ==
  ASSUME TypeInv, Stages, KeptInv, OpStep
  PROVE  AppKeepsItsLogin'
<1>0. alive' = alive /\ Next /\ excused \subseteq excused'
  BY OpStepIs, Grows DEF KeptInv
<1>k. live.tok # NoToken /\ live.acct \notin excused => live.tok \in alive
  BY DEF KeptInv, AppKeepsItsLogin
<1>n. NoLogin.tok = NoToken
  BY DEF NoLogin
<1> SUFFICES ASSUME live'.tok # NoToken, live'.acct \notin excused'
             PROVE  live'.tok \in alive
  BY <1>0 DEF AppKeepsItsLogin
<1>1. CASE live' = live
  BY <1>0, <1>1, <1>k
<1>2. CASE SwapCredentials
  <2>1. /\ op.pc = "swap" /\ op.kind = "switch"
        /\ live'.acct = op.label /\ live'.tok = op.tok
        /\ excused' = IF op.tok # saved[op.label].tok THEN excused \cup {op.label} ELSE excused
    BY <1>2 DEF SwapCredentials, At
  <2>2. SavedSuffice /\ op.label \in registered
    BY <2>1 DEF KeptInv, Replaceable, Filed, Stages, Course
  <2> QED BY <2>1, <2>2 DEF SavedSuffice
<1>3. CASE Rollback
  <2>1. live' = op.found.live /\ op.pc = "rollback"
    BY <1>3 DEF Rollback, At
  <2> QED BY <1>0, <2>1 DEF KeptInv, FoundIsGood
<1>4. CASE RollbackFails \/ Clear \/ ClearFails
  BY <1>0, <1>k, <1>n, <1>4 DEF RollbackFails, Clear, ClearFails
<1>5. CASE PutBack \/ PutBackFails
  <2>1. /\ op.pc \in {"putback", "undo"}
        /\ live' = live \/ live' = prelogin.live
    BY <1>5 DEF PutBack, PutBackFails
  <2>2. prelogin = op.found
    BY <2>1 DEF Stages, LiveIs, PutAside, OfACapture
  <2>3. \/ op.found.live.tok = NoToken \/ op.found.live.acct \in excused
        \/ op.found.live.tok \in alive
    BY <2>1 DEF KeptInv, FoundIsGood, Filed
  <2> QED BY <1>0, <1>k, <2>1, <2>2, <2>3
<1> QED BY <1>1, <1>2, <1>3, <1>4, <1>5, OpLiveMoves

LEMMA OpReplaceable ==
  ASSUME TypeInv, Stages, KeptInv, OpStep, Replaceable'
  PROVE  SavedSuffice'
<1> USE DEF Filed
<1>0. /\ alive' = alive /\ Next
      /\ \A a \in registered \ excused :
           saved[a].tok \in alive \/ (live.acct = a /\ live.tok \in alive)
  BY OpStepIs DEF KeptInv
<1>a. ASSUME NEW pc, Go(pc)
      PROVE  op'.pc = pc /\ op'.kind = op.kind /\ op'.label = op.label /\ op'.found = op.found
  BY <1>a, MovesOn DEF TypeInv, OpSame
<1>b. ASSUME NEW why, Leave(why) PROVE op'.pc = "idle" /\ op'.kind = "none"
  BY <1>b, LeaveDoes
<1>r. Replaceable => SavedSuffice
  BY DEF KeptInv
<1>p. \/ op'.pc \in Filed
      \/ op'.pc = "rollback" /\ live' # op'.found.live
  BY DEF Replaceable
<1>f. op.pc \in Untouched => live = op.found.live
  BY DEF Stages, LiveIs, Aside
<1>s. /\ op.pc \in OfASwitch => op.kind = "switch"
      /\ op.pc \in OfACapture => op.kind = "capture"
  BY DEF Stages, Course
<1>1. ~WriteMeta
  BY <1>a, <1>p DEF WriteMeta
<1>2. CASE SnapshotTokens \/ NothingToSnapshot \/ SavedSuffice
  BY <1>1, <1>2, OpSuffices
<1>3. CASE ~SnapshotTokens /\ ~NothingToSnapshot /\ ~SavedSuffice
  <2>1. op.pc \notin Filed /\ ~(op.pc = "rollback" /\ live # op.found.live)
    BY <1>r, <1>3 DEF Replaceable
  <2>2. CASE Switch
    <3>1. ~PlanSwitch
      BY <1>p, PlanSwitchDoes
    <3>2. live' = live \/ RollbackFails
      BY <1>3, <2>1, OpLive
    <3> QED BY <1>a, <1>p, <1>f, <2>1, <2>2, <3>1, <3>2 DEF Switch, SwitchCannotQuit, Archive,
        CannotArchive, MergeHistory, SwapCredentials, RestoreState, RestoreFails, Rollback,
        RollbackFails, At
  <2>3. CASE Capture
    <3>1. CASE BeginCapture
      BY <1>p, <3>1, BeginCaptureDoes
    <3>2. CASE NewLogin
      BY <2>1, <3>2 DEF NewLogin
    <3>3. CASE CaptureCannotQuit \/ AlreadySaved
      BY <1>b, <1>p, <3>3 DEF CaptureCannotQuit, AlreadySaved
    <3> QED BY <2>1, <2>3, <3>1, <3>2, <3>3 DEF Capture, Backup, Clear, ClearFails, OpenLogin,
        CannotOpenLogin, GiveUp, QuitAgain, PutBack, PutBackFails, KeepProfile, WriteMeta,
        CannotKeep
  <2>4. CASE Both
    <3>1. CASE Quit
      BY <1>p, <2>1, <3>1, QuitDoes DEF Quit, AfterQuit, TypeInv
    <3>2. CASE Relaunch \/ CannotRelaunch \/ Crash
      BY <1>b, <1>p, <3>2 DEF Relaunch, CannotRelaunch, Crash
    <3>3. CASE SnapshotRefused \/ StepFails
      <4>1. /\ op.pc \in {"history", "snapshot", "state", "swap", "backup"}
            /\ Go(OnError) /\ live' = live
        BY <3>3 DEF SnapshotRefused, StepFails, files
      <4>2. op.pc \in {"history", "snapshot"}
        BY <2>1, <4>1
      <4>3. live = op.found.live
        BY <1>f, <4>2 DEF Untouched
      <4>4. op'.pc = OnError /\ op'.found = op.found
        BY <1>a, <4>1
      <4> QED BY <1>p, <4>1, <4>3, <4>4 DEF OnError
    <3>4. CASE SnapshotState
      BY <2>1, <3>4 DEF SnapshotState
    <3> QED BY <1>3, <2>4, <3>1, <3>2, <3>3, <3>4 DEF Both
  <2> QED BY <2>2, <2>3, <2>4 DEF OpStep
<1> QED BY <1>2, <1>3


LEMMA OpApart ==
  ASSUME TypeInv, Stages, Apart, OpStep
  PROVE  Apart'
<1> USE DEF Open, OfASwitch, OfACapture
<1>0. op.pc \in Open =>
        \/ live.tok = NoToken
        \/ live.tok # op.found.live.tok /\ \A a \in Accounts : saved[a].tok # live.tok
  BY DEF Apart
<1>i. op.pc = "login" => live = NoLogin
  BY DEF Stages, LiveIs
<1>s. /\ op.pc \in OfASwitch => op.kind = "switch"
      /\ op.pc \in OfACapture => op.kind = "capture"
  BY DEF Stages, Course
<1>a. ASSUME NEW pc, Go(pc)
      PROVE  /\ op'.pc = pc /\ op'.kind = op.kind /\ op'.label = op.label /\ op'.tok = op.tok
             /\ op'.found = op.found
  BY <1>a, MovesOn DEF TypeInv, OpSame
<1>b. ASSUME NEW why, Leave(why) PROVE op'.pc = "idle" /\ op'.kind = "none"
  BY <1>b, LeaveDoes
<1>n. NoLogin.tok = NoToken
  BY DEF NoLogin
<1> SUFFICES op'.pc \in Open =>
        \/ live'.tok = NoToken
        \/ live'.tok # op'.found.live.tok /\ \A a \in Accounts : saved'[a].tok # live'.tok
  BY DEF Apart
<1>1. CASE PlanSwitch
  BY <1>1, <1>0, <1>i, <1>s, <1>n, PlanSwitchDoes
     DEF PlanSwitch, files
<1>2. CASE BeginCapture
  BY <1>2, <1>0, <1>i, <1>s, <1>n, BeginCaptureDoes
     DEF BeginCapture, files
<1>3. CASE Quit
  BY <1>3, <1>0, <1>i, <1>s, <1>n, QuitDoes
     DEF Quit, AfterQuit, TypeInv, files
<1>4. CASE NewLogin
  BY <1>4, <1>0, <1>i, <1>s, <1>n, NewLoginDoes
     DEF NewLogin, TypeInv, files
<1>5. CASE SwitchCannotQuit \/ Archive \/ CannotArchive \/ MergeHistory
  BY <1>5, <1>0, <1>i, <1>s, <1>n, <1>a
     DEF SwitchCannotQuit, Archive, CannotArchive, MergeHistory, At, files
<1>6. CASE SwapCredentials \/ RestoreState \/ RestoreFails \/ Rollback \/ RollbackFails
  BY <1>6, <1>0, <1>i, <1>s, <1>n, <1>a
     DEF SwapCredentials, RestoreState,
     RestoreFails, Rollback, RollbackFails, At, OnError, files
<1>7. CASE CaptureCannotQuit \/ AlreadySaved \/ Relaunch \/ CannotRelaunch \/ Crash
  BY <1>7, <1>0, <1>i, <1>s, <1>n, <1>b
     DEF CaptureCannotQuit, AlreadySaved, Relaunch, CannotRelaunch, Crash, files
<1>8. CASE Backup \/ Clear \/ ClearFails \/ OpenLogin \/ CannotOpenLogin
  BY <1>8, <1>0, <1>i, <1>s, <1>n, <1>a
     DEF Backup, Clear, ClearFails, OpenLogin, CannotOpenLogin, files
<1>9. CASE GiveUp \/ QuitAgain \/ PutBack \/ KeepProfile \/ WriteMeta \/ CannotKeep
  BY <1>9, <1>0, <1>i, <1>s, <1>n, <1>a
     DEF GiveUp, QuitAgain, PutBack, KeepProfile, WriteMeta, CannotKeep, files
<1>10. CASE PutBackFails
  BY <1>10, <1>0, <1>i, <1>s, <1>n, <1>a, <1>b
     DEF PutBackFails, files
<1>11. CASE NothingToSnapshot \/ SnapshotRefused \/ SnapshotTokens \/ SnapshotState
           \/ StepFails
  BY <1>11, <1>0, <1>i, <1>s, <1>n, <1>a
     DEF NothingToSnapshot, SnapshotRefused, SnapshotTokens,
     SnapshotState, StepFails, AfterSnapshot, OnError, files
<1> QED BY <1>1, <1>2, <1>3, <1>4, <1>5, <1>6, <1>7, <1>8, <1>9, <1>10, <1>11
        DEF OpStep, Switch, Capture, Both

LEMMA OpSwapIsCurrent ==
  ASSUME TypeInv, Stages, SwapIsCurrent, OpStep
  PROVE  SwapIsCurrent'
<1> USE DEF OfASwitch, OfACapture
<1>0. op.pc \in {"restore", "rollback"} =>
        live = op.found.live \/ op.label \in excused \/ op.tok = saved[op.label].tok
  BY DEF SwapIsCurrent
<1>u. op.pc \in Untouched => live = op.found.live
  BY DEF Stages, LiveIs, Aside
<1> USE DEF Untouched
<1>s. /\ op.pc \in OfASwitch => op.kind = "switch"
      /\ op.pc \in OfACapture => op.kind = "capture"
  BY DEF Stages, Course
<1>a. ASSUME NEW pc, Go(pc)
      PROVE  /\ op'.pc = pc /\ op'.kind = op.kind /\ op'.label = op.label /\ op'.tok = op.tok
             /\ op'.found = op.found
  BY <1>a, MovesOn DEF TypeInv, OpSame
<1>b. ASSUME NEW why, Leave(why) PROVE op'.pc = "idle" /\ op'.kind = "none"
  BY <1>b, LeaveDoes
<1>n. NoLogin.tok = NoToken
  BY DEF NoLogin
<1> SUFFICES op'.pc \in {"restore", "rollback"} =>
      \/ live' = op'.found.live \/ op'.label \in excused'
      \/ op'.tok = saved'[op'.label].tok
  BY DEF SwapIsCurrent
<1>1. CASE PlanSwitch
  BY <1>1, <1>0, <1>u, <1>s, <1>n, PlanSwitchDoes
     DEF PlanSwitch, files, history
<1>2. CASE BeginCapture
  BY <1>2, <1>0, <1>u, <1>s, <1>n, BeginCaptureDoes
     DEF BeginCapture, files, history
<1>3. CASE Quit
  BY <1>3, <1>0, <1>u, <1>s, <1>n, QuitDoes
     DEF Quit, AfterQuit, TypeInv, files, history
<1>4. CASE NewLogin
  BY <1>4, <1>0, <1>u, <1>s, <1>n, NewLoginDoes
     DEF NewLogin, TypeInv, files, history
<1>5. CASE SwitchCannotQuit \/ Archive \/ CannotArchive \/ MergeHistory
  BY <1>5, <1>0, <1>u, <1>s, <1>n, <1>a
     DEF SwitchCannotQuit, Archive, CannotArchive, MergeHistory, At, files, history
<1>6. CASE SwapCredentials \/ RestoreState \/ RestoreFails \/ Rollback \/ RollbackFails
  BY <1>6, <1>0, <1>u, <1>s, <1>n, <1>a
     DEF SwapCredentials, RestoreState,
     RestoreFails, Rollback, RollbackFails, At, OnError, files, history
<1>7. CASE CaptureCannotQuit \/ AlreadySaved \/ Relaunch \/ CannotRelaunch \/ Crash
  BY <1>7, <1>0, <1>u, <1>s, <1>n, <1>b
     DEF CaptureCannotQuit, AlreadySaved, Relaunch, CannotRelaunch, Crash, files, history
<1>8. CASE Backup \/ Clear \/ ClearFails \/ OpenLogin \/ CannotOpenLogin
  BY <1>8, <1>0, <1>u, <1>s, <1>n, <1>a
     DEF Backup, Clear, ClearFails, OpenLogin, CannotOpenLogin, files, history
<1>9. CASE GiveUp \/ QuitAgain \/ PutBack \/ KeepProfile \/ WriteMeta \/ CannotKeep
  BY <1>9, <1>0, <1>u, <1>s, <1>n, <1>a
     DEF GiveUp, QuitAgain, PutBack, KeepProfile, WriteMeta, CannotKeep, files, history
<1>10. CASE PutBackFails
  BY <1>10, <1>0, <1>u, <1>s, <1>n, <1>a, <1>b
     DEF PutBackFails, files, history
<1>11. CASE NothingToSnapshot \/ SnapshotRefused \/ SnapshotTokens \/ SnapshotState
           \/ StepFails
  BY <1>11, <1>0, <1>u, <1>s, <1>n, <1>a
     DEF NothingToSnapshot, SnapshotRefused, SnapshotTokens,
     SnapshotState, StepFails, AfterSnapshot, OnError, files, history
<1> QED BY <1>1, <1>2, <1>3, <1>4, <1>5, <1>6, <1>7, <1>8, <1>9, <1>10, <1>11
        DEF OpStep, Switch, Capture, Both

LEMMA OpFoundIsGood ==
  ASSUME TypeInv, Stages, KeptInv, OpStep
  PROVE  FoundIsGood'
<1> USE DEF Filed, OfASwitch, OfACapture
<1>g. alive' = alive /\ excused \subseteq excused'
  BY OpStepIs, Grows DEF KeptInv
<1> DEFINE Good == \/ op.found.live.tok = NoToken \/ op.found.live.acct \in excused
                   \/ op.found.live.tok \in alive
<1>0. op.pc \in Filed \cup {"rollback"} => Good
  BY DEF KeptInv, FoundIsGood
<1>u. op.pc \in Untouched => Good
  BY DEF Stages, LiveIs, Aside, KeptInv, AppKeepsItsLogin
<1> HIDE DEF Good
<1> USE DEF Untouched
<1>s. /\ op.pc \in OfASwitch => op.kind = "switch"
      /\ op.pc \in OfACapture => op.kind = "capture"
  BY DEF Stages, Course
<1>a. ASSUME NEW pc, Go(pc)
      PROVE  /\ op'.pc = pc /\ op'.kind = op.kind /\ op'.label = op.label /\ op'.tok = op.tok
             /\ op'.found = op.found
  BY <1>a, MovesOn DEF TypeInv, OpSame
<1>b. ASSUME NEW why, Leave(why) PROVE op'.pc = "idle" /\ op'.kind = "none"
  BY <1>b, LeaveDoes
<1>n. NoLogin.tok = NoToken
  BY DEF NoLogin
<1> SUFFICES op'.pc \in Filed \cup {"rollback"} => Good /\ op'.found = op.found
  BY <1>g DEF FoundIsGood, Good
<1>1. CASE PlanSwitch
  BY <1>1, <1>0, <1>u, <1>s, <1>n, PlanSwitchDoes
     DEF PlanSwitch, files
<1>2. CASE BeginCapture
  BY <1>2, <1>0, <1>u, <1>s, <1>n, BeginCaptureDoes
     DEF BeginCapture, files
<1>3. CASE Quit
  BY <1>3, <1>0, <1>u, <1>s, <1>n, QuitDoes
     DEF Quit, AfterQuit, TypeInv, files
<1>4. CASE NewLogin
  BY <1>4, <1>0, <1>u, <1>s, <1>n, NewLoginDoes
     DEF NewLogin, TypeInv, files
<1>5. CASE SwitchCannotQuit \/ Archive \/ CannotArchive \/ MergeHistory
  BY <1>5, <1>0, <1>u, <1>s, <1>n, <1>a
     DEF SwitchCannotQuit, Archive, CannotArchive, MergeHistory, At, files
<1>6. CASE SwapCredentials \/ RestoreState \/ RestoreFails \/ Rollback \/ RollbackFails
  BY <1>6, <1>0, <1>u, <1>s, <1>n, <1>a
     DEF SwapCredentials, RestoreState,
     RestoreFails, Rollback, RollbackFails, At, OnError, files
<1>7. CASE CaptureCannotQuit \/ AlreadySaved \/ Relaunch \/ CannotRelaunch \/ Crash
  BY <1>7, <1>0, <1>u, <1>s, <1>n, <1>b
     DEF CaptureCannotQuit, AlreadySaved, Relaunch, CannotRelaunch, Crash, files
<1>8. CASE Backup \/ Clear \/ ClearFails \/ OpenLogin \/ CannotOpenLogin
  BY <1>8, <1>0, <1>u, <1>s, <1>n, <1>a
     DEF Backup, Clear, ClearFails, OpenLogin, CannotOpenLogin, files
<1>9. CASE GiveUp \/ QuitAgain \/ PutBack \/ KeepProfile \/ WriteMeta \/ CannotKeep
  BY <1>9, <1>0, <1>u, <1>s, <1>n, <1>a
     DEF GiveUp, QuitAgain, PutBack, KeepProfile, WriteMeta, CannotKeep, files
<1>10. CASE PutBackFails
  BY <1>10, <1>0, <1>u, <1>s, <1>n, <1>a, <1>b
     DEF PutBackFails, files
<1>11. CASE NothingToSnapshot \/ SnapshotRefused \/ SnapshotTokens \/ SnapshotState
           \/ StepFails
  BY <1>11, <1>0, <1>u, <1>s, <1>n, <1>a
     DEF NothingToSnapshot, SnapshotRefused, SnapshotTokens,
     SnapshotState, StepFails, AfterSnapshot, OnError, files
<1> QED BY <1>1, <1>2, <1>3, <1>4, <1>5, <1>6, <1>7, <1>8, <1>9, <1>10, <1>11
        DEF OpStep, Switch, Capture, Both

LEMMA OpKept ==
  ASSUME TypeInv, Stages, Own, KeptInv, OpStep
  PROVE  KeptInv'
<1>1. EveryLoginKept' /\ AppKeepsItsLogin'
  BY OpKeeps, OpAppKeeps
<1>2. Replaceable' => SavedSuffice'
  BY OpReplaceable
<1>3. Apart' /\ SwapIsCurrent' /\ FoundIsGood'
  BY OpApart, OpSwapIsCurrent, OpFoundIsGood DEF KeptInv
<1> QED BY <1>1, <1>2, <1>3 DEF KeptInv

-----------------------------------------------------------------------------
(* The application and the fetch, next to them. *)

LEMMA AppKept ==
  ASSUME TypeInv, Stages, Own, KeptInv, App
  PROVE  KeptInv'
<1>0. /\ UNCHANGED <<saved, registered, prelogin, op, fetch>>
      /\ Len(issued) \in Nat /\ NoToken = 0
      /\ \A a \in Accounts : saved[a].tok \in 0 .. Len(issued)
      /\ live.tok \in 0 .. Len(issued) /\ op.found.live.tok \in 0 .. Len(issued)
      /\ registered \subseteq Accounts /\ alive \subseteq 1 .. Len(issued)
      /\ excused \subseteq excused'
  BY TokensAre, AppDoes, Grows DEF TypeInv, ServerType, FilesType, NoToken, Next
<1>k. /\ EveryLoginKept /\ AppKeepsItsLogin
      /\ Replaceable => SavedSuffice
      /\ Apart /\ SwapIsCurrent /\ FoundIsGood
  BY DEF KeptInv
<1>1. CASE UserOpensApp
  <2>1. UNCHANGED <<live, saved, registered, op, fetch, excused, alive>>
    BY <1>1 DEF UserOpensApp, files, server
  <2> QED BY <2>1 DEF KeptInv, EveryLoginKept, Copies, AppKeepsItsLogin, Replaceable,
      SavedSuffice, Apart, SwapIsCurrent, FoundIsGood
<1>2. CASE ~UserOpensApp
  <2>u. /\ app = "up"
        /\ op.pc \notin Stopped
    BY <1>2, AppDoes DEF Stages, Course
  <2>p. /\ op.pc \in Filed => op.pc \in Open
        /\ op.pc \notin {"restore", "rollback"}
    BY <2>u DEF Filed, Open, Stopped
  <2>n. CASE AppSignsIn
    <3>1. /\ live'.tok = NoToken /\ alive' = alive
          /\ excused' = excused \cup {a \in registered : live.acct = a /\ ~SavedCopyGood(a)}
      BY <2>n DEF AppSignsIn, NoLogin, server
    <3>3. ASSUME NEW a \in registered, a \notin excused'
          PROVE  \/ (Copies(a) \cap alive # {})'
                 \/ fetch'.pc = "exchanged" /\ fetch'.acct = a
      <4>1. \/ saved[a].tok \in alive \/ live.acct = a
            \/ fetch.pc = "exchanged" /\ fetch.acct = a
        BY <1>0, <1>k, <3>3, CopiesAre DEF EveryLoginKept
      <4>2. live.acct = a => saved[a].tok \in alive \/ (fetch.pc = "exchanged" /\ fetch.acct = a)
        BY <3>1, <3>3 DEF SavedCopyGood
      <4> QED BY <1>0, <3>1, <4>1, <4>2, CopiesBecome
    <3>4. EveryLoginKept'
      BY <1>0, <3>3 DEF EveryLoginKept
    <3>5. AppKeepsItsLogin'
      BY <3>1 DEF AppKeepsItsLogin
    <3>6. (Replaceable => SavedSuffice)'
      BY <1>0, <1>k, <2>p, <3>1 DEF Replaceable, SavedSuffice
    <3>7. Apart' /\ SwapIsCurrent'
      BY <1>0, <2>p, <3>1 DEF Apart, SwapIsCurrent
    <3>8. FoundIsGood'
      BY <1>0, <1>k, <3>1 DEF FoundIsGood
    <3> QED BY <3>4, <3>5, <3>6, <3>7, <3>8 DEF KeptInv
  <2>r. CASE AppRenews \/ AppSignedIn
    <3> DEFINE fresh == Len(issued) + 1
    <3>0. /\ fresh \notin alive /\ fresh # NoToken
          /\ \A a \in Accounts : saved[a].tok # fresh
          /\ op.found.live.tok # fresh
      BY <1>0
    <3>1. /\ live'.tok = fresh /\ live'.acct = live.acct /\ fresh \in alive'
          /\ \A t \in alive : t \in alive' \/ (AppRenews /\ t = live.tok)
      <4>1. live' = [live EXCEPT !.tok = fresh]
        BY <2>r, AppRenewsDoes, AppSignedInDoes
      <4>2. fresh \in alive' /\ \A t \in alive : t \in alive' \/ (AppRenews /\ t = live.tok)
        BY <2>r, AppRenewsDoes, AppSignedInDoes
      <4> HIDE DEF fresh
      <4>3. live'.tok = fresh /\ live'.acct = live.acct
        BY <4>1 DEF TypeInv, FilesType, Logins
      <4> QED BY <4>2, <4>3
    <3> HIDE DEF fresh
    <3>e. excused' = excused
      BY <2>r DEF AppRenews, AppSignedIn, history
    <3>r. AppRenews => live.tok # NoToken
      BY <1>0 DEF AppRenews
    <3>o. ASSUME NEW a \in registered, a \notin excused, AppRenews, saved[a].tok = live.tok
          PROVE  a = live.acct
      <4>1. OwnedNow(live.tok, live.acct) /\ OwnedNow(live.tok, a)
        BY <1>0, <3>o DEF Own
      <4> QED BY <3>r, <3>o, <4>1, OneOwner
    <3>3. ASSUME NEW a \in registered, a \notin excused
          PROVE  \/ (Copies(a) \cap alive # {})'
                 \/ fetch'.pc = "exchanged" /\ fetch'.acct = a
      <4>1. CASE live.acct = a
        BY <3>1, <4>1, CopiesBecome
      <4>2. CASE live.acct # a /\ saved[a].tok \in alive
        BY <1>0, <3>1, <3>o, <3>3, <4>2, CopiesBecome
      <4> QED BY <1>0, <1>k, <3>3, <4>1, <4>2, CopiesAre DEF EveryLoginKept
    <3>4. EveryLoginKept'
      BY <1>0, <3>3, <3>e DEF EveryLoginKept
    <3>5. AppKeepsItsLogin'
      BY <3>1 DEF AppKeepsItsLogin
    <3>a. op.pc \in Open =>
            \/ live.tok = NoToken
            \/ live.tok # op.found.live.tok /\ \A a \in Accounts : saved[a].tok # live.tok
      BY <1>k DEF Apart
    <3>6. (Replaceable => SavedSuffice)'
      <4>1. Replaceable' => Replaceable /\ op.pc \in Open
        BY <1>0, <2>p DEF Replaceable
      <4>2. ASSUME Replaceable, op.pc \in Open, NEW a \in registered, a \notin excused
            PROVE  saved[a].tok \in alive'
        <5>1. saved[a].tok \in alive
          BY <1>k, <4>2 DEF SavedSuffice
        <5>2. AppRenews => saved[a].tok # live.tok
          BY <1>0, <3>a, <3>r, <4>2
        <5> QED BY <3>1, <5>1, <5>2
      <4> QED BY <1>0, <3>e, <4>1, <4>2 DEF SavedSuffice
    <3>7. Apart' /\ SwapIsCurrent'
      <4>1. \A a \in Accounts : saved'[a].tok # live'.tok
        BY <1>0, <3>0, <3>1
      <4>2. live'.tok # op'.found.live.tok
        BY <1>0, <3>0, <3>1
      <4> QED BY <1>0, <2>p, <4>1, <4>2 DEF Apart, SwapIsCurrent
    <3>8. FoundIsGood'
      <4>1. SUFFICES ASSUME op.pc \in Open
                     PROVE  \/ op.found.live.tok = NoToken \/ op.found.live.acct \in excused
                            \/ op.found.live.tok \in alive'
        BY <1>0, <2>p, <3>e DEF FoundIsGood
      <4>2. \/ op.found.live.tok = NoToken \/ op.found.live.acct \in excused
            \/ op.found.live.tok \in alive
        BY <1>k, <4>1 DEF FoundIsGood, Open, Filed
      <4>3. AppRenews => op.found.live.tok # live.tok
        BY <3>a, <3>r, <4>1
      <4> QED BY <3>1, <4>2, <4>3
    <3> QED BY <3>4, <3>5, <3>6, <3>7, <3>8 DEF KeptInv
  <2> QED BY <1>2, <2>n, <2>r DEF App
<1> QED BY <1>1, <1>2

LEMMA FetchKept ==
  ASSUME TypeInv, Stages, Own, KeptInv, Fetch
  PROVE  KeptInv'
<1>0. /\ UNCHANGED <<live, registered, op>>
      /\ Len(issued) \in Nat /\ NoToken = 0
      /\ registered \subseteq Accounts /\ alive \subseteq 1 .. Len(issued)
      /\ saved \in [Accounts -> Profiles]
  BY TokensAre, FetchDoes DEF TypeInv, ServerType, FilesType, NoToken
<1>k. /\ EveryLoginKept /\ AppKeepsItsLogin
      /\ Replaceable => SavedSuffice
      /\ Apart /\ SwapIsCurrent /\ FoundIsGood
  BY DEF KeptInv
<1>1. CASE Resolve \/ LockAndRead \/ LockTimesOut \/ Ask
  <2>1. UNCHANGED <<live, saved, registered, op, excused, alive>> /\ fetch.pc # "exchanged"
    BY <1>1 DEF Resolve, LockAndRead, LockTimesOut, Ask, files, server, history
  <2>2. EveryLoginKept'
    BY <1>k, <2>1 DEF EveryLoginKept, Copies
  <2>3. /\ AppKeepsItsLogin' /\ Apart' /\ SwapIsCurrent' /\ FoundIsGood'
        /\ (Replaceable => SavedSuffice)'
    BY <1>k, <2>1 DEF AppKeepsItsLogin, Replaceable,
      SavedSuffice, Apart, SwapIsCurrent, FoundIsGood
  <2> QED BY <2>2, <2>3 DEF KeptInv
<1>2. CASE Refresh \/ StoreRefreshed \/ RefreshedIsLost
  <2>p. fetch.pc \in {"holding", "exchanged"}
    BY <1>2 DEF Refresh, StoreRefreshed, RefreshedIsLost
  <2>i. op'.pc = "idle" /\ op'.kind = "none"
    BY <1>0, <2>p DEF Stages, LockInv, Course
  <2>v. /\ Apart' /\ SwapIsCurrent' /\ FoundIsGood'
        /\ (Replaceable => SavedSuffice)'
    BY <2>i DEF Apart, SwapIsCurrent, FoundIsGood, Replaceable, Filed, Open
  <2>a. fetch.acct \in registered /\ fetch.acct \in Accounts
    BY <1>0, <2>p DEF TypeInv, FetchType
  <2>e. excused \subseteq excused'
    BY Grows DEF Next
  <2>1. CASE Refresh
    <3> DEFINE fresh == Len(issued) + 1
    <3>1. /\ fetch' = [fetch EXCEPT !.pc = "exchanged", !.tok = fresh]
          /\ alive' = (alive \ {fetch.tok}) \cup {fresh}
      BY <2>1, RefreshDoes
    <3> HIDE DEF fresh
    <3>2. fetch'.pc = "exchanged" /\ fetch'.acct = fetch.acct
      BY <3>1 DEF TypeInv, FetchType
    <3>3. /\ ~fetch.active /\ ~fetch.moved /\ fetch.tok # NoToken /\ saved' = saved
          /\ fetch.pc = "holding"
      BY <2>1, <2>p DEF Refresh, MayRefresh, Stages, LockInv, Own, files
    <3>4. OwnedNow(fetch.tok, fetch.acct)
      BY <3>3 DEF Own
    <3>5. ASSUME NEW a \in Accounts, a \notin excused, saved[a].tok = fetch.tok
          PROVE  a = fetch.acct
      <4>1. OwnedNow(fetch.tok, a)
        BY <3>5 DEF Own
      <4> QED BY <3>3, <3>4, <3>5, <4>1, OneOwner
    <3>6. live.tok = fetch.tok => live.acct = fetch.acct \/ live.acct \in excused
      <4>1. live.tok = fetch.tok => OwnedNow(fetch.tok, live.acct)
        BY DEF Own
      <4> QED BY <3>3, <3>4, <4>1, OneOwner
    <3>7. ASSUME NEW a \in registered, a \notin excused'
          PROVE  \/ (Copies(a) \cap alive # {})'
                 \/ fetch'.pc = "exchanged" /\ fetch'.acct = a
      <4>1. CASE a = fetch.acct
        BY <3>2, <4>1
      <4>2. CASE a # fetch.acct
        <5>0. a \in Accounts /\ a \notin excused
          BY <1>0, <2>e, <3>7
        <5>1. saved[a].tok \in alive \/ (live.acct = a /\ live.tok \in alive)
          BY <1>k, <3>3, <5>0, CopiesAre DEF EveryLoginKept
        <5>2. saved[a].tok # fetch.tok
          BY <3>5, <4>2, <5>0
        <5>3. live.acct = a => live.tok # fetch.tok
          BY <3>6, <4>2, <5>0
        <5> QED BY <1>0, <3>1, <3>3, <5>1, <5>2, <5>3, CopiesBecome
      <4> QED BY <4>1, <4>2
    <3>8. EveryLoginKept'
      BY <1>0, <3>7 DEF EveryLoginKept
    <3>9. AppKeepsItsLogin'
      <4>1. live.tok = fetch.tok => fetch.acct \in excused'
        BY <2>1, <3>3 DEF Refresh
      <4> QED BY <1>0, <1>k, <2>e, <3>1, <3>6, <4>1 DEF AppKeepsItsLogin
    <3> QED BY <2>v, <3>8, <3>9 DEF KeptInv
  <2>2. CASE StoreRefreshed
    <3>1. /\ fetch.pc = "exchanged" /\ fetch' = [fetch EXCEPT !.pc = "holding"]
          /\ saved' = [saved EXCEPT ![fetch.acct].tok = fetch.tok]
          /\ alive' = alive /\ excused' = excused
      BY <2>2 DEF StoreRefreshed, server, history
    <3>2. fetch.tok \in alive
      BY <3>1 DEF Stages, LockInv
    <3>3. \A a \in Accounts : saved'[a].tok = IF a = fetch.acct THEN fetch.tok ELSE saved[a].tok
      BY <1>0, <3>1 DEF Profiles
    <3>4. ASSUME NEW a \in registered, a \notin excused
          PROVE  (Copies(a) \cap alive # {})'
      <4>1. CASE a = fetch.acct
        BY <2>a, <3>1, <3>2, <3>3, <4>1, CopiesBecome
      <4>2. CASE a # fetch.acct
        BY <1>0, <1>k, <3>1, <3>3, <3>4, <4>2, CopiesAre, CopiesBecome DEF EveryLoginKept
      <4> QED BY <4>1, <4>2
    <3>5. EveryLoginKept'
      BY <1>0, <3>1, <3>4 DEF EveryLoginKept
    <3>6. AppKeepsItsLogin'
      BY <1>0, <1>k, <3>1 DEF AppKeepsItsLogin
    <3> QED BY <2>v, <3>5, <3>6 DEF KeptInv
  <2>3. CASE RefreshedIsLost
    <3>1. /\ excused' = excused \cup {fetch.acct} /\ alive' = alive /\ saved' = saved
      BY <2>3 DEF RefreshedIsLost, server, files
    <3>4. ASSUME NEW a \in registered, a \notin excused'
          PROVE  (Copies(a) \cap alive # {})'
      BY <1>0, <1>k, <3>1, <3>4, CopiesAre, CopiesBecome DEF EveryLoginKept
    <3>5. EveryLoginKept'
      BY <1>0, <3>4 DEF EveryLoginKept
    <3>6. AppKeepsItsLogin'
      BY <1>0, <1>k, <3>1 DEF AppKeepsItsLogin
    <3> QED BY <2>v, <3>5, <3>6 DEF KeptInv
  <2> QED BY <1>2, <2>1, <2>2, <2>3
<1> QED BY <1>1, <1>2 DEF Fetch

-----------------------------------------------------------------------------
(* The invariant, and what follows from it. *)

Inv == TypeInv /\ Stages /\ Own /\ WholeInv /\ KeptInv

LEMMA InvInit ==
  ASSUME Init
  PROVE  Inv
<1>1. /\ op = NoOp /\ fetch = NoFetch /\ browser = live.acct /\ app = "up"
      /\ prelogin = None /\ excused = {} /\ misfiled = {} /\ mishaps = {} /\ closed = "no" /\ troubles = 0
  BY DEF Init
<1>2. /\ op.pc = "idle" /\ op.kind = "none" /\ op.label = None /\ op.tok = 0
      /\ op.found.live.tok = 0 /\ op.found.live.acct = None /\ op.found.browser = None
      /\ fetch.pc = "idle" /\ fetch.tok = 0 /\ fetch.moved = FALSE
  BY <1>1, NoOpIs, NoFetchIs
<1>3. /\ Len(issued) \in Nat /\ Len(issued) <= MaxTokens /\ ServerType
  BY StartIs DEF ServerType
<1>4. FilesType
  <2>1. live \in Logins
    <3>1. \A t \in 1 .. Len(issued) : t \in Tokens \cup {NoToken}
      BY <1>3, DesktopAssumption DEF Tokens, NoToken
    <3>2. [acct : Accounts, tok : 1 .. Len(issued)] \subseteq Logins
      BY <3>1 DEF Logins
    <3> QED BY <3>2, StartIs
  <2>2. saved \in [Accounts -> Profiles]
    <3>1. \A t \in 0 .. Len(issued) - 1 : t \in Tokens \cup {NoToken}
      BY <1>3, DesktopAssumption DEF Tokens, NoToken
    <3>2. [tok : 0 .. Len(issued) - 1, browser : Accounts \cup {None}] \subseteq Profiles
      BY <3>1 DEF Profiles
    <3> QED BY <3>2, StartIs
  <2> QED BY <1>1, <2>1, <2>2, StartIs DEF FilesType, Browsers
<1>5. TokensAreIssued
  BY <1>2, <1>3, StartIs DEF TokensAreIssued
<1>6. RestType /\ OpType /\ FetchType
  BY <1>1, NoOpIs, NoFetchIs, DesktopAssumption DEF RestType, OpType, FetchType
<1>7. Stages
  BY <1>2 DEF Stages, Course, LiveIs, LabelIs, LockInv, OfASwitch, OfACapture, Stopped,
    Untouched, PutAside, SignedIn
<1>8. Own
  <2>1. OwnedNow(live.tok, live.acct)
    BY StartIs DEF OwnedNow, OwnedBy
  <2>2. ASSUME NEW a \in Accounts
        PROVE  OwnedNow(saved[a].tok, a)
    <3>1. CASE a \in registered
      BY <1>3, <3>1, StartIs DEF OwnedNow, OwnedBy
    <3>2. CASE a \notin registered
      BY <3>2, StartIs DEF OwnedNow, OwnedBy, NoProfile
    <3> QED BY <3>1, <3>2
  <2> QED BY <1>1, <1>2, <2>1, <2>2 DEF Own, OwnedNow, OwnedBy, NoToken
<1>9. WholeInv
  <2>1. \A a \in Accounts : saved[a].browser \in {None, a}
    BY StartIs DEF NoProfile
  <2> QED BY <1>1, <1>2, <2>1 DEF WholeInv, ClosedForAReason, OneAccount
<1>10. KeptInv
  <2>1. ASSUME NEW a \in registered
        PROVE  Copies(a) \cap alive # {}
    BY StartIs, CopiesAre
  <2> QED BY <1>2, <2>1, StartIs DEF KeptInv, EveryLoginKept, AppKeepsItsLogin, Replaceable,
        Apart, SwapIsCurrent, FoundIsGood, Filed, Open
<1> QED BY <1>3, <1>4, <1>5, <1>6, <1>7, <1>8, <1>9, <1>10 DEF Inv, TypeInv

LEMMA InvStep ==
  ASSUME Inv, Next
  PROVE  Inv'
<1>1. TypeInv /\ Stages /\ Own /\ WholeInv /\ KeptInv
  BY DEF Inv
<1>2. TypeInv'
  BY <1>1, TypeStep
<1>3. Stages'
  BY <1>1, OwnNames, StagesStep
<1>4. Own'
  BY <1>1, OwnStep
<1>5. WholeInv'
  BY <1>1, WholeStep
<1>6. KeptInv'
  BY <1>1, OpKept, AppKept, FetchKept DEF OpStep, Next
<1> QED BY <1>2, <1>3, <1>4, <1>5, <1>6 DEF Inv

LEMMA InvAlways == Spec => []Inv
<1>1. Init => Inv
  BY InvInit
<1>2. Inv /\ [Next]_vars => Inv'
  <2>1. CASE Next
    BY <2>1, InvStep
  <2>2. ASSUME Inv, UNCHANGED vars
        PROVE  Inv'
    <3>1. /\ live' = live /\ browser' = browser /\ app' = app /\ saved' = saved
          /\ registered' = registered /\ prelogin' = prelogin /\ issued' = issued
          /\ alive' = alive /\ op' = op /\ fetch' = fetch /\ excused' = excused
          /\ misfiled' = misfiled /\ mishaps' = mishaps /\ closed' = closed /\ troubles' = troubles
      BY <2>2 DEF vars, files, server, history
    <3>2. TypeInv'
      BY <2>2, <3>1 DEF Inv, TypeInv, FilesType, ServerType, TokensAreIssued, RestType, OpType,
        FetchType
    <3>3. Stages'
      BY <2>2, <3>1 DEF Inv, Stages, Course, LiveIs, LabelIs, LockInv, Swapped, Aside,
        Outgoing, FiledAs
    <3>4. Own' /\ WholeInv'
      BY <2>2, <3>1 DEF Inv, Own, OwnedNow, OwnedBy, WholeInv, ClosedForAReason,
        OneAccount
    <3>5. KeptInv'
      BY <2>2, <3>1 DEF Inv, KeptInv, EveryLoginKept, AppKeepsItsLogin, Replaceable,
        SavedSuffice, Apart, SwapIsCurrent, FoundIsGood, Copies
    <3> QED BY <3>2, <3>3, <3>4, <3>5 DEF Inv
  <2> QED BY <2>1, <2>2
<1> QED BY <1>1, <1>2, PTL DEF Spec

(***************************************************************************)
(* Every variable keeps its type, and no file, operation or fetch names a  *)
(* token the server has not issued (apply_switch, capture_profile and      *)
(* account_target's fetch).                                                *)
(***************************************************************************)
THEOREM DesktopTypes == Spec => []TypeOK
<1>1. Inv => TypeOK
  <2> SUFFICES ASSUME Inv PROVE TypeOK
    OBVIOUS
  <2>1. TypeInv
    BY DEF Inv
  <2>2. /\ op.label \in Accounts \cup {None} /\ op.found \in Asides /\ op.tok \in Nat
        /\ op.tok <= Len(issued) /\ Len(issued) \in Nat
    BY <2>1 DEF TypeInv, OpType, TokensAreIssued, ServerType
  <2>3. /\ fetch.acct \in Accounts \cup {None} /\ fetch.tok \in Nat /\ fetch.tok <= Len(issued)
    BY <2>1 DEF TypeInv, FetchType, TokensAreIssued
  <2>4. op.tok \in 0 .. Len(issued) /\ fetch.tok \in 0 .. Len(issued)
    BY <2>2, <2>3
  <2> QED BY <2>1, <2>2, <2>3, <2>4 DEF TypeInv, FilesType, ServerType, RestType, Browsers, TypeOK
<1> QED BY <1>1, InvAlways, PTL

(***************************************************************************)
(* No switch, capture, failure or crash throws the last good copy of a     *)
(* saved account's login away (snapshot_outgoing and atomic_write before   *)
(* every replacement), the named exceptions apart.                         *)
(***************************************************************************)
THEOREM DesktopLoginsKept == Spec => []EveryLoginKept
<1>1. Inv => EveryLoginKept
  BY DEF Inv, KeptInv
<1> QED BY <1>1, InvAlways, PTL

(***************************************************************************)
(* The application is never left with a token that was spent elsewhere.    *)
(***************************************************************************)
THEOREM DesktopAppKeeps == Spec => []AppKeepsItsLogin
<1>1. Inv => AppKeepsItsLogin
  BY DEF Inv, KeptInv
<1> QED BY <1>1, InvAlways, PTL

(***************************************************************************)
(* Tokens and browser state are filed under the account they are of, and a *)
(* fetch asks with the token of the account it is for (snapshot_outgoing,  *)
(* capture_profile, account_target), whoever signs in meanwhile: but for   *)
(* profiles a capture gave another login than the one it had named, and a  *)
(* fetch that took its account for the active one and found another login. *)
(***************************************************************************)
THEOREM DesktopFiled == Spec => []FiledUnderItsOwn
<1>1. Inv => FiledUnderItsOwn
  <2> SUFFICES ASSUME Inv PROVE FiledUnderItsOwn
    OBVIOUS
  <2>1. Own /\ WholeInv /\ LockInv
    BY DEF Inv, Stages
  <2>2. mishaps \cap {"crash", "unrestored"} = {} => mishaps = {}
    BY DEF Inv, TypeInv, RestType
  <2>3. mishaps = {} => \A a \in Accounts \ misfiled : saved[a].browser \in {None, a}
    BY <2>1 DEF WholeInv, OneAccount
  <2>4. \A a \in Accounts \ misfiled : saved[a].tok # NoToken => issued[saved[a].tok] = a
    BY <2>1 DEF Own, OwnedNow, OwnedBy
  <2>5. live.tok # NoToken /\ live.acct \notin misfiled => issued[live.tok] = live.acct
    BY <2>1 DEF Own, OwnedNow, OwnedBy
  <2>6. fetch.pc = "holding" /\ fetch.acct \notin misfiled /\ ~fetch.moved
          => issued[fetch.tok] = fetch.acct
    BY <2>1 DEF Own, OwnedNow, OwnedBy, LockInv
  <2> QED BY <2>2, <2>3, <2>4, <2>5, <2>6 DEF FiledUnderItsOwn
<1> QED BY <1>1, InvAlways, PTL

(***************************************************************************)
(* A switch or capture leaves tokens and browser state of one account,     *)
(* unless a crash or a failed roll-back has torn them or a capture has     *)
(* given the account's profile another login, and the application open, or *)
(* closed for a reason; and while a capture waits for a sign-in, the login *)
(* it would put back is the one it found, good.                            *)
(***************************************************************************)
THEOREM DesktopEndsWhole == Spec => []EndsWholeOrGoesBack
<1>1. Inv => EndsWholeOrGoesBack
  <2> SUFFICES ASSUME Inv PROVE EndsWholeOrGoesBack
    OBVIOUS
  <2>1. WholeInv /\ LiveIs /\ FoundIsGood
    BY DEF Inv, Stages, KeptInv
  <2>2. mishaps \cap {"crash", "unrestored"} = {} => mishaps = {}
    BY DEF Inv, TypeInv, RestType
  <2>3. EndsWhole
    BY <2>1, <2>2 DEF WholeInv, OneAccount, ClosedForAReason, Between, EndsWhole
  <2>4. CaptureCanGoBack
    BY <2>1 DEF LiveIs, FoundIsGood, Filed, PutAside, OfACapture, CaptureCanGoBack
  <2> QED BY <2>3, <2>4 DEF EndsWholeOrGoesBack
<1> QED BY <1>1, InvAlways, PTL

=============================================================================
