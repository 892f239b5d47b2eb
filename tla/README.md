# ai-usagebar in TLA+

ai-usagebar shows how much of each AI plan is used up. It is one crate with
three programs (the widget `ai-usagebar`, the dashboard `ai-usagebar-tui`, the
tray `ai-usagebar-tray`) and a handful of desktop extensions that call the
first of them. About thirty-five vendors are polled through the same pieces: a
cache directory under a file lock, a credential that often rotates when it is
refreshed, and an outcome that says where its figure comes from. On top of that
the program moves logins between accounts, signs in, tries keys, edits its
configuration and announces crossings.

Everything hard about it comes from one fact: **many short-lived processes, and
programs that are not ours, share files**. The same cache directory, credential,
`config.toml` and notification file are used by one widget per monitor, the
tray, the dashboard and the vendor's own client, and any of them may exit
between two writes. This directory holds TLA+ modules of the parts where that
order matters, the configurations that check them with TLC, and proofs for
TLAPS. Paths below are relative to the repository; `src/cache.rs` is
`src/src/cache.rs` in PROJECT.json.

    tlc -config Fetch.cfg MCAnthropicFetch      # one run
    tlapm AnthropicProofs.tla                   # one proof module

Contents: 1 inventory, 2 modules and how they correspond to the code, 3 runs,
4 bounds, 5 fairness, 6 proofs, 7 disagreements found, 8 assumptions, 9 what is
not modelled, 10 plan.

## 1. Inventory

The parts of the system, the state each one keeps, how it changes and what
makes it correct. *Shared* state is a file that several processes use.

| part | state | operations | hard behaviour | correct when |
|---|---|---|---|---|
| vendor cache (`cache.rs`, `outcome.rs`) | shared: payload file and its mtime, `.stale`, `.last_error`, `.retry_after`, `.fetch.lock` | look (`fresh_payload`), persist, mark stale, record an error (429 arms a backoff), clear, fall back, forget | sidecars are separate best-effort file operations; time passes between look and use | a backoff and a fresh payload keep everybody off the network; nothing too old is shown; provenance is told |
| usage fetch (`anthropic/fetch.rs`, one per vendor) | shared: credential slot; server: latest refresh token | lock, read, look, refresh, write back, ask, record | concurrent fetches, lost answers, rotation, failed write-back, death at any step | a spent token is never sent or kept; one fetch at a time; every fetch ends |
| Claude CLI switch (`anthropic/cli_account.rs`, `keychain.rs`) | shared: default slot, a slot per account, `~/.claude.json`, marker per account | switch with rollback, adopt | several writes under one lock, a failing restore, a crash, refreshes that take no part in the lock | no login is lost or doubled, the marker tells the truth |
| Codex switch and fetch (`openai/account.rs`, `openai/fetch.rs`) | shared: `auth.json`, a file and a marker per account, a lock per directory, caches | switch, rollback, adopt, forget the unnamed caches, routed fetch | sorted locks, a route that changes under the waiter, crash between writes | as above, and a figure is stored under its own account |
| Kimi lock (`kimi/lock.rs`, `kimi/fetch.rs`) | shared: lock directory with marker and mtime, credential file | acquire, steal, heartbeat, refresh, save, release | a lock protocol owned by another program; staleness judged by age | one refresher across both programs; no token is burnt; an abandoned lock goes |
| device sign-in (`tray/device_login.rs`) | the `sign_in` fact, the registry of CLI process groups | start, cancel, replace, stop all, save, verdict | threads, child processes, pids, cancel against commit | a cancelled login is not saved, nothing is left running, a landed login is told |
| key check (`tray/providers.rs`, `config.rs`, `tui/settings.rs`) | shared: `config.toml` under its lock; `key_check` fact; catalog | save-try-restore, switch a provider, save settings, re-read the catalog | four writers interleaved with a slow request; a cached catalog | a refused key leaves, the user's own key stays, no save is lost |
| dashboard (`tui/app.rs`, `bin/ai-usagebar-tui.rs`, `tui/context.rs`) | tabs, selection, requests in flight, configuration and its stamp, overlay | refresh, answer, watch, reload, save, select, scan | late answers, reload while requests fly, stamp taken apart from the read | no stale answer lands, spinners end, edits are followed |
| notifications (`notify.rs`) | shared: `notifications.json` under its lock | check: decide, save, tell | several frontends check one entry; windows that slide, refill or report no reset | one toast per crossing, one per credit, and a crossing is told |
| Desktop switch and capture (`claude_desktop/mod.rs`, `capture.rs`, `app.rs`) | the application's tokens and browser state; shared: a profile per account, the pre-login copy, the switch lock | plan, stop, snapshot, archive, swap, relaunch, roll back; capture, wait for a sign-in, keep or put back | the application rewrites its login and rotates its tokens whenever it runs; several stores change together; a fetch refreshes saved tokens | no login is lost or misfiled, a failure ends where it began |
| Desktop history (`claude_desktop/merge.rs`) | a registry of routines and an index of chats per account, the ledger `synced.json` | three-way merge, convergence of names, sweep of confirmed deletions, ledger | planned while the application runs, applied later; the same routine edited under two accounts; rolled back in parts | no edit is lost or hidden, only what the user deleted is deleted |
| self-update (`update.rs`, `tray/updates.rs`, `tray/update_flow.rs`, `tray/scoop.rs`) | the binaries and their `.old`, `update.json`, the update fact | check, snooze, hand off, download, swap one by one, undo, restart, sweep | a binary that cannot be replaced, a kill in the middle, a bucket that lags | an install ends whole or as before, no binary is lost, one hand-off per version, every check is answered |
| active vendor (`active.rs`, `widget/run.rs`) | shared: active vendor file | cycle, validate | two presses at once; a vendor that was removed | the shown vendor is one that is enabled |
| priorities (`recommendation.rs`, `pacing.rs`) | shared: history file | record, rank | concurrent appends | the ranking follows the readings |
| tray host (`tray/host*.rs`, `tray/payload.rs`) | payload facts, popover | refresh rounds, events | callbacks from several threads | what is drawn is the newest fact |
| other vendors (`<vendor>/fetch.rs`, thirty of them) | shared: a cache directory under its lock, for some a renewed pair, a ledger or a binding of their own | the fetch, in the order each one has it | whose payload it is, a login that changes during the wait or the request, a renewal, a backoff | a figure is shown as its own login's, a backoff is kept, a rotated token is not lost |
| antigravity (`antigravity/`) | caches, a local language server | probe several sources | which source answers | the best source is taken |
| configuration, report, widget text, MCP server, context scan, account commands | read or written in one go | parse, format, print | little | formatting and parsing |
| extensions outside the crate (GNOME, KDE, Omarchy, Mint) | menus | call the widget | a late answer after a newer one | as the crate |

How they interact. A **frontend** asks for usage: it runs a **fetch**, which
works in the **cache** and may refresh a **credential**; the outcome goes to the
dashboard's tabs, to the payload of the tray or to the widget's text, and, when
it came off the wire, to a **notification check**. The **switches** move the
credentials that the fetches refresh, and forget the caches that would show the
previous login. **Device sign-in** makes credentials; the **key check** makes
configuration, which the **dashboard** watches and the **catalog** follows. The
vendors' own clients (claude, Codex, Kimi Code) use and rotate the same
credentials without our locks, save for Kimi's.

PROJECT.json lists every component with its status and every hazard, 40 of
them, at its line.

## 2. The modules

Every module names its code in its header; `map` in PROJECT.json has the lines
of each definition. A step of a model is the code between two points where
another process can act: a file operation, a lock, a request, an answer. Text
that only formats or logs is left out. Definitions named `..._Bug` are
plausible mistakes (a dropped guard, a swapped order): no specification uses
them, they show that a property would notice. A few variables are *history*
(`lost`, `torn`, `mishap`, `overtaken`, ...): no guard reads them; a property
uses them to say when an exception that the code accepts has happened.

**UsageCache** has no state. A directory is a record (`payload`, `age`,
`stale`, `err`, `retry`), an operation of `cache.rs` an operator on it. A
compound operation (`ClearMarkers`, `WriteLastError`) is the *sequence* of
single file operations still to do, because each may fail by itself and a
process may die between two. `FreshPayload` is the one hook before the network
(with its two uses of the TTL: 0 is a wire-only read), `Fallback` and
`CachedOutcome` build what `outcome.rs` builds. Payloads are named by the login
whose usage they report, or `"corrupt"`.

**AnthropicFetch** EXTENDS it: `fetch_snapshot` for any number of processes.
`pc` follows the function from `Start` over `TakeLock`, `TakeCredLock`,
`ResolveCreds`, `LookInCache`, `DecideRefresh`,
`Granted`/`RefreshRefused`/`RefreshLost`, `SaveCreds`/`SaveFails`,
`CheckBearer`, `UsageAnswered`/`UsageFails`/`UsageLost` to one of the returns.
Desktop's second lock is a step that may be had or not; it has no holder of its
own, as whoever wants it holds the cache's lock already. The token endpoint is
part of the model: it accepts the latest refresh token only (`issued`), and a
request whose sender timed out or died is still granted when it arrives
(`stray`), the case in which a rotation is lost through nobody's fault. `lost`
remembers that it happened.

**TokenRotation** is the abstract specification of a rotating login: what is
`stored`, what the provider has `accepted` last, what is being asked, whether a
new token is `inFlight` to the store, whether one was lost (`broken`). Only the
stored token is sent, one request at a time, and nobody asks again until the new
one is stored. `AnthropicFetch` and `KimiRefresh` both implement it: each has
`Rotation == INSTANCE TokenRotation WITH ...` and the property `RotatesInTurn ==
Rotation!Spec`. In the fetch, `asking` are the tokens of the processes whose
request is out and `inFlight` is a process that holds a grant it has not saved;
in Kimi they are the clients at `"refresh"` and the process at `"save"`, and the
CLI's refresh, of which only the result is seen, is the abstract `Replace`.

**ClaudeSwitch** has the switch as the code builds it: `Plan`, the list of
writes in the order of `switch_cli_account` (capture the outgoing login, install
the incoming one, move the marker, delete the named copy), performed one step at
a time, and `Undo`, the list of restores when one fails. `ReadSlots` has
every refusal (`Refused`) and `--force`, and reads all that the move and its
rollback need before the first write. A write may fail with or without its
effect, and a process may die between any two. Around it run the fetch (read,
refresh, write back) and the `claude` client. `owed` are the logins that nobody
gave up. Four history variables say what a fault has left behind: `cut`, that a
crash or a failed restore ended a move half way; `torn`, that the marker has been
at odds with the default slot (`AtOdds`) since then, until a move or a sign-in
repairs it; `unrestored`, the very logins whose copy a rollback failed, or did not
live, to put back; `misled`, that a later switch has taken its active account from
such a marker.

**CodexSwitch** has the same for files instead of a keychain: sorted locks,
journal, `Forget` of the unnamed caches after the switch, and the fetch whose
route is asked again under the lock (`ROUTE_ATTEMPTS`). Here the fetch is
composed with the switch in one module, because the two meet in the locks. A
crash, a failing write, a sign-in and a refresh by a Codex session are counted
together as troubles (`Trouble`), and the properties say which of them excuses
what.

**KimiRefresh** has the lock directory with its age and marker, the heartbeat,
the steal (look, then remove), the release (look at the marker, then remove) and
the CLI as another client that follows `proper-lockfile`. `mishap` remembers the
three races that the directory's protocol leaves open (section 7); exclusion
among our own processes does not depend on it, exclusion of the CLI does
(`KeptApart`).

**DeviceLogin** has one thread per start of the sheet, the numbered fact
(`seq`), the registry of running CLIs, cancel/replace/exit at every step, and
the commit point of a login this program saves itself. While the CLI runs the
sheet looks at its output as often as it likes (`Look`), and each look at a code
whose expiry differs shows it again and moves the deadline (`ShowCode`). What the
CLI prints by then is a free choice.

**KeyCheck** has `config.toml` as a record of what the writers touch, each
writer's read and write under the lock file as two steps, the check's five
phases, and the catalog with its generation and its DUE flag.

**TuiApp** has the event loop: what is shown per tab, what is in flight, the
generation that invalidates answers, the reload split into look, read and stamp,
and the context overlay with its scans.

**Notify** has the decision of `decide` per window (re-arm band, reset moved
later by more than the tolerance, refilling windows, rows without a reset), the
credits, the lock with its timeout, the save before the toasts, failing saves
and crashes. The provider's account of a window carries the number of its
*crossing*: the code has no such number, the properties need it to say "the same
crossing". `overtaken` are the entries of which an older reading was decided
after a newer one. A rolling window may slide at any time, again and again; no
bound of its own stops it.

**DesktopSwitch** has the login half of Claude Desktop: `apply_switch` and
`capture_profile`, step by step under the switch lock, and the usage fetch that
reads a saved account's token and may refresh it. `live` and `browser` are the
application's tokens and its browser state, `saved` a profile of both per
account, `prelogin` what a capture put aside. While the application is `"up"` it
renews its tokens (`AppRenews`), which spends the old ones everywhere else:
`issued` and `alive` are the provider's side. Every step may fail (`StepFails`,
`RestoreFails`, `RollbackFails`, `CannotRelaunch`, ...) and a crash may come at
any. The user may sign in as any account whenever the application runs, between
a capture's naming the outgoing account and its `quit` as well (`AppSignsIn`).
`excused`, `misfiled` and `mishaps` name the exceptions of section 7.

**DesktopHistory** has the other half: `Plan` while the application still runs
(the three-way merge against the ledger, the candidates for deletion, the
user's answer, `Decline`), then `Stop`, `CopyChats`, `WriteRegistry`, `Sweep`,
`ConvergeNames`, `SaveLedger`, `Complete`. Failures that are only reported are in
the steps themselves (a sweep or a renaming that reaches some accounts) and in
`LedgerNotSaved`; `Abort` is a failure that unpacks the archive, `CommandDies` a
death. Between switches, and while one waits for its answer, the user edits
routines, takes turns in chats, deletes, and signs in as another account without a
switch (`SignIn`). A definition is its creation time, its name and the rest, each
with the number of the edit that made it: enough to tell which copy `merge.rs`
prefers, and whether an edit survived. `conflicted` holds the routines for which
a plan has reported a conflict (`account.rs`, 1180-1195) until they are edited
again: the user has been told.

**SelfUpdate** has the tray's worker (check, mode, snooze, the hand-off it
writes to `update.json` before it quits), the install with `PutAside` and
`Place` for each binary and `Undo` in reverse, the restart that sweeps the
`.old` files, and Scoop, which installs in the tray's place.

**VendorFetch** has the fetch of the other thirty vendors. They follow one plan
and differ in seven respects, so a vendor is a record of them (`binds`: what
names a payload; `reads`: whether the login is read before or within the lock;
`ends`, `gate`, `spends`, `expiry`, and `own` for what only one vendor does) and
the record is the constant variable `vendor`, chosen in `Init`. `Kiro`, `Devin`
and the others are the values; each is mapped to the code it summarises. The
sidecars are written in one step here; `AnthropicFetch` takes those writes apart.

`MC*` modules give TLC its symmetry sets and values. Three of them,
`MCClaudeSwitch`, `MCClaudeDesktop` and `MCBackground`, check two specifications
that share no state: `part` says which of the two moves while the other rests in a fixed
state, so that one run covers the sum of the state spaces and not their product.
The `*Proofs` modules hold the theorems; four of them are about two modules each.
Modules that are extended together name their parts apart (`UpdateInit`, `TuiInit`,
`KeyInit`, `MergeInit` and so on). Every module of a part of the program states
its types (`TypeOK`); they are proved for the fetch, both CLI switches, Kimi, the
device sign-in, the key check, the self-update, the notifications, both halves of the
Desktop switch and the other vendors. How the fetch, the switches and the
notification check use each other's state is modelled from the other side: the
switches contain the fetch's three credential steps, `Notify` contains the fetch
as one reading. `AnthropicFetch` is the detailed account of that fetch.

## 3. The runs

TLC finishes the whole state space of every passing run.

| run | setting | shows |
|---|---|---|
| `fetch` | two processes, crashes, lost answers, 429s, failed writes, rotation, Desktop's second lock | nobody asks under a backoff or over fresh data (`NoNeedlessRequest`); what is shown is not too old, and a wire-only read is flagged (`HonestOutcome`); the fetch implements the abstract rotation (`RotatesInTurn`) |
| `switch` | *logins*: two accounts, a stranger's login, two processes, three failing operations or deaths, each at any write or restore; *keys*: two checks beside a save in the overlay, a switch in the tray or an edit from another frontend | no login is lost but those a rollback failed to put back, until a switch has trusted a marker at odds with the slot (`EveryLoginKeptUntilMisled`); one copy per login and a marker that tells the truth (`SlotsAndMarkersAgree`); `RollBackRestores`; `RefusedKeyIsNotKept`; no writer undoes another's save (`SavesOfOthersStay`); `SwitchIsNotPutBack` |
| `codex` | a switch beside fetches of the unnamed and of a named account, with one crash, failure, sign-in or session refresh | `EveryLoginKept`; neither a second copy nor the previous login's figure stays (`NothingIsLeftBehind`); `TokensAreLive`; figures are stored under their own account (`FigureIsTheirs`) |
| `device` | overlapping sign-ins, cancels, exit | `NothingIsLeftRunning`; cancelled means not saved, saved means told (`SavedAsSaid`); a sheet whose CLI settles on a code gets its verdict (`SheetGetsAVerdict`); a replaced flow stops without waiting for its code (`ReplacedFlowStops`) |
| `tui` | refreshes, an edit, a save, changing tab lists, the context overlay | no stale answer lands and spinners end with their request (`TabsAreCurrent`); `ScanIsTheNewest`; an edit the loop can still see is followed (`PendingEditIsFollowed`) |
| `notify` | two frontends, two entries, a rolling and a refilling window, a credit, failing saves, crashes | no crossing is announced twice, unless its reset has slid by more than the tolerance since (`OneToastPerCrossing`); what stays over the threshold unmarked is announced (`CrossingIsTold`) |
| `desktop` | *logins*: switches, captures and a fetch over two accounts, a failure or a crash, sign-ins as the other account at any time the application runs; *history*: two accounts, a routine, a chat, edits, turns, deletions, sign-ins | `EveryLoginKept`, `AppKeepsItsLogin`, `FiledUnderItsOwn`, `EndsWholeOrGoesBack`; `NoEditIsLost`, `TheNewestIsShown`, `DeletionsAreTheUsers` |
| `background` | *Kimi*: two processes and the CLI, deaths, late heartbeats, unwritten markers; *updates*: three platforms, two releases, two failures or kills | `LockExclusive`, `RotatesInTurn`, `AbandonedLockGoes`; `WholeOrAsBefore`, `NothingIsLost`, `HandedOffOnce`, `CheckIsAnswered` |
| `vendors` | each of thirty vendors, two processes, two logins of one account and one of another, lapses, renewals, failures, a death | figures are the login's (`FiguresAreItsOwn`); backoffs and spacings are kept (`NobodyAsksEarly`); a rotated token is kept (`TokenIsKept`); Devin's sidecars are its login's (`MarkersAreOfTheLogin`) |

Three more runs, `key_saved`, `grok_pair` and `notify_slides`, each refute one
statement that a comment makes (section 7). Every property of a passing run has a
mutant in PROJECT.json: a plausible bug in a mapped definition that the property's
run detects.

The runs take between seconds and three and a half minutes with two workers. `desktop`
(six million states), `switch` (four), `vendors`, `fetch` and `codex` are the largest.

## 4. Bounds

All bounds are CONSTANTS, set in the `.cfg` files. Those named `Max...` stand in
the guards of what the environment does (the user, the provider, the servers,
faults) or starts, never in the guard of a step the program has begun.

* **Processes**: two in `fetch`, `switch`, `notify` and `vendors`. Every interleaving
  hazard listed is between a process inside its critical section and one
  outside; a third adds no new pair, and locks are handed to anybody. Kimi has
  three clients, since two of ours and the CLI are different roles. Codex has one
  switcher and two fetchers: every switch holds the default slot's lock, so a
  second one would only queue, while fetches overlap with it.
* **Accounts**: two and the login of a stranger for Claude; two labels and two
  identities for Codex; two for Claude Desktop. A switch touches the outgoing and
  the incoming account. `vendors` has three logins, two of one account: a vendor
  that binds its payload to the key tells the two apart, one that binds it to the
  account does not, and both tell the third.
* **Time**: ticks. In `fetch` TTL and MAX_STALE are 1 and the backoff 2: age 0
  is fresh, 1 servable but not fresh, 2 too old, each with and without an armed
  backoff, and each can pass into the next during a wait. Ages stop at MaxStale +
  1, beyond which no comparison tells them apart. For Kimi Stale is 2 and
  Heartbeat 1, so one late beat is harmless and two are not. In
  `vendors` all three times are 1; its finer account is `fetch`.
* **Percentages** in `notify` are 0, 2 and 3 with the threshold 3 and a band of
  1: below the band, inside it, at the threshold. The tolerance 3 lies above one
  slide (2) and below the span of a window (10), as 90 minutes does between a
  refresh and five hours. The provider changes something twice (`MaxChanges`),
  and both changes may be slides of the window that starts over the threshold: the
  second one exceeds the tolerance. The theorem bounds neither.
* **Tokens**: one rotation in `fetch`, `codex` and `vendors` (a spent token is
  being sent again after the first), one per identity in `switch`, two in
  `background`; four tokens in all in `desktop`, of which one to three are issued
  at the start, so that one to three renewals or sign-ins follow.
* **Faults**: three failing operations or deaths in `switch` (a write that fails, a
  restore that fails, and what comes after: the death of the rollback or the next
  switch's own failure), one
  trouble in `codex` and `desktop` (there a failing roll-back comes on top, after a
  failing step or without one), two deaths of Kimi processes and two troubles
  of an update (a failing step and the failing roll-back of it) in `background`,
  one crash in `notify`, one death in `vendors`. A second crash finds nothing in
  memory that the first did not. What a failed history merge leaves on the disk the
  next one meets; there the theorems, which bound no failures, go further than the run.
* **History**: one routine with two edits, one chat with two turns, or both with one
  edit or turn between them (`InPlay` of `MCClaudeDesktop`). The merge decides each
  routine and each chat by itself; two edits are one under each account, the
  conflict. Both together are there for what one switch does to both, such as a
  sweep that reaches some accounts. The theorems know no such division.
* **Releases**: two versions, of which the first is installed, and three
  binaries: one before, one at and one after the failing one.
* **User**: two starts (`device`: one may replace the other), two sends and one
  other writer (the key checks in `switch`), two rounds of requests, one edit and one save, two scans
  (each of them may open the overlay anew) in `tui`, of which at most two (`MaxTogether`) edits, saves
  and scans meet in one behaviour: edits and saves concern the configuration,
  scans the overlay, and the two share no state.

Bounds on user and provider actions mean that a behaviour may end with nothing
left to do: `Background`, `Device`, `KeySaved`, `Notify`, `NotifySlides` and `Tui`
say `CHECK_DEADLOCK FALSE`, and `NoMoreChecks` of `MCClaudeSwitch` says it of the
key checks alone. The fetches, the CLI switches and the two halves of the
Desktop switch can always go on and are checked for deadlock; in `codex` that
includes the circular wait for two directories' locks. `vendors` has a `VIEW`
that leaves out `out`, the last outcome: no guard reads it, and the property that
does reads the primed value, on every step TLC generates.

## 5. Fairness

Safety is checked without relying on fairness. For liveness:

* `KimiRefresh`, `AbandonedLockGoes`: processes are scheduled and the bar polls
  again (weak fairness of each process's `Start` and `Step`), time passes. The
  CLI owes nothing.
* `SelfUpdate`, `CheckIsAnswered`: the worker goes on (weak fairness of answers,
  of the install's steps and of the swap): a check ends by its timeout, a download
  by its own. Restarts, releases and the user owe nothing.
* `DeviceLogin`: `ThreadsRun` (threads go on, requests and polls end by their
  timeout: weak fairness of each flow's steps). `SheetGetsAVerdict` has two
  antecedents which no fairness of ours gives: the passing of each deadline
  (`DeadlinesPass`), and a CLI that from some time on names no other expiry
  (`CliSettles`), as each one it names moves the deadline (section 7);
  `ReplacedFlowStops` has neither, which is its point: a replaced flow stops at its next look.
* `TuiApp`, `PendingEditIsFollowed`: the loop goes round and requests end
  (timeouts); *strong* fairness of a reload that succeeds, as a file that is
  readable again and again is read some day, and of answers, which have a turn of
  their own in the loop.
* `Notify`, `CrossingIsTold`: each check goes on to its end (weak fairness; the
  notifier has a time limit), refreshes recur (strong, for readings of an entry
  while the lock is free: readings of an entry are in order and so interrupted),
  and strong fairness of taking the lock and of saving: nobody is locked out of
  *every* check or fails in *every* save. One lock-out or failure is allowed at
  any time, and that the code makes up for it is what the run shows.

The other runs have no liveness property. That a fetch ends follows from its
deadlines (`LOCK_TIMEOUT`, `REFRESH_TIMEOUT`, `HTTP_TIMEOUT`), each of which is
an action of the model (`LockTimeout`, `RefreshLost`, `UsageLost`); that no state
blocks it is the deadlock check.

## 6. Proofs

What TLAPS proves, for every number of processes, logins, ticks and rotations
that the named assumptions admit, and for every behaviour, fault included, that
the specification allows:

| theorem | module | says |
|---|---|---|
| `TypeCorrect` | AnthropicProofs | `Spec => []TypeOK` |
| `LockIsExclusive` | AnthropicProofs | whoever works holds the flock, and nobody else |
| `AsksOnlyWhenNeeded` | AnthropicProofs | `[]NoNeedlessRequest` |
| `SendsTheTokenOnDisk`, `RefreshKeepsTheTokenLive` | AnthropicProofs | the token sent is the one on disk; the one on disk is accepted unless an answer or write was lost |
| `OutcomesAreHonest` | AnthropicProofs | `[]HonestOutcome` |
| `FetchImplementsRotation` | AnthropicProofs | the fetch implements `TokenRotation` (`RotatesInTurn`) |
| `FetchKeepsUp` | AnthropicProofs | and has what the rotation promises: the stored token is the accepted one, or about to be replaced, until a token is lost, and nothing else is sent |
| `KimiTypes` | BackgroundProofs | `[]TypeOK` |
| `ProcessesExclude` | BackgroundProofs | our processes exclude each other, next to any CLIs and any mishaps |
| `LockExcludes` | BackgroundProofs | `[]LockExclusive`: processes exclude each other always, a CLI and any other client until the first mishap |
| `NoTokenIsBurnt`, `FileKeepsUp` | BackgroundProofs | with no CLI always, next to CLIs until the first mishap: no token is sent twice, the file holds the latest |
| `RefreshImplementsRotation` | BackgroundProofs | Kimi's refresh, any CLIs included, implements `TokenRotation` (`RotatesInTurn`) |
| `TypesHold` | FrontendProofs | `[]DeviceTypeOK` |
| `NothingLeft` | FrontendProofs | an ended flow leaves no process, no CLI outlives the tray, no listed pid is reaped |
| `SaidIsTrue` | FrontendProofs | a cancelled Nous login is not saved, "ok" means stored, a saved login is told |
| `TabsStayCurrent` | ConfigProofs | a tab shows nothing of another configuration; its spinner is on while an answer is due |
| `NewestScanShows` | ConfigProofs | an open context overlay shows the scan it asked for last |
| `StoreIsWellFormed` | ClaudeSwitchProofs | `[]TypeOK`, refreshes that overlap a switch included |
| `LoginsAreKept` | ClaudeSwitchProofs | with no such overlap (`Rivals = {}`): no login nobody gave up is ever out of every slot, but for those whose copy a rollback could not put back, until a switch has trusted a marker at odds with the default slot |
| `MarkersAreRight` | ClaudeSwitchProofs | with no such overlap: between operations one copy of each token, but for the one a cut-off move leaves; the marker is the slot's, but for one such a move put at odds and nothing has repaired; claims are true at all times |
| `FailedSwitchLeavesNoTrace` | ClaudeSwitchProofs | with no such overlap: a rollback that meets no failure of its own leaves all as the switch found it |
| `CodexTypes` | CodexSwitchProofs | `[]TypeOK` |
| `CodexLoginsKept` | CodexSwitchProofs | no login nobody gave up is ever out of every file, until a restore fails or a session was refreshing the login that moved |
| `CodexNothingLeftBehind` | CodexSwitchProofs | a login is in two files only under both locks of its mover; a switch that has returned leaves no figure of the login before |
| `CodexTokensLive` | CodexSwitchProofs | each file holds the accepted refresh token, or the fetch that had it rotated is about to write it |
| `CodexFigures` | CodexSwitchProofs | a figure is stored only for the account whose login was asked with |
| `KeyCheckTypes` | ConfigProofs | `[]TypeOK` |
| `RefusedKeysGo` | ConfigProofs | a refused key is not left in config.toml (`SentKeys` and `UserKeys` disjoint) |
| `SwitchStays` | ConfigProofs | the popover draws the switch as the tray last set it |
| `SavesStay` | ConfigProofs | no writer undoes a save of another |
| `UpdateTypes` | BackgroundProofs | `[]UpdateTypeOK` |
| `InstallsEndWhole` | BackgroundProofs | an install ends whole or as before, at whichever binary it failed |
| `NoBinaryIsLost` | BackgroundProofs | no step takes the last copy of a binary, but the sweep of one that never came back |
| `ScoopIsHandedAVersionOnce` | BackgroundProofs | a version is handed to Scoop once, through restarts, kills and failing writes |
| `DesktopTypes` | DesktopSwitchProofs | `[]TypeOK` |
| `DesktopLoginsKept` | DesktopSwitchProofs | no switch, capture, failure or crash throws the last good copy of a saved account's login away, the exceptions of section 7 apart |
| `DesktopAppKeeps` | DesktopSwitchProofs | the application is never left with a token spent by others, the same apart |
| `DesktopFiled` | DesktopSwitchProofs | tokens and browser state are filed under their own account, and a fetch holds its own account's token, two exceptions apart: a profile that a capture filled with another login than it had named, a fetch that found another login in the application than when it looked |
| `DesktopEndsWhole` | DesktopSwitchProofs | a switch or capture ends whole, unless torn by a crash or a failed roll-back or misfiled as above; what a capture would put back is the login it found, still good |
| `HistoryTypes` | AnthropicProofs | `[]MergeTypeOK` of the Desktop history |
| `DeletionsHold` | AnthropicProofs | a switch asks to delete only what the user deleted there; what left every account stays away |
| `EditsHold` | AnthropicProofs | the user's last edit of a routine is still in some account, unless a conflict was reported, the exceptions of section 7 apart |
| `NewestShown` | AnthropicProofs | the account a complete switch ends in shows it, the same apart |
| `NotifyTypes` | FrontendProofs | `[]TypeOK`: who decides or tells holds the lock, and decides by the marks on the disk |
| `OneToast` | FrontendProofs | no crossing is announced twice while the readings of its entry are decided in order, unless its reset has slid by more than the tolerance since; no credit ever |
| `VendorTypes` | VendorFetchProofs | `[]TypeOK`, for whichever of the thirty vendors |
| `FiguresStayTheirOwn` | VendorFetchProofs | a payload that names a login holds its figures, and a fetch shows only those of the login it went by |
| `AskingWaits` | VendorFetchProofs | who looks at the backoff last, and who spaces its attempts, does not ask early, whoever died where |
| `RotatedTokenIsKept` | VendorFetchProofs | unless an answer or a write was lost, the accepted refresh token is in a file or with the fetch about to write it; for Grok Bot with one sign-in |
| `MarkersTellOfTheLogin` | VendorFetchProofs | once Devin's directory is bound to a login, its sidecars tell of no other's failure |

Assumptions are those of the modules: `ClockAssumption` (TTL at least one tick
and at most MAX_STALE), `LoginAssumption`, `ProcAssumption`, `KimiAssumption`,
`DeviceAssumption`, `UpdateAssumption` (the binaries are distinct, as in
`BINARIES`, and there is a first release), `DesktopAssumption` (finitely many
accounts, and room in the bound on tokens for one each at the start) and those
of the other switches, the key check and the notifications, and
`VendorAssumption` (what is no payload is not the name of one, and each login is
of an account), and `HistoryAssumption` (finitely many accounts; an identifier is
not both a routine and a chat; "absent" and "unknown" are no definitions), which is a
hypothesis of the history's theorems and an ASSUME of the module that TLC runs. They
are evaluated by TLC on each run. A theorem that needs more
says so in its own hypothesis: `Rivals = {}` for the Claude switch, where a
refresh that overlaps a switch breaks what is stated (section 7), and which is
the setting of `Switch.cfg`; and for `RefusedKeysGo` that no key is typed into
both the dialog and the overlay, since such a key is in the file as the user's
own and is rightly kept. Nothing bounds the
processes, the changes of usage, the slides or the crashes of the notifications
(`OneToast`), where a window's span is at least one instant.

The argument for the fetch. `TypeInv` strengthens `TypeOK` by what each `pc`
says of the locals (a fetch past the credential has one, a refusal has a code).
On it rest, each with its own step lemma: exclusion of the lock;
`TodoInv` (which file operations may be pending where: only `"clear"` works on
the sidecars between the decision to ask and the asking, and only by removing);
`AskInv`, inductive because the directory a question was decided on can change
only by its holder or by time, and neither makes a request needless
(`MayAskPersists`); `SlotInv` (the copy a process holds between reading the
credential and saving it is the slot's, and a rotated token it is about to save
is the latest); and `OutInv` (what a process took up was young enough when it
was read). None of the properties is inductive by itself: exclusion says nothing
of what the holder has read, and the copy's freshness is what exclusion is for.

The argument for Kimi. `TypeInv` is `TypeOK` with `SavesAToken`. `FlockHeld` (a
process at work holds the flock) is inductive by itself and gives
`ProcessesExclude` for any CLIs. The lock directory does not occur in it, which is
what the theorem says: among our own processes the directory is not needed. Next to
CLIs it is. `DirInv`: until the first mishap the directory is there exactly while
somebody is between mkdir and release, is that client's, has the marker of a process
past writing it, and is never older than one heartbeat, because its holder's
heartbeat runs until it is about to remove it; so nobody finds it abandoned, and
nobody is about to steal it. Either way at most one client is in the critical section
(`Alone`), and `TokenInv` follows: the copy a client will send is the file's, the copy
a process will save is the latest, and the file is live up to a save under way.

The argument for the device sign-in. `RunInv` follows each CLI from hand to hand:
while its flow may still need it, it is listed or the tray has closed the registry
and killed it; it is dead, with all it started, before it leaves the registry and
out of the registry before it is reaped. `SaidInv` says who may speak: a Nous flow
past `BeginCommit` is the newest and past cancelling, or an older one that no
cancel names any more (a cancel names the fact's number, and the fact is the newest
start's or nobody's); whoever has the outcome "ok" is stored. `NothingLeft` needs
the first, `SaidIsTrue` both.

The argument for the dashboard. `DueInv`: no request is of a generation to come;
those of the present one (`Due`) are one per tab, of tabs in the list, made under
the configuration in memory, and the spinners are exactly theirs. A reload makes
all older ones undue in the step that replaces the list, which is why the
generation must be one of the application and not of a tab. `ScanInv` says the
same of scans: numbered in order by the application, an open overlay waits for the
newest, and the one it shows is running no more.

The argument for the Claude switch. `LockInv`: who is at work holds the lock, and
nobody refreshes meanwhile. `WorkInv` follows an operation write by write, whatever
it found: `Stage` says what the slots are from what is still planned, `RollBackOk`
that during a rollback each slot holds what it held or what the move put there, and
that one which is passed over with another content is a login among the `unrestored`
(`PutBack`); after a single failure the rest of the list puts back every slot and the
marker (`Restorable`), which is `FailedSwitchLeavesNoTrace`. `Good` is what an
operation finds and leaves: the marker is the default slot's, or `torn`; a login is in
two slots only after a cut-off move, in the default slot and in that of the account
that claims it; a named slot holds nothing its account does not claim; every owed
login but the `unrestored` has its latest token in a slot, and in the default slot
when the marker says so. The outgoing login is captured before the default slot is
overwritten, so each stage, and each point of the rollback from it, has every owed
login in a slot, and either end is `Good` again. This much (`Whole`) holds until a
switch is `misled`: it takes the account of a wrong marker for the active one, and
captures into, or deletes, the wrong slot. None of the three properties is inductive:
they speak of slots between operations, and only the plan and the list connect these
to the slots during one.

The argument for the Codex switch, with its fetches. `LockInv`: a switch holds the
locks it no longer wants, a mover that of the default slot, so there is at most one;
a fetch that has its route holds the lock of that place. `WorkInv` follows the mover:
for some places `l` and `o` and logins `old` and `new`, which stay the same from the
decision to the end, `Parties` says that the three locks are the mover's, that
nothing else holds either login, and that no session is refreshing; `Stage` reads off
what is still to write what the three files hold, and `Journalled` says that the
journal puts back every file that differs. The order of the journal matters
(`InOrder`, `InReverse`): the rollback restores the default slot before it empties
the outgoing account's, so `old` is in one of the two at every point. `CopyInv` and
`RouteInv` tie a fetch to the login of the place it locked, `UniqueInv` says that a
login in two places is the mover's, and `LiveInv` that a token which lags is about to
be written over by the fetch that holds its place, which neither a mover, for want of
the lock, nor a session, for want of a token the server accepts, can do away with.
Which part is promised depends on what has gone wrong (`Calm`, `Tidy`, `Fresh`,
`Followed`); each step keeps each part for as long as its own excuse is missing. The
four properties are not inductive: they say nothing of the journal, the plan, or the
copy a fetch holds.

The argument for the key check. `LockInv`: at most one writer is between reading
and writing config.toml, what it read is what is there, and the worker tries one
key at a time. `KeyInv`: a key typed into the dialog is in the file only while its
check is trying it, has accepted it, or says that it stayed; so a check that puts
back what its own write replaced never puts back another check's key. `SwitchInv`
follows the popover's switch from the click to the catalog: while the tray's last
switch stands, a catalog read before the click carries an older generation than the
one drawn, and is not published over it.

The argument for the self-update. `OfferInv`: what is offered is newer than the
tray that runs, and stays offered while it is installed. `SwapInv` divides the
binaries into those done (at the new version, each with its old one aside if it had
one), the one being placed, and the rest, which are as they were; a roll-back
shrinks the first part from the end and leaves the third as it was. That the
binaries are distinct matters: a name taken twice would put the new version aside
as the old one. `HandInv` says why a version is not handed over twice: it is on
record in memory and on disk, or it has arrived, or a newer release has overtaken
it, and what is offered is never older than what is on record. Both writes of the
record may fail; the failure that loses the record also takes the hand-off back.
The order within the swap (`Min`, `Max` of sets of positions) rests on the
well-foundedness theorems of the library (`MinMax`).

The argument for the notifications. What may not be announced again depends on what
a check has read, what the provider says by now and what the file remembers, so the
invariant orders the readings. `RowsInOrder`: the readings of an entry that wait are
in a line, and each follows those before it and the one being decided (`Follows`: no
earlier crossing, and within one crossing it did not come back from below the band). `RowsSettled` and `UsageSettled`: of the crossing
that a waiting reading, or the provider's account, shows, either nothing was said, or
the mark is there and no earlier than any instant it was announced with (`Settled`),
so that `Armed` holds again only when the reset has slid past the mark by more than
the tolerance (`SaidAgainWhenSlid`), which is the exception. A save keeps them (`SettledBySave`): dropping a mark would announce the crossing again only if a
later reading still showed it, which `Follows` excludes. `ToldOnce` is what remains
to say of the toasts themselves. Of a refilling window nothing
is said twice, since only its fall below the band arms it. Once a reading is decided after a newer
one, nothing of this holds for its entry, which is why `OneToastPerCrossing` excepts
it for windows; a credit has one crossing only, and no exception.

The argument for Claude Desktop. `Stages` says what the files hold at each step of a
switch and of a capture: before anything is written the application's login is the
one that was found (`LiveIs`), then the one put in its place; what is filed goes under
the account it is of, or is noted (`LabelIs`); the application is stopped except while the user
signs in (`Course`); no fetch holds the lock (`LockInv`). `Own`: every token, in a
file or in somebody's hands, was issued to the account it is kept for, or a capture
filed it there and both accounts are excused (`OwnedNow`), so renewing one account's
token spends no other's. From these follow `WholeInv`, tokens and browser
state of one account outside the two halves of a replacement, and `KeptInv`. Its core
is that from the filing of the found login on the profiles alone hold a good token of
every account (`SavedSuffice`), so the application's may go; `FoundIsGood` and
`SwapIsCurrent` say the same of what a roll-back or a capture puts back and of what a
switch puts in, and `Apart` that a sign-in during a capture has tokens of its own,
which may be renewed without spending a profile's or the one put aside. The properties
are not inductive: they do not know that a login which is about to be overwritten has
been filed, nor whose token it was.

The argument for the Desktop history. `MergeTypes` adds to the types that no number
in a file is one of an edit still to come, so a new edit differs from all that is
recorded. `DeletionInv`: what the ledger lists and an account no longer has, the user
deleted there (`Accounted`); a plan without a routine has not overlooked one in its
target (`PlannedAll`), or writing it would be a deletion nobody made; the archive is
what is there until something is replaced; and what is gone is in no account and in
no plan (`GoneIsGone`, `NotPlannedAgain`), which is why it cannot come back from a
switch that was planned before. `EditInv` says why the next plan takes the last edit
`d` of a routine: `Standing`, it is among the copies that differ from the ledger's,
or none differ and the ledger agreed on `d`, or there is no agreement and no other
copy. A plan without a conflict has one candidate, and that must be `d`
(`StandingIsClear`); so `d` is written to the target, survives the sweep, and is the
definition the new names come from, which leave its copies as they are. Between the new
names and the ledger old copies look edited, and only the weaker `Renamed` holds; the
ledger restores `Standing`, and without the ledger it holds where no renamed copy
looks edited (`TakenForEdited`). `OneLedger`, every account has a row or none, is for a
routine that is new under an account without a row. Neither property is inductive:
that `d` is somewhere does not say that the next merge prefers it.

The argument for the other vendors. `IsVendor` is what the thirty records have in
common: which respects go together (only a vendor whose payload names its login renews
that login, only one whose logins no one returns to looks at the login twice); the lemma
`VendorsAre` looks through them once, and no other step names a vendor. `Places`: who works holds the lock. On it
and the types rest four invariants. `Owners`: a payload is of the login it names, and
only SuperGrok may ask with another login than the one it looked at; if that one is still
signed in when the answer comes, it asked with it, since nobody signs in twice there,
and so what it stores is right after all. `Quiets`: the time for which nobody should ask
is covered by the backoff, by Muse's ledger or by the note of Droid's runs, and these are
written before the attempt, so a death after it takes nothing away. `Bindings`: from the
lock on Devin's directory is bound to the fetch's login, and what its sidecars tell is
the bound login's failure; a sweep that stops half way leaves the old binding. `Issued`:
what a file holds is no newer than what the server accepts, and a fetch about to save
holds the newest; `Away` adds that a fetch which goes by a login that is signed out has
not made the signed-in one's token old. `FiguresAreItsOwn` and `NobodyAsksEarly` are
properties of steps, and say nothing of what a fetch read before; the two others are
not inductive for want of the binding and of the place of the newest token.

The refinements. Under `TypeInv`, exclusion and `SlotInv` at most one fetch has a
request out or a grant unsaved, and its copy is the slot's. So each step maps:
sending is `Ask`, a grant `Exchange`, the write-back `Store`, a refusal or a
timeout before the grant `GiveUp`, a lost answer, a failed write or a death with
the grant in hand `Lose`, everything else a stutter. A slot that cannot be read or
has no token counts as `broken`, where the abstract specification allows anything.
For Kimi the same with `Alone` and `TokenInv`; the CLI's refresh, of which only the
result is seen, is `Replace`, and a mishap next to a CLI is `Lose` (`MishapMaps`). What the rotation promises (the lemma
`RotationKeepsUp`) then holds of the fetch: `FetchKeepsUp`.

Beyond this prover, and left to TLC: liveness under fairness and ENABLED;
induction over data; RECURSIVE operators (no module here has one). Only
model-checked: all liveness (of the self-update too: that a check is answered; of the
notifications: that a crossing is told).

## 7. Where code and text disagree, and what the code accepts

Three statements of the text are refuted, each by a run whose trace shows it;
PROJECT.json quotes the text.

| run | what happens |
|---|---|
| `key_saved` | the user saves a key while a check waits; the refusal keeps the key and turns the vendor off |
| `grok_pair` | a Grok Bot fetch that read its sign-in before it waited for the lock renews a sign-in the app has left; its pair overwrites the newer one's, whose rotated token is then nowhere |
| `notify_slides` | a rolling window stays over the threshold and slides twice, each time within the tolerance; the mark keeps the instant of the announcement, so the two together pass for a new window and the same crossing fires again |

More disagreements were met and are left out of the runs by an assumption or an
exception, named where it is made:

* *A fetch that refreshes during a CLI switch* writes its token where the switch
  has put another login (`anthropic/creds.rs:336`), while `config.rs:455-457` says
  that accounts never share a token. `ClaudeSwitch` has the overlap under `Rivals`;
  with `Rivals = {"fetch"}` TLC finds `EveryLoginKept` violated.
* *Desktop files a sign-in under the wrong name*: `capture_profile` names the
  outgoing account (`claude_desktop/capture.rs`, 112-113) before it stops the
  application (115), and when a new login was seen stops it again only after the
  organisation was looked for (158-164). Who signs in as somebody else in between
  is filed under the account named before, or not at all, while 15-16 say that the
  account that was active is saved into its own profile first. `misfiled` has the
  profiles to which this happened.
* *A figure under another Desktop account*: a fetch that took its account for the
  active one reads, once it has the lock, whatever login the application has by then
  (`anthropic/desktop_creds.rs`, 88-97), and its figure goes to the cache of the
  account it was sent for, which 98-100 say inherits no other identity's usage.
  `fetch.moved` is that fetch.
* *A CLI that keeps naming other expiries* for its code moves the deadline with each
  one (`tray/device_login.rs`, 630 and 644), and the sheet waits as long as that goes
  on: `SheetGetsAVerdict` has `CliSettles` as an antecedent.
* *An edit between the reload after a save and the stamp after it* is never taken
  over (`bin/ai-usagebar-tui.rs:727`, against 299 and 725-726). The property speaks
  of an edit the loop can still tell from its stamp.
* *Switching Desktop to the account already active* is not refused by
  `plan_switch` (`claude_desktop/mod.rs`, 381-450), and puts the tokens of the plan
  over the fresher ones it has just filed, which 975-976 says must not happen.
* *Vendors whose cache is bound to a login do not look at the backoff again*: when
  the payload is another login's or its period has ended, commandcode, copilot,
  grok, droid and minimax ask during an armed backoff, while `cache.rs:146-147` says
  that no request follows and anthropic_api (122-126), cursor (110-115) and kiro
  (103-107) look again. `NobodyAsksEarly` is of the vendors that look.

Other windows are narrower, or documented by the code itself. The models contain
them and the properties name them as their exceptions:

* *Backoff over a payload that does not parse* (`NoNeedlessRequest`): such a
  payload is handed out under an armed backoff, refused by the parser, and a live
  request follows.
* *A backoff that ends between the look and the outcome*: an expired payload is
  then shown without its stale marker. `HonestOutcome` therefore speaks of the
  age and of wire-only callers, not of every flag.
* *A rollback that fails itself* (`unrestored`) goes on, and deletes the captured
  copy of a login it could not put back: that login is then in no slot. A target
  whose deletion failed after taking effect, and whose restore fails too, is lost the
  same way although marker and slot agree. The property excepts these very logins.
* *A crash, or a failing restore, between the slot and the marker* (`torn`): the
  next switch may take the marker's account for the active one (`misled`), capture
  the wrong login into its slot or delete its only copy as redundant. The property
  ends with that switch, not with the crash.
* *A crash in the middle of a move* (`cut`): the same token is in the default
  slot and in a named one until the next switch.
* *A Codex session that read the file before a switch* writes its refresh over
  the other login: a documented limitation, `"crossed"` in CodexSwitch.
* *Kimi's directory* (`mishap`): two clients find one abandoned directory and the
  slower removes the quicker one's new one; without a marker the heartbeat ends
  at its first beat and a slow refresh looks abandoned; a holder suspended
  between its look and its removal removes its successor's directory.
* *Device sign-in*: a CLI that stores its login just as the sheet closes ends as
  gone and the host is not told; `VerdictsAreHonest` speaks of logins this
  program stores itself.
* *Desktop logins* (`excused`): an account is taken for inactive before the lock is
  had, and a fetch then spends the token of what a switch has made the live login;
  a refreshed token that is never stored; the same-account switch above; an archive
  that cannot be unpacked; the only good copy, given up by a user who signs in as
  somebody else; a login a capture has misfiled. A capture whose `quit` fails returns
  without relaunching what it stopped.
* *Desktop history* (`spoilt`): an edit made while the switch waits for the user's
  answer is missing from its plan and recorded as its baseline; a switch that fails
  after the ledger was saved takes back the registries and not the ledger; and a
  switch that gives copies their new name, and then cannot write the ledger or dies
  before it, leaves copies whose name alone is new, by the program's own doing, which
  the next plan takes for the user's edits (`claude_desktop/mod.rs`, 853-877 and
  897-899; `TakenForEdited`). The names of routines in conflict are made one all the
  same (`merge.rs`, about 614-624, says conflicts are left alone); conflicts are
  reported, and the properties are of routines without one.
* *Self-update* (`mishaps`): a kill between two renames leaves versions mixed or a
  binary missing, and nothing repairs it; the next start's sweep then deletes the
  `.old` that is its last copy. A manual hand-off that fails clears the note of the
  background's (`update.rs:591-593`), which hands the version off again.
* *Vendors whose payload names no login* show the previous key's figure until the
  TTL is over; `moonshot` documents a target that would name the key and does not
  (98-100). What cursor gets by its agent is never served to the other identity.
  All but Devin keep another login's error or stale marker beside a cached figure.
* *Key check*: between the check's write and its request another key may be
  saved, and the verdict is of that one; an overlay opened during a check and
  saved untouched turns the vendor on again.
* *A reading from before a crossing, checked after its announcement*
  (`overtaken`), removes the mark, and the next refresh announces again.

## 8. Assumptions of the models

* Relative time never runs backwards; file operations are atomic (the code
  renames into place); a flock dies with its process.
* ClaudeSwitch: the store is a keychain that reads and writes single items. The
  user signs in only while no switch runs and with an identity signed in
  nowhere. A refresh overlaps a switch only when `Rivals` says so, which the
  run's instance does not (section 7).
* CodexSwitch: the layout is valid and the directories exist; `--dry-run` changes
  nothing and is left out; one fetch per account's cache, since the cache has its
  own flock; what the look at the route before the lock sees may be anything.
  The user signs in at a place that is not locked or being fetched, as an account
  signed in nowhere.
* KimiRefresh: the CLI's logout and sign-in are left out; its lock is
  `proper-lockfile` as `kimi/lock.rs` describes it.
* DeviceLogin: Unix process groups; a CLI exits successfully only after it
  stored its login; what a look at its output finds (no code, the same
  one, another expiry) is a free choice at every look.
* DesktopSwitch: one switch or capture at a time, by the lock; the store's ciphers
  and the layout of a profile are left out; the user opens the application, signs in
  and lets it renew at any time it is not held closed. One fetch, since fetches of
  one account exclude each other by the cache's lock and of two do not meet.
* DesktopHistory: an identifier is not used again once it has been deleted somewhere
  and is held by nobody; the ledger is written whole; chats are copied in one step.
* SelfUpdate: one tray per machine (the tray is a single instance); a rename is
  atomic; downloads are verified before the swap begins and named by their version.
* VendorFetch: a directory begins empty or with a payload that does not parse and a
  backoff; a process dies only while it holds the lock, which is when it matters;
  the renewals that Grok Bot's own app makes in memory are left out. Muse notes its
  attempt with the time at which it began to wait for the lock (`muse/fetch.rs`, 63
  and 106), up to 20 seconds early; the model notes it under the lock, so the spacing
  it shows is the five minutes less that wait.
* KeyCheck: the vendor's environment variable is not set and another provider is
  enabled; the sheet sends one at a time, in order; the user's keys differ from
  the sent ones; text editors, which take no lock, are left out; threads do not
  panic.
* TuiApp: each write of the file changes its stamp; tasks do not panic.
* Notify: an answer names all windows of its entry. The threshold is constant
  and above the band. A state file that somebody removes and the one-off renaming
  of old keys are left out. A notifier that fails counts as told: the code cannot
  know.

## 9. Not modelled, and why

* *Sequential state that a test reaches*: the active vendor (`active.rs`: one word
  in a file, replaced by a rename), the priorities' history (a bounded list under a
  lock), the account commands (argument checks around the transactions of
  ClaudeSwitch and CodexSwitch).
* *Reads, computes and prints*: usage report, widget and command line, MCP server,
  context scan, configuration parsing, pacing and recommendation. A fault there is
  one of arithmetic or wording, found by the tests beside the code.
* *Probing*: antigravity looks for a language server among processes and ports;
  nearly all of it parses what it finds.
* *Windows and drawing*: the tray hosts, menus, icons; what their worker does with
  the state is in KeyCheck, DeviceLogin and SelfUpdate.
* *Of the modelled parts*: `prepare`, the history-only merge, the seeding of a
  captured account, the bridge and device files and the ciphers of Claude Desktop;
  download, signature and checksum of an update; how each vendor finds its sign-in
  and parses its answers; Nous Research's persisted device code.
* *Outside the crate*: the GNOME, KDE, Omarchy and Mint frontends run the widget
  and draw it; claude-code-mod, packaging and scripts hold no state of the system.

## 10. Plan

Done: cache, fetch, both CLI switches, Kimi
(with proofs), the abstract rotation and both refinements (with proofs), device
sign-in, dashboard, key check, self-update, notifications and the Desktop switch
(with proofs), the other vendors (with proofs), the Desktop history (with proofs).
The order was by what a mistake costs: a lost login
first, then needless requests, then wrong figures, then annoyances.

What is left, in this order:

1. Account add, rename and forget against a fetch in flight, composed with
   `UsageCache`: a figure forgotten is not written back.
2. An abstract `MoveLogin`, atomic, that the CLI switches and the Desktop switch
   implement when nothing fails.
3. The pure algorithms as operators against a reference: pacing and
   recommendation, `overview_tabs` and `build_tabs`, refresh staggering, countdowns.
4. The active vendor and the priorities' history, antigravity's choice of a source.

A new state machine shares a run with one it has no state in common with, and a
shallow property makes room for a deeper one.
