------------------------------- MODULE TuiApp -------------------------------
(***************************************************************************)
(* The terminal dashboard: App (src/src/tui/app.rs), its event loop        *)
(* (src/src/bin/ai-usagebar-tui.rs) and the context overlay                *)
(* (src/src/tui/context.rs).  One loop owns the state; the requests it     *)
(* spawned answer when they like, and config.toml is edited by others      *)
(* while the loop looks away: between reading the file and remembering its *)
(* stamp there is room for an edit.                                        *)
(*                                                                         *)
(* Every write of config.toml changes its stamp (path, time and length),   *)
(* here its version.  A request carries the version of the configuration   *)
(* it was made under.  The _Bug forms are plausible mistakes; no           *)
(* specification uses them.                                                *)
(***************************************************************************)
EXTENDS Naturals, Sequences, SequencesExt

CONSTANTS Layouts,   \* the tab lists a configuration may ask for
          Primaries, \* what [ui] primary may name; "none" when it is not set
          MaxEdits, MaxSaves, MaxRefreshes, MaxScans, \* bounds
          MaxTogether  \* bound: edits, saves and scans together

ASSUME TuiAssumption ==
  {MaxEdits, MaxSaves, MaxRefreshes, MaxScans, MaxTogether} \subseteq Nat

VARIABLES
  file,       \* config.toml
  config,     \* the configuration in memory
  stamp,      \* last_config_stamp
  loop,       \* where the event loop is, and the stamp it has just taken
  nav,        \* the tab list, the active index and whether the overview is on
  shown,      \* what each tab shows
  refreshing, \* the tabs with a request in flight
  generation, \* tab_generation
  flights,    \* the requests in flight
  context,    \* the context overlay
  scans,      \* the transcript scans that run
  count       \* bounds: edits, saves, rounds of requests, scans

tuiVars == <<file, config, stamp, loop, nav, shown, refreshing, generation, flights,
             context, scans, count>>

Tabs == UNION {ToSet(layout) : layout \in Layouts}

Files == [ver : Nat, valid : BOOLEAN, tabs : Layouts, primary : Primaries]

Loading == [kind |-> "loading", stale |-> FALSE, ver |-> 0]

NoOverlay == [open |-> FALSE, opening |-> 0, generation |-> 0, load |-> "loading", of |-> 0]

Position(tabs, tab) == CHOOSE i \in DOMAIN tabs : tabs[i] = tab

-----------------------------------------------------------------------------
(* begin_refresh, for the tabs in `wanted`, under a configuration. *)

(* A tab with a request in flight does not get another one. *)
Begin(wanted, busy) == wanted \ busy

(* A snapshot stays on screen while it is refreshed. *)
Blank(state) == IF state.kind = "ready" THEN state ELSE Loading

Flights(begun, gen, ver) ==
  {[no |-> count.rounds + 1, gen |-> gen, tab |-> t, ver |-> ver] : t \in begun}

Spawn(wanted) ==
  LET begun == Begin(wanted, refreshing) IN
  /\ refreshing' = refreshing \cup begun
  /\ shown' = [t \in Tabs |-> IF t \in begun THEN Blank(shown[t]) ELSE shown[t]]
  /\ flights' = flights \cup Flights(begun, generation, config.ver)

-----------------------------------------------------------------------------
TuiInit ==
  /\ file \in [ver : {1}, valid : {TRUE}, tabs : Layouts \ {<<>>}, primary : Primaries]
  /\ config = file
  /\ stamp = 0
  /\ loop = [pc |-> "starting", seen |-> 0]
  /\ nav = IF file.primary \in ToSet(file.tabs)
           THEN [tabs |-> file.tabs, active |-> Position(file.tabs, file.primary), overview |-> FALSE]
           ELSE [tabs |-> file.tabs, active |-> 1, overview |-> file.primary = "none"]
  /\ shown = [t \in Tabs |-> Loading]
  /\ refreshing = ToSet(file.tabs)
  /\ generation = 0
  /\ flights = {[no |-> 1, gen |-> 0, tab |-> t, ver |-> 1] : t \in ToSet(file.tabs)}
  /\ context = NoOverlay
  /\ scans = {}
  /\ count = [edits |-> 0, saves |-> 0, rounds |-> 1, scans |-> 0]

Free == loop.pc = "idle"

Room == count.edits + count.saves + count.scans < MaxTogether

NotTheTabs == UNCHANGED <<nav, shown, refreshing, generation, flights>>

NotTheConfig == UNCHANGED <<file, config, stamp, loop>>

NotTheContext == UNCHANGED <<context, scans>>

-----------------------------------------------------------------------------
(* The file, and the loop's view of it. *)

(* An editor, or another of this program's commands, writes the file. *)
Edit ==
  /\ count.edits < MaxEdits /\ Room
  /\ count' = [count EXCEPT !.edits = @ + 1]
  /\ \E tabs \in Layouts, primary \in Primaries, valid \in BOOLEAN :
       file' = [ver |-> file.ver + 1, valid |-> valid, tabs |-> tabs, primary |-> primary]
  /\ UNCHANGED <<config, stamp, loop>> /\ NotTheTabs /\ NotTheContext

(* The first requests are on their way; the stamp is taken only now. *)
Started ==
  /\ loop.pc = "starting"
  /\ stamp' = file.ver
  /\ loop' = [loop EXCEPT !.pc = "idle"]
  /\ UNCHANGED <<file, config, count>> /\ NotTheTabs /\ NotTheContext

(* The tick of config_poll: the stamp is taken before the file is read. *)
Poll ==
  /\ Free
  /\ file.ver # stamp
  /\ loop' = [pc |-> "polled", seen |-> file.ver]
  /\ UNCHANGED <<file, config, stamp, count>> /\ NotTheTabs /\ NotTheContext

(* set_tabs: the selected tab by name, or its old place in the new list. *)
Kept(tabs) ==
  IF nav.active \in DOMAIN nav.tabs /\ nav.tabs[nav.active] \in ToSet(tabs)
  THEN Position(tabs, nav.tabs[nav.active])
  ELSE IF nav.active <= Len(tabs) THEN nav.active
  ELSE IF tabs = <<>> THEN 1 ELSE Len(tabs)

(* set_tabs: nothing of the old list is in flight for the new one. *)
Cleared(tabs) == {}

(***************************************************************************)
(* reload_config of a file that parses: the configuration, set_tabs,       *)
(* select_primary after a save, and spawn_all.                             *)
(***************************************************************************)
Reload(reselect) ==
  LET begun == Begin(ToSet(file.tabs), Cleared(file.tabs)) IN
  /\ file.valid
  /\ config' = file
  /\ generation' = generation + 1
  /\ nav' = IF reselect /\ file.primary \in ToSet(file.tabs)
            THEN [tabs |-> file.tabs, active |-> Position(file.tabs, file.primary), overview |-> FALSE]
            ELSE [tabs |-> file.tabs, active |-> Kept(file.tabs), overview |-> nav.overview]
  /\ shown' = [t \in Tabs |-> Loading]
  /\ refreshing' = Cleared(file.tabs) \cup begun
  /\ flights' = flights \cup Flights(begun, generation + 1, file.ver)
  /\ count' = [count EXCEPT !.rounds = @ + 1]

PollReloads ==
  /\ loop.pc = "polled"
  /\ Reload(FALSE)
  /\ stamp' = loop.seen
  /\ loop' = [loop EXCEPT !.pc = "idle"]
  /\ UNCHANGED file /\ NotTheContext

NewStamp_Anyway_Bug == loop.seen

NewStamp == stamp

(* The file does not parse, or cannot be read just now: the next poll retries. *)
PollFails ==
  /\ loop.pc = "polled"
  /\ stamp' = NewStamp
  /\ loop' = [loop EXCEPT !.pc = "idle"]
  /\ UNCHANGED <<file, config, count>> /\ NotTheTabs /\ NotTheContext

(* The settings overlay saves: it refuses to rewrite a file it cannot parse. *)
Save ==
  /\ Free /\ ~context.open
  /\ count.saves < MaxSaves /\ Room
  /\ count' = [count EXCEPT !.saves = @ + 1]
  /\ file.valid
  /\ \E tabs \in Layouts, primary \in Primaries :
       file' = [ver |-> file.ver + 1, valid |-> TRUE, tabs |-> tabs, primary |-> primary]
  /\ loop' = [loop EXCEPT !.pc = "saved"]
  /\ UNCHANGED <<config, stamp>> /\ NotTheTabs /\ NotTheContext

(* apply_settings_action, SavedAndClose: the reload ... *)
SaveReloads ==
  /\ loop.pc = "saved"
  /\ Reload(TRUE)
  /\ loop' = [loop EXCEPT !.pc = "reloaded"]
  /\ UNCHANGED <<file, stamp>> /\ NotTheContext

SaveReloadFails ==
  /\ loop.pc = "saved"
  /\ loop' = [loop EXCEPT !.pc = "idle"]
  /\ UNCHANGED <<file, config, stamp, count>> /\ NotTheTabs /\ NotTheContext

(* ... and then the stamp. *)
SaveStamps ==
  /\ loop.pc = "reloaded"
  /\ stamp' = file.ver
  /\ loop' = [loop EXCEPT !.pc = "idle"]
  /\ UNCHANGED <<file, config, count>> /\ NotTheTabs /\ NotTheContext

-----------------------------------------------------------------------------
(* Requests. *)

(* The tick (whatever overlay is open), R, or r on the overview: every tab. *)
RefreshAll ==
  /\ Free
  /\ count.rounds < MaxRefreshes
  /\ count' = [count EXCEPT !.rounds = @ + 1]
  /\ Spawn(ToSet(nav.tabs))
  /\ UNCHANGED <<nav, generation>> /\ NotTheConfig /\ NotTheContext

(* r on a tab. *)
RefreshTab ==
  /\ Free /\ ~context.open /\ ~nav.overview /\ nav.active \in DOMAIN nav.tabs
  /\ count.rounds < MaxRefreshes
  /\ count' = [count EXCEPT !.rounds = @ + 1]
  /\ Spawn({nav.tabs[nav.active]})
  /\ UNCHANGED <<nav, generation>> /\ NotTheConfig /\ NotTheContext

Wanted_ByName_Bug(f) == f.tab \in ToSet(nav.tabs)

Wanted(f) == f.gen = generation /\ f.tab \in ToSet(nav.tabs)

(***************************************************************************)
(* apply_refresh.  A failure does not take away the snapshot on screen; it *)
(* is marked stale.                                                        *)
(***************************************************************************)
Land(f, kind) ==
  /\ Free
  /\ flights' = flights \ {f}
  /\ IF Wanted(f)
     THEN /\ refreshing' = refreshing \ {f.tab}
          /\ shown' = [shown EXCEPT ![f.tab] =
                         IF f.tab \in refreshing /\ @.kind = "ready" /\ kind = "error"
                         THEN [kind |-> "ready", stale |-> TRUE, ver |-> @.ver]
                         ELSE [kind |-> kind, stale |-> FALSE, ver |-> f.ver]]
     ELSE UNCHANGED <<refreshing, shown>>
  /\ UNCHANGED <<nav, generation, count>> /\ NotTheConfig /\ NotTheContext

-----------------------------------------------------------------------------
(* The selection: a ring of the overview and the tabs; a click on either. *)

SelectTab(i) == [tabs |-> nav.tabs, active |-> i, overview |-> FALSE]

NextTab ==
  IF nav.overview
  THEN IF nav.tabs = <<>> THEN nav ELSE SelectTab(1)
  ELSE IF nav.active < Len(nav.tabs) THEN [nav EXCEPT !.active = @ + 1]
  ELSE [nav EXCEPT !.overview = TRUE]

PrevTab ==
  IF nav.overview
  THEN IF nav.tabs = <<>> THEN nav ELSE SelectTab(Len(nav.tabs))
  ELSE IF nav.active > 1 THEN [nav EXCEPT !.active = @ - 1]
  ELSE [nav EXCEPT !.overview = TRUE]

Select ==
  /\ Free /\ ~context.open
  /\ nav' \in {NextTab, PrevTab, [nav EXCEPT !.overview = TRUE]}
              \cup {SelectTab(i) : i \in DOMAIN nav.tabs}
  /\ UNCHANGED <<shown, refreshing, generation, flights, count>>
  /\ NotTheConfig /\ NotTheContext

-----------------------------------------------------------------------------
(* The context overlay. *)

NextScan_OfTheOverlay_Bug == context.generation + 1

(* The generation belongs to the application, not to the overlay. *)
NextScan == count.scans + 1

StartScan(opening) ==
  /\ count.scans < MaxScans /\ Room
  /\ count' = [count EXCEPT !.scans = @ + 1]
  /\ context' = [open |-> TRUE, opening |-> opening, generation |-> NextScan,
                 load |-> "loading", of |-> 0]
  /\ scans' = scans \cup {[generation |-> NextScan, opening |-> opening,
                           no |-> count.scans + 1]}

(* An opening of the overlay is known by its first scan. *)
OpenContext ==
  /\ Free /\ ~context.open
  /\ StartScan(count.scans + 1)
  /\ NotTheConfig /\ NotTheTabs

RefreshContext ==
  /\ Free /\ context.open
  /\ StartScan(context.opening)
  /\ NotTheConfig /\ NotTheTabs

CloseContext ==
  /\ Free /\ context.open
  /\ context' = NoOverlay
  /\ UNCHANGED <<scans, count>>
  /\ NotTheConfig /\ NotTheTabs

(* apply_scan. *)
ScanLands(scan, load) ==
  /\ Free
  /\ scans' = scans \ {scan}
  /\ context' = IF context.open /\ scan.generation = context.generation
                THEN [open |-> TRUE, opening |-> context.opening,
                      generation |-> context.generation, load |-> load, of |-> scan.no]
                ELSE context
  /\ UNCHANGED count
  /\ NotTheConfig /\ NotTheTabs

-----------------------------------------------------------------------------
Answers ==
  \/ \E f \in flights, kind \in {"ready", "error"} : Land(f, kind)
  \/ \E scan \in scans, load \in {"ready", "error"} : ScanLands(scan, load)

TuiNext ==
  \/ Edit \/ Started \/ Poll \/ PollReloads \/ PollFails
  \/ Save \/ SaveReloads \/ SaveReloadFails \/ SaveStamps
  \/ RefreshAll \/ RefreshTab \/ Select
  \/ OpenContext \/ RefreshContext \/ CloseContext
  \/ Answers

TuiSpec == TuiInit /\ [][TuiNext]_tuiVars

(***************************************************************************)
(* The loop goes round, requests and scans end (they have time limits),    *)
(* and a file that can be read at all is read one day.                     *)
(***************************************************************************)
FairTuiSpec ==
  /\ TuiSpec
  /\ WF_tuiVars(Started) /\ WF_tuiVars(Poll) /\ SF_tuiVars(PollReloads) /\ WF_tuiVars(PollFails)
  /\ WF_tuiVars(SaveReloads \/ SaveReloadFails) /\ WF_tuiVars(SaveStamps)
  /\ SF_tuiVars(Answers)

-----------------------------------------------------------------------------
(* Types; the active index names a tab whenever there is one. *)
TuiTypeOK ==
  /\ file \in Files /\ config \in Files /\ config.valid
  /\ stamp \in 0 .. file.ver
  /\ loop.pc \in {"starting", "idle", "polled", "saved", "reloaded"} /\ loop.seen \in 0 .. file.ver
  /\ nav.tabs \in Layouts /\ nav.overview \in BOOLEAN
  /\ IF nav.tabs = <<>> THEN nav.active = 1 ELSE nav.active \in DOMAIN nav.tabs
  /\ shown \in [Tabs -> [kind : {"loading", "ready", "error"}, stale : BOOLEAN, ver : 0 .. file.ver]]
  /\ refreshing \subseteq Tabs
  /\ \A f \in flights : f.gen \in 0 .. generation /\ f.tab \in Tabs
  /\ context.load \in {"loading", "ready", "error"}

(***************************************************************************)
(* What a tab shows was fetched under the configuration in memory, never   *)
(* under one that a reload replaced while the request was on its way.      *)
(***************************************************************************)
ShownIsOfTheConfig ==
  \A t \in ToSet(nav.tabs) : shown[t].kind # "loading" => shown[t].ver = config.ver

(***************************************************************************)
(* The spinner of a tab is on exactly while a request that can turn it off *)
(* is in flight.                                                           *)
(***************************************************************************)
SpinnerMeansInFlight == refreshing = {f.tab : f \in {g \in flights : g.gen = generation}}

(***************************************************************************)
(* A tab is neither wrong nor waiting for nothing: the two together.       *)
(***************************************************************************)
TabsAreCurrent == ShownIsOfTheConfig /\ SpinnerMeansInFlight

(***************************************************************************)
(* The context overlay shows the scan it asked for last, and no scan that  *)
(* an earlier overlay had asked for.                                       *)
(***************************************************************************)
ScanIsTheNewest ==
  context.open /\ context.load # "loading" =>
    context.of = count.scans /\ \A scan \in scans : scan.opening < context.opening \/ scan.no < context.of

(***************************************************************************)
(* An edit that the loop can still tell from what it remembers is taken    *)
(* over once the file parses.                                              *)
(***************************************************************************)
PendingEditIsFollowed ==
  (Free /\ file.valid /\ file.ver # stamp) ~> (config.ver = file.ver \/ ~file.valid)

=============================================================================
