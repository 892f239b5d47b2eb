----------------------------- MODULE DeviceLogin -----------------------------
(***************************************************************************)
(* Signing in with a device code from the tray's popover:                  *)
(* src/src/tray/device_login.rs.                                           *)
(*                                                                         *)
(* The sheet numbers its starts; the host keeps one fact, that of the      *)
(* newest start, and runs every start on a thread of its own.  A thread    *)
(* whose number is no longer the fact's must stop its CLI and keep quiet.  *)
(* Codex and Kimi run their own CLI ("cli"), Nous the flow of this program *)
(* ("nous").  Processes are modelled as on Unix: a CLI leads a process     *)
(* group, may leave processes behind in it (kin), and its pid is its own   *)
(* until it is reaped.                                                     *)
(*                                                                         *)
(* The _Bug forms are plausible mistakes; no specification uses them.      *)
(***************************************************************************)
EXTENDS Naturals

CONSTANT MaxStarts  \* bound: how often the sheet asks for a code

ASSUME DeviceAssumption == MaxStarts \in Nat

VARIABLES
  sent,      \* the last start's number
  fact,      \* the sign_in fact of the payload; seq 0 is no fact
  flow,      \* the thread of each start
  cli,       \* the CLI of each start
  running,   \* the registry of running CLIs
  saved,     \* the starts whose login was stored
  noticed,   \* the starts whose login the host was told of
  cancelled, \* history: the starts whose fact a cancel took away
  gone       \* the tray has exited

deviceVars == <<sent, fact, flow, cli, running, saved, noticed, cancelled, gone>>

Starts == 1 .. MaxStarts

Verdicts == {"ok", "expired", "unavailable", "failed"}

NoFact == [seq |-> 0, state |-> "starting", committing |-> FALSE]
Flow(kind, label, outcome) ==
  [kind |-> kind, pc |-> label, outcome |-> outcome, shown |-> FALSE, late |-> FALSE]
NoFlow == Flow("cli", "none", "gone")
NoCli == [life |-> "none", success |-> FALSE, kin |-> FALSE]

DeviceInit ==
  /\ sent = 0
  /\ fact = NoFact
  /\ flow = [s \in Starts |-> NoFlow]
  /\ cli = [s \in Starts |-> NoCli]
  /\ running = [closed |-> FALSE, pids |-> {}]
  /\ saved = {}
  /\ noticed = {}
  /\ cancelled = {}
  /\ gone = FALSE

Alive(s) == cli[s].life = "running"
Busy(s) == flow[s].pc \notin {"none", "done"}

-----------------------------------------------------------------------------
(* Job: a flow may write the fact only while the fact is its own. *)

Current(s) == fact.seq = s

Publish(s, state, committing) ==
  fact' = IF Current(s) THEN [fact EXCEPT !.state = state, !.committing = committing] ELSE fact

Goto(s, label) == flow' = [flow EXCEPT ![s].pc = label]

(* The flow leaves its loop, and the loop's variables with it. *)
Conclude(s, label, outcome) == flow' = [flow EXCEPT ![s] = Flow(flow[s].kind, label, outcome)]

FlowAt(s, label) == ~gone /\ flow[s].pc = label

-----------------------------------------------------------------------------
(* The host's event loop. *)

(***************************************************************************)
(* A newer start replaces the fact whatever the older flow is doing.  The  *)
(* preparation may refuse, the thread may not start.                       *)
(***************************************************************************)
StartWith(kind) ==
  LET s == sent + 1 IN
  /\ ~gone /\ ~running.closed
  /\ s \in Starts
  /\ sent' = s
  /\ \/ /\ fact' = [seq |-> s, state |-> "starting", committing |-> FALSE]
        /\ flow' = [flow EXCEPT ![s] = Flow(kind, IF kind = "cli" THEN "spawn" ELSE "ask", "gone")]
     \/ \E refusal \in {"unavailable", "failed"} :
          /\ fact' = [seq |-> s, state |-> refusal, committing |-> FALSE]
          /\ flow' = [flow EXCEPT ![s] = Flow(kind, "done", "gone")]
  /\ UNCHANGED <<cli, running, saved, noticed, cancelled, gone>>

(***************************************************************************)
(* The sheet closes.  A flow that is saving its login is past cancelling.  *)
(***************************************************************************)
Cancel ==
  /\ ~gone
  /\ fact.seq = sent /\ sent # 0
  /\ ~fact.committing
  /\ cancelled' = cancelled \cup {sent}
  /\ fact' = NoFact
  /\ UNCHANGED <<sent, flow, cli, running, saved, noticed, gone>>

(***************************************************************************)
(* What a signal to its whole process group makes of a CLI.                *)
(***************************************************************************)
Killed(s) == [life |-> IF Alive(s) THEN "exited" ELSE cli[s].life, success |-> cli[s].success,
              kin |-> FALSE]

(***************************************************************************)
(* stop_all, with the registry locked: every listed group is killed.       *)
(***************************************************************************)
StopAll ==
  /\ ~running.closed
  /\ running' = [closed |-> TRUE, pids |-> {}]
  /\ cli' = [s \in Starts |-> IF s \in running.pids THEN Killed(s) ELSE cli[s]]
  /\ UNCHANGED <<sent, fact, flow, saved, noticed, cancelled, gone>>

Exit ==
  /\ running.closed
  /\ gone' = TRUE
  /\ UNCHANGED <<sent, fact, flow, cli, running, saved, noticed, cancelled>>

-----------------------------------------------------------------------------
(* run_cli and the Tree it owns. *)

(***************************************************************************)
(* Spawned and listed under the registry's lock; not at all once the tray  *)
(* quits.                                                                  *)
(***************************************************************************)
Spawn(s) ==
  /\ FlowAt(s, "spawn")
  /\ \/ /\ ~running.closed
        /\ cli' = [cli EXCEPT ![s].life = "running"]
        /\ running' = [running EXCEPT !.pids = @ \cup {s}]
        /\ Goto(s, "look")
     \/ /\ \E outcome \in {"unavailable", "failed"} : Conclude(s, "finish", outcome)
        /\ UNCHANGED <<cli, running>>
  /\ UNCHANGED <<sent, fact, saved, noticed, cancelled, gone>>

Look_NeverLooks_Bug(s) ==
  /\ FlowAt(s, "look")
  /\ Goto(s, "show") \/ Goto(s, "wait")
  /\ UNCHANGED <<sent, fact, cli, running, saved, noticed, cancelled, gone>>

(***************************************************************************)
(* One turn of the loop: the lines already there are read, then the fact,  *)
(* then the code is due if the lines completed it or gave it an expiry     *)
(* other than the one on screen (nothing limits how often a CLI does),     *)
(* then come the child and the deadline.                                   *)
(***************************************************************************)
Look(s) ==
  /\ FlowAt(s, "look")
  /\ IF Current(s) THEN Goto(s, "show") \/ Goto(s, "wait")
     ELSE Conclude(s, "kill", "gone")
  /\ UNCHANGED <<sent, fact, cli, running, saved, noticed, cancelled, gone>>

Waiting(s) == [kind |-> flow[s].kind, pc |-> "wait", outcome |-> "gone", shown |-> TRUE,
               late |-> FALSE]

(***************************************************************************)
(* The code goes on screen, for the first time or with another expiry, and *)
(* moves the deadline each time.  Its page, read once, may turn out not to *)
(* be the provider's.                                                      *)
(***************************************************************************)
ShowCode(s) ==
  /\ FlowAt(s, "show")
  /\ \/ /\ Publish(s, "waiting", FALSE)
        /\ flow' = [flow EXCEPT ![s] = Waiting(s)]
     \/ ~flow[s].shown /\ Conclude(s, "kill", "failed") /\ UNCHANGED fact
  /\ UNCHANGED <<sent, cli, running, saved, noticed, cancelled, gone>>

Wait_ForEver_Bug(s) ==
  /\ FlowAt(s, "wait")
  /\ IF Alive(s) THEN Goto(s, "look") ELSE Conclude(s, "kill", "exited")
  /\ UNCHANGED <<sent, fact, cli, running, saved, noticed, cancelled, gone>>

(***************************************************************************)
(* The flow may also lose track of its child.                              *)
(***************************************************************************)
Wait(s) ==
  /\ FlowAt(s, "wait")
  /\ \/ /\ ~Alive(s)
        /\ Conclude(s, "kill", "exited")
     \/ /\ Alive(s) /\ flow[s].late
        /\ Conclude(s, "kill", IF flow[s].shown THEN "expired" ELSE "failed")
     \/ /\ Alive(s) /\ ~flow[s].late
        /\ Goto(s, "look")
     \/ Conclude(s, "kill", "failed")
  /\ UNCHANGED <<sent, fact, cli, running, saved, noticed, cancelled, gone>>

Kill_OnlyTheLeader_Bug(s) ==
  /\ FlowAt(s, "kill")
  /\ cli' = [cli EXCEPT ![s].life = "exited"]
  /\ Goto(s, "unlist")
  /\ UNCHANGED <<sent, fact, running, saved, noticed, cancelled, gone>>

(***************************************************************************)
(* The whole group is killed, the leader leaves the registry, and only     *)
(* then is it reaped.                                                      *)
(***************************************************************************)
Kill(s) ==
  /\ FlowAt(s, "kill")
  /\ cli' = [cli EXCEPT ![s] = Killed(s)]
  /\ Goto(s, "unlist")
  /\ UNCHANGED <<sent, fact, running, saved, noticed, cancelled, gone>>

Unlist(s) ==
  /\ FlowAt(s, "unlist")
  /\ running' = [running EXCEPT !.pids = @ \ {s}]
  /\ Goto(s, "reap")
  /\ UNCHANGED <<sent, fact, cli, saved, noticed, cancelled, gone>>

(***************************************************************************)
(* The exit status, and the last lines printed, of a CLI that ended on its *)
(* own are its verdict.                                                    *)
(***************************************************************************)
Reap(s) ==
  /\ FlowAt(s, "reap")
  /\ cli' = [cli EXCEPT ![s].life = "reaped"]
  /\ IF flow[s].outcome # "exited" THEN Goto(s, "finish")
     ELSE \E verdict \in IF cli[s].success THEN {"ok"} ELSE Verdicts \ {"ok"} :
            Conclude(s, "finish", verdict)
  /\ UNCHANGED <<sent, fact, running, saved, noticed, cancelled, gone>>

-----------------------------------------------------------------------------
(* run_nous. *)

(***************************************************************************)
(* The request for a code, given up when the fact moves on.                *)
(***************************************************************************)
AskForCode(s) ==
  /\ FlowAt(s, "ask")
  /\ \/ Goto(s, "code")
     \/ Conclude(s, "finish", "failed")
     \/ ~Current(s) /\ Conclude(s, "finish", "gone")
  /\ UNCHANGED <<sent, fact, cli, running, saved, noticed, cancelled, gone>>

ShowPortalCode(s) ==
  /\ FlowAt(s, "code")
  /\ Publish(s, "waiting", FALSE)
  /\ IF Current(s) THEN Goto(s, "poll") ELSE Conclude(s, "finish", "gone")
  /\ UNCHANGED <<sent, cli, running, saved, noticed, cancelled, gone>>

Poll(s) ==
  /\ FlowAt(s, "poll")
  /\ \/ Goto(s, "claim")
     \/ \E verdict \in {"expired", "failed"} : Conclude(s, "finish", verdict)
     \/ ~Current(s) /\ Conclude(s, "finish", "gone")
  /\ UNCHANGED <<sent, fact, cli, running, saved, noticed, cancelled, gone>>

BeginCommit_Unasked_Bug(s) ==
  /\ FlowAt(s, "claim")
  /\ Publish(s, fact.state, TRUE)
  /\ Goto(s, "persist")
  /\ UNCHANGED <<sent, cli, running, saved, noticed, cancelled, gone>>

(***************************************************************************)
(* The right to save the login is claimed in the pass that proves the flow *)
(* is still on screen.                                                     *)
(***************************************************************************)
BeginCommit(s) ==
  /\ FlowAt(s, "claim")
  /\ Publish(s, fact.state, TRUE)
  /\ IF Current(s) THEN Goto(s, "persist") ELSE Conclude(s, "finish", "gone")
  /\ UNCHANGED <<sent, cli, running, saved, noticed, cancelled, gone>>

Persist(s) ==
  /\ FlowAt(s, "persist")
  /\ \/ saved' = saved \cup {s} /\ Conclude(s, "finish", "ok")
     \/ Conclude(s, "finish", "failed") /\ UNCHANGED saved
  /\ UNCHANGED <<sent, fact, cli, running, noticed, cancelled, gone>>

-----------------------------------------------------------------------------
(* Job::finish: the verdict, then the hook of a login that landed. *)

Finish(s) ==
  /\ FlowAt(s, "finish")
  /\ IF flow[s].outcome = "gone" THEN UNCHANGED fact
     ELSE Publish(s, flow[s].outcome, fact.committing)
  /\ Goto(s, IF flow[s].outcome = "ok" THEN "notify" ELSE "done")
  /\ UNCHANGED <<sent, cli, running, saved, noticed, cancelled, gone>>

SignedIn(s) ==
  /\ FlowAt(s, "notify")
  /\ noticed' = noticed \cup {s}
  /\ Goto(s, "done")
  /\ UNCHANGED <<sent, fact, cli, running, saved, cancelled, gone>>

-----------------------------------------------------------------------------
(* The CLI and time. *)

CliStartsAProcess(s) ==
  /\ Alive(s) /\ ~cli[s].kin
  /\ cli' = [cli EXCEPT ![s].kin = TRUE]
  /\ UNCHANGED <<sent, fact, flow, running, saved, noticed, cancelled, gone>>

CliSaves(s) ==
  /\ Alive(s)
  /\ saved' = saved \cup {s}
  /\ UNCHANGED <<sent, fact, flow, cli, running, noticed, cancelled, gone>>

(***************************************************************************)
(* A CLI exits with success only once its login is stored.                 *)
(***************************************************************************)
CliExits(s) ==
  /\ Alive(s)
  /\ cli' = [cli EXCEPT ![s] = [life |-> "exited", success |-> s \in saved, kin |-> @.kin]]
  /\ UNCHANGED <<sent, fact, flow, running, saved, noticed, cancelled, gone>>

DeadlinePasses(s) ==
  /\ ~gone
  /\ flow[s].pc \in {"look", "show", "wait"} /\ ~flow[s].late
  /\ flow' = [flow EXCEPT ![s].late = TRUE]
  /\ UNCHANGED <<sent, fact, cli, running, saved, noticed, cancelled, gone>>

-----------------------------------------------------------------------------
FlowStep(s) ==
  \/ Spawn(s) \/ Look(s) \/ ShowCode(s) \/ Wait(s) \/ Kill(s) \/ Unlist(s) \/ Reap(s)
  \/ AskForCode(s) \/ ShowPortalCode(s) \/ Poll(s) \/ BeginCommit(s) \/ Persist(s)
  \/ Finish(s) \/ SignedIn(s)

CliStep(s) == CliStartsAProcess(s) \/ CliSaves(s) \/ CliExits(s)

DeviceNext ==
  \/ \E kind \in {"cli", "nous"} : StartWith(kind)
  \/ Cancel
  \/ StopAll
  \/ Exit
  \/ \E s \in Starts : FlowStep(s) \/ CliStep(s) \/ DeadlinePasses(s)

DeviceSpec == DeviceInit /\ [][DeviceNext]_deviceVars

(***************************************************************************)
(* The threads run, and a request or a poll ends by its own timeout.       *)
(* Neither the user nor the CLI owes anything.                             *)
(***************************************************************************)
ThreadsRun == DeviceSpec /\ \A s \in Starts : WF_deviceVars(FlowStep(s))

-----------------------------------------------------------------------------
(* Properties. *)

(***************************************************************************)
(* The shape of the fact, of each flow and of each CLI; the registry lists *)
(* only CLIs that were started.                                            *)
(***************************************************************************)
DeviceTypeOK ==
  /\ sent \in 0 .. MaxStarts
  /\ fact \in [seq : 0 .. MaxStarts, state : {"starting", "waiting"} \cup Verdicts,
               committing : BOOLEAN]
  /\ flow \in [Starts ->
       [kind : {"cli", "nous"},
        pc : {"none", "spawn", "look", "show", "wait", "kill", "unlist", "reap", "ask",
              "code", "poll", "claim", "persist", "finish", "notify", "done"},
        outcome : {"gone", "exited"} \cup Verdicts, shown : BOOLEAN, late : BOOLEAN]]
  /\ cli \in [Starts -> [life : {"none", "running", "exited", "reaped"}, success : BOOLEAN,
                         kin : BOOLEAN]]
  /\ running \in [closed : BOOLEAN, pids : SUBSET {s \in Starts : cli[s].life # "none"}]
  /\ saved \subseteq Starts
  /\ noticed \subseteq saved
  /\ cancelled \subseteq Starts
  /\ gone \in BOOLEAN

(***************************************************************************)
(* begin_commit: "a cancel either lands before this and nothing is saved,  *)
(* or after it and the login is kept; never both".                         *)
(***************************************************************************)
CancelledIsNotSaved == \A s \in cancelled : flow[s].kind = "nous" => s \notin saved

(***************************************************************************)
(* The sheet says a login landed only when the newest start's did, and a   *)
(* login this program saved is told to the host whether or not the sheet   *)
(* is still open (Job::finish).                                            *)
(***************************************************************************)
OkMeansSaved == fact.seq # 0 /\ fact.state = "ok" => fact.seq \in saved

SavedIsNoticed ==
  \A s \in Starts : flow[s].kind = "nous" /\ flow[s].pc = "done" /\ s \in saved => s \in noticed

VerdictsAreHonest == OkMeansSaved /\ SavedIsNoticed

(***************************************************************************)
(* What is saved is what the user was told, and let happen: the two        *)
(* together.                                                               *)
(***************************************************************************)
SavedAsSaid == CancelledIsNotSaved /\ VerdictsAreHonest

(***************************************************************************)
(* A flow that ended leaves no process of its CLI's group behind (Tree),   *)
(* no sign-in CLI outlives the tray, not even one that a flow was about to *)
(* start (stop_all), and a pid still listed, which stop_all would signal,  *)
(* is not reaped and so belongs to nobody else (Running).                  *)
(***************************************************************************)
EndedFlowLeavesNothing == \A s \in Starts : flow[s].pc = "done" => ~Alive(s) /\ ~cli[s].kin

NoCliOutlivesTheTray == gone => \A s \in Starts : ~Alive(s) /\ ~cli[s].kin

ListedIsNotReaped == \A s \in running.pids : cli[s].life # "reaped"

NothingIsLeftRunning == EndedFlowLeavesNothing /\ NoCliOutlivesTheTray /\ ListedIsNotReaped

(***************************************************************************)
(* A start on screen gets its verdict, or leaves the screen: whatever else *)
(* the CLI or the portal does, the sheet does not wait for ever, if the    *)
(* deadline of a code, or of a CLI that prints none, passes.  One thing    *)
(* keeps it waiting: a CLI that gives its code another expiry again and    *)
(* again, each of which moves the deadline.                                *)
(***************************************************************************)
DeadlinesPass(s) == WF_deviceVars(DeadlinePasses(s))

CliSettles(s) == <>[][~ShowCode(s)]_deviceVars

SheetGetsAVerdict ==
  \A s \in Starts :
    DeadlinesPass(s) /\ CliSettles(s) =>
      (fact.seq = s ~> gone \/ fact.seq # s \/ fact.state \in Verdicts)

(***************************************************************************)
(* A flow that was replaced or cancelled stops its CLI, and not only once  *)
(* its code has expired: no deadline need pass.                            *)
(***************************************************************************)
ReplacedFlowStops ==
  \A s \in Starts : Busy(s) /\ ~Current(s) ~> gone \/ (~Busy(s) /\ ~Alive(s))
=============================================================================
