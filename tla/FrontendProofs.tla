--------------------------- MODULE FrontendProofs ----------------------------
(***************************************************************************)
(* Proofs about what the frontends do beside fetching. First DeviceLogin,  *)
(* for any number of starts: what a flow and its CLI are to each other at  *)
(* every step, and from it that nothing is left running and that what is   *)
(* saved is what the user was told. Then Notify, for any windows, credits  *)
(* and frontends: no crossing of a window is announced twice while the     *)
(* readings of its entry are decided in order, unless its reset has slid   *)
(* by more than the tolerance since, and no credit is announced twice.     *)
(***************************************************************************)
EXTENDS DeviceLogin, Notify, TLAPS

-----------------------------------------------------------------------------
(* DeviceLogin. *)

Labels == {"none", "spawn", "look", "show", "wait", "kill", "unlist", "reap", "ask", "code",
           "poll", "claim", "persist", "finish", "notify", "done"}

Outcomes == {"gone", "exited"} \cup Verdicts

States == {"starting", "waiting"} \cup Verdicts

Facts == [seq : 0 .. MaxStarts, state : States, committing : BOOLEAN]

Flows == [kind : {"cli", "nous"}, pc : Labels, outcome : Outcomes, shown : BOOLEAN,
          late : BOOLEAN]

Clis == [life : {"none", "running", "exited", "reaped"}, success : BOOLEAN,
         kin : BOOLEAN]

Registries == [closed : BOOLEAN, pids : SUBSET Starts]

TypeInv ==
  /\ sent \in 0 .. MaxStarts
  /\ fact \in Facts
  /\ flow \in [Starts -> Flows]
  /\ cli \in [Starts -> Clis]
  /\ running \in Registries
  /\ saved \subseteq Starts /\ noticed \subseteq Starts /\ cancelled \subseteq Starts
  /\ gone \in BOOLEAN
  /\ \A s \in Starts : flow[s].pc = "finish" => flow[s].outcome # "exited"

-----------------------------------------------------------------------------
(* What the model's helpers do to the fact and to the flows. *)

(***************************************************************************)
(* A flow goes to a label and keeps the rest; no other flow changes.       *)
(***************************************************************************)
LEMMA GotoDoes ==
  ASSUME flow \in [Starts -> Flows], NEW s \in Starts, NEW label \in Labels, Goto(s, label)
  PROVE  /\ flow' \in [Starts -> Flows]
         /\ flow'[s].pc = label
         /\ flow'[s].kind = flow[s].kind /\ flow'[s].outcome = flow[s].outcome
         /\ \A t \in Starts : t # s => flow'[t] = flow[t]
  BY DEF Goto, Flows

(***************************************************************************)
(* A flow leaves its loop with an outcome.                                 *)
(***************************************************************************)
LEMMA ConcludeDoes ==
  ASSUME flow \in [Starts -> Flows], NEW s \in Starts, NEW label \in Labels,
         NEW outcome \in Outcomes, Conclude(s, label, outcome)
  PROVE  /\ flow' \in [Starts -> Flows]
         /\ flow'[s].pc = label
         /\ flow'[s].kind = flow[s].kind /\ flow'[s].outcome = outcome
         /\ \A t \in Starts : t # s => flow'[t] = flow[t]
  <1>1. Flow(flow[s].kind, label, outcome) \in Flows
    BY DEF Flow, Flows
  <1> QED BY <1>1 DEF Conclude, Flow

(***************************************************************************)
(* A flow whose code is on screen waits, and has no outcome yet.           *)
(***************************************************************************)
LEMMA WaitingDoes ==
  ASSUME flow \in [Starts -> Flows], NEW s \in Starts
  PROVE  /\ Waiting(s) \in Flows
         /\ Waiting(s).pc = "wait" /\ Waiting(s).kind = flow[s].kind
         /\ Waiting(s).outcome = "gone"
  BY DEF Waiting, Flows, Labels, Outcomes

(***************************************************************************)
(* A flow writes the fact while it is its own, and leaves it alone else.   *)
(***************************************************************************)
LEMMA PublishDoes ==
  ASSUME fact \in Facts, NEW s \in Starts, NEW state \in States, NEW committing \in BOOLEAN,
         Publish(s, state, committing)
  PROVE  /\ fact' \in Facts
         /\ fact'.seq = fact.seq
         /\ fact.seq = s => fact'.state = state /\ fact'.committing = committing
         /\ fact.seq # s => fact' = fact
  BY DEF Publish, Current, Facts

(***************************************************************************)
(* A signal ends a CLI that is running and all it started.                 *)
(***************************************************************************)
LEMMA KilledDoes ==
  ASSUME cli \in [Starts -> Clis], NEW s \in Starts
  PROVE  /\ Killed(s) \in Clis
         /\ Killed(s).life = IF cli[s].life = "running" THEN "exited" ELSE cli[s].life
         /\ Killed(s).success = cli[s].success /\ ~Killed(s).kin
  BY DEF Killed, Alive, Clis

-----------------------------------------------------------------------------
(***************************************************************************)
(* Every operation keeps the types.                                        *)
(***************************************************************************)
LEMMA TypeStep ==
  ASSUME TypeInv, [DeviceNext]_deviceVars
  PROVE  TypeInv'
<1> USE DEF TypeInv
<1>1. ASSUME NEW kind \in {"cli", "nous"}, StartWith(kind) PROVE TypeInv'
  <2> DEFINE s == sent + 1
  <2>1. s \in Starts /\ sent' = s
    BY <1>1 DEF StartWith
  <2>2. PICK label \in {"spawn", "ask", "done"} :
          flow' = [flow EXCEPT ![s] = Flow(kind, label, "gone")]
    BY <1>1 DEF StartWith
  <2>7. Flow(kind, label, "gone") \in Flows /\ Flow(kind, label, "gone").pc # "finish"
    BY DEF Flow, Flows, Labels, Outcomes
  <2>3. fact' \in Facts
    <3>1. PICK state \in {"starting", "unavailable", "failed"} :
            fact' = [seq |-> s, state |-> state, committing |-> FALSE]
      BY <1>1 DEF StartWith
    <3> QED BY <2>1, <3>1 DEF Facts, States, Verdicts, Starts
  <2>4. flow' \in [Starts -> Flows]
    BY <2>1, <2>2, <2>7
  <2>5. \A t \in Starts : flow'[t].pc = "finish" => flow'[t].outcome # "exited"
    BY <2>1, <2>2, <2>7
  <2>6. sent' \in 0 .. MaxStarts
    BY <2>1, DeviceAssumption DEF Starts
  <2> QED BY <1>1, <2>3, <2>4, <2>5, <2>6 DEF StartWith
<1>2. CASE Cancel
  <2>1. fact' \in Facts
    BY <1>2, DeviceAssumption DEF Cancel, NoFact, Facts, States
  <2>2. sent \in Starts
    BY <1>2, DeviceAssumption DEF Cancel, Starts
  <2> QED BY <1>2, <2>1, <2>2 DEF Cancel
<1>3. CASE StopAll
  <2>1. running' \in Registries
    BY <1>3 DEF StopAll, Registries
  <2>2. \A t \in Starts : Killed(t) \in Clis
    BY KilledDoes
  <2>3. cli' \in [Starts -> Clis]
    BY <1>3, <2>2 DEF StopAll
  <2> QED BY <1>3, <2>1, <2>3 DEF StopAll
<1>4. CASE Exit
  BY <1>4 DEF Exit
<1>5. ASSUME NEW s \in Starts, FlowStep(s) PROVE TypeInv'
  <2> USE GotoDoes, ConcludeDoes, PublishDoes DEF FlowAt, Labels, Outcomes, Verdicts, States
  <2>1. CASE Spawn(s)
    <3>1. cli' \in [Starts -> Clis]
      BY <2>1 DEF Spawn, Clis
    <3>2. running' \in Registries
      BY <2>1 DEF Spawn, Registries
    <3>3. flow' \in [Starts -> Flows] /\ \A t \in Starts :
            flow'[t].pc = "finish" => flow'[t].outcome # "exited"
      BY <2>1 DEF Spawn
    <3> QED BY <2>1, <3>1, <3>2, <3>3 DEF Spawn
  <2>2. CASE Look(s)
    BY <2>2 DEF Look
  <2>3. CASE ShowCode(s)
    <3>1. CASE Publish(s, "waiting", FALSE) /\ flow' = [flow EXCEPT ![s] = Waiting(s)]
      <4>1. Waiting(s) \in Flows /\ Waiting(s).pc = "wait"
        BY WaitingDoes
      <4>2. flow' \in [Starts -> Flows] /\ \A t \in Starts :
              flow'[t].pc = "finish" => flow'[t].outcome # "exited"
        <5> DEFINE w == Waiting(s)
        <5>1. w \in Flows /\ w.pc = "wait" /\ flow' = [flow EXCEPT ![s] = w]
          BY <3>1, <4>1
        <5> HIDE DEF w
        <5> QED BY <5>1
      <4>3. fact' \in Facts
        BY <3>1
      <4> QED BY <2>3, <4>2, <4>3 DEF ShowCode
    <3>2. CASE Conclude(s, "kill", "failed") /\ UNCHANGED fact
      BY <2>3, <3>2 DEF ShowCode
    <3> QED BY <2>3, <3>1, <3>2 DEF ShowCode
  <2>4. CASE Wait(s)
    BY <2>4 DEF Wait
  <2>5. CASE Kill(s)
    BY <2>5, KilledDoes DEF Kill
  <2>6. CASE Unlist(s)
    BY <2>6 DEF Unlist, Registries
  <2>7. CASE Reap(s)
    <3>1. cli' \in [Starts -> Clis]
      BY <2>7 DEF Reap, Clis
    <3>2. \/ Goto(s, "finish") /\ flow[s].outcome # "exited"
          \/ \E verdict \in Verdicts : Conclude(s, "finish", verdict)
      BY <2>7 DEF Reap
    <3> QED BY <2>7, <3>1, <3>2 DEF Reap
  <2>8. CASE AskForCode(s)
    BY <2>8 DEF AskForCode
  <2>9. CASE ShowPortalCode(s)
    <3>1. fact' \in Facts
      BY <2>9 DEF ShowPortalCode
    <3>2. Goto(s, "poll") \/ Conclude(s, "finish", "gone")
      BY <2>9 DEF ShowPortalCode
    <3> QED BY <2>9, <3>1, <3>2 DEF ShowPortalCode
  <2>10. CASE Poll(s)
    BY <2>10 DEF Poll
  <2>11. CASE BeginCommit(s)
    <3>1. fact.state \in States
      BY DEF Facts
    <3>2. fact' \in Facts
      BY <2>11, <3>1 DEF BeginCommit
    <3>3. Goto(s, "persist") \/ Conclude(s, "finish", "gone")
      BY <2>11 DEF BeginCommit
    <3> QED BY <2>11, <3>2, <3>3 DEF BeginCommit
  <2>12. CASE Persist(s)
    BY <2>12 DEF Persist
  <2>13. CASE Finish(s)
    <3>1. flow[s].outcome # "gone" => flow[s].outcome \in States
      BY <2>13 DEF Finish, Flows
    <3>2. fact' \in Facts
      BY <2>13, <3>1 DEF Finish, Facts
    <3>3. Goto(s, "notify") \/ Goto(s, "done")
      BY <2>13 DEF Finish
    <3> QED BY <2>13, <3>2, <3>3 DEF Finish
  <2>14. CASE SignedIn(s)
    BY <2>14 DEF SignedIn
  <2> QED BY <1>5, <2>1, <2>2, <2>3, <2>4, <2>5, <2>6, <2>7, <2>8, <2>9, <2>10, <2>11, <2>12,
             <2>13, <2>14 DEF FlowStep
<1>6. ASSUME NEW s \in Starts, CliStep(s) PROVE TypeInv'
  <2>1. CASE CliStartsAProcess(s)
    BY <2>1 DEF CliStartsAProcess, Clis
  <2>2. CASE CliSaves(s)
    BY <2>2 DEF CliSaves
  <2>3. CASE CliExits(s)
    <3>1. cli' \in [Starts -> Clis]
      BY <2>3 DEF CliExits, Clis
    <3> QED BY <2>3, <3>1 DEF CliExits
  <2> QED BY <1>6, <2>1, <2>2, <2>3 DEF CliStep
<1>7. ASSUME NEW s \in Starts, DeadlinePasses(s) PROVE TypeInv'
  BY <1>7 DEF DeadlinePasses, Flows
<1>8. CASE UNCHANGED deviceVars
  BY <1>8 DEF deviceVars
<1> QED BY <1>1, <1>2, <1>3, <1>4, <1>5, <1>6, <1>7, <1>8 DEF DeviceNext

-----------------------------------------------------------------------------
(* Every CLI is in somebody's hands. *)

InGroup == {"look", "show", "wait", "kill"}

AtWork == InGroup \cup {"unlist", "reap"}

(***************************************************************************)
(* A flow whose CLI may run has it listed, or the tray has killed it; the  *)
(* CLI is dead with all it started before it leaves the registry, and out  *)
(* of the registry before it is reaped; and no other flow has a CLI.       *)
(***************************************************************************)
RunInv ==
  /\ gone => running.closed
  /\ running.closed => running.pids = {} /\ \A s \in Starts : ~Alive(s) /\ ~cli[s].kin
  /\ \A s \in Starts :
       /\ flow[s].pc \in InGroup =>
            cli[s].life \in {"running", "exited"} /\ (s \in running.pids \/ running.closed)
       /\ flow[s].pc \in {"unlist", "reap"} => cli[s].life = "exited" /\ ~cli[s].kin
       /\ flow[s].pc = "reap" => s \notin running.pids
       /\ flow[s].pc \notin AtWork =>
            cli[s].life \in {"none", "reaped"} /\ ~cli[s].kin /\ s \notin running.pids
       /\ sent < s => flow[s].pc = "none"

LEMMA RunStep ==
  ASSUME TypeInv, TypeInv', RunInv, [DeviceNext]_deviceVars
  PROVE  RunInv'
<1> USE DEF TypeInv, RunInv, InGroup, AtWork, Alive
<1>1. ASSUME NEW kind \in {"cli", "nous"}, StartWith(kind) PROVE RunInv'
  <2> DEFINE s == sent + 1
  <2>1. s \in Starts /\ sent' = s /\ UNCHANGED <<cli, running, gone>> /\ ~running.closed
    BY <1>1 DEF StartWith
  <2>2. PICK label \in {"spawn", "ask", "done"} :
          flow' = [flow EXCEPT ![s] = Flow(kind, label, "gone")]
    BY <1>1 DEF StartWith
  <2>3. flow'[s].pc = label /\ \A t \in Starts : t # s => flow'[t] = flow[t]
    BY <2>1, <2>2 DEF Flow
  <2>4. flow[s].pc = "none"
    BY <2>1 DEF Starts
  <2>5. \A t \in Starts : sent' < t => sent < t /\ t # s
    BY <2>1, DeviceAssumption DEF Starts
  <2> HIDE DEF s
  <2> QED BY <2>1, <2>2, <2>3, <2>4, <2>5
<1>2. CASE Cancel
  BY <1>2 DEF Cancel
<1>3. CASE StopAll
  <2>1. \A t \in Starts : t \in running.pids => cli'[t] = Killed(t)
    BY <1>3 DEF StopAll
  <2>2. \A t \in Starts : t \notin running.pids => cli'[t] = cli[t]
    BY <1>3 DEF StopAll
  <2> QED BY <1>3, <2>1, <2>2, KilledDoes DEF StopAll
<1>4. CASE Exit
  BY <1>4 DEF Exit
<1>5. ASSUME NEW s \in Starts, FlowStep(s) PROVE RunInv'
  <2> USE GotoDoes, ConcludeDoes DEF FlowAt, Labels, Outcomes, Verdicts
  <2>1. CASE Spawn(s)
    BY <2>1 DEF Spawn, Clis, Registries
  <2>2. CASE Look(s)
    BY <2>2 DEF Look
  <2>3. CASE ShowCode(s)
    <3>1. CASE flow' = [flow EXCEPT ![s] = Waiting(s)]
      BY <2>3, <3>1, WaitingDoes DEF ShowCode
    <3>2. CASE Conclude(s, "kill", "failed")
      BY <2>3, <3>2 DEF ShowCode
    <3> QED BY <2>3, <3>1, <3>2 DEF ShowCode
  <2>4. CASE Wait(s)
    BY <2>4 DEF Wait
  <2>5. CASE Kill(s)
    BY <2>5, KilledDoes DEF Kill
  <2>6. CASE Unlist(s)
    BY <2>6 DEF Unlist, Registries
  <2>7. CASE Reap(s)
    BY <2>7 DEF Reap, Clis
  <2>8. CASE AskForCode(s)
    BY <2>8 DEF AskForCode
  <2>9. CASE ShowPortalCode(s)
    BY <2>9 DEF ShowPortalCode
  <2>10. CASE Poll(s)
    BY <2>10 DEF Poll
  <2>11. CASE BeginCommit(s)
    BY <2>11 DEF BeginCommit
  <2>12. CASE Persist(s)
    BY <2>12 DEF Persist
  <2>13. CASE Finish(s)
    BY <2>13 DEF Finish
  <2>14. CASE SignedIn(s)
    BY <2>14 DEF SignedIn
  <2> QED BY <1>5, <2>1, <2>2, <2>3, <2>4, <2>5, <2>6, <2>7, <2>8, <2>9, <2>10, <2>11, <2>12,
             <2>13, <2>14 DEF FlowStep
<1>6. ASSUME NEW s \in Starts, CliStep(s) PROVE RunInv'
  <2>1. CASE CliStartsAProcess(s)
    BY <2>1 DEF CliStartsAProcess, Clis
  <2>2. CASE CliSaves(s)
    BY <2>2 DEF CliSaves
  <2>3. CASE CliExits(s)
    BY <2>3 DEF CliExits, Clis
  <2> QED BY <1>6, <2>1, <2>2, <2>3 DEF CliStep
<1>7. ASSUME NEW s \in Starts, DeadlinePasses(s) PROVE RunInv'
  BY <1>7 DEF DeadlinePasses, Flows
<1>8. CASE UNCHANGED deviceVars
  BY <1>8 DEF deviceVars
<1> QED BY <1>1, <1>2, <1>3, <1>4, <1>5, <1>6, <1>7, <1>8 DEF DeviceNext

-----------------------------------------------------------------------------
(* What is saved, and what is said of it. *)

Steps == {"ask", "code", "poll", "claim", "persist"}

Landed(s) == flow[s].pc = "persist" \/ s \in saved

(***************************************************************************)
(* The fact is the newest start's or nobody's, and no cancelled start's.   *)
(* A sign-in with Nous that has claimed the right to save is either the    *)
(* newest, and past cancelling, or an older one that no cancel names any   *)
(* more; once saved it is on its way to the host.  Whoever speaks of "ok"  *)
(* speaks of a login that is stored.                                       *)
(***************************************************************************)
FactInv ==
  /\ fact.seq \in {0, sent} /\ cancelled \subseteq 1 .. sent /\ fact.seq \notin cancelled
  /\ fact.seq # 0 /\ fact.state = "ok" => fact.seq \in saved
  /\ noticed \subseteq saved

StartInv(s) ==
  /\ flow[s].pc = "none" => s \notin saved /\ cli[s].life = "none"
  /\ flow[s].pc \in AtWork \cup {"spawn"} => flow[s].kind = "cli"
  /\ cli[s].success => s \in saved
  /\ flow[s].outcome = "ok" \/ flow[s].pc = "notify" => s \in saved
  /\ flow[s].kind = "nous" =>
       /\ Landed(s) => /\ s \notin cancelled
                       /\ s < sent \/ (fact.seq = s /\ fact.committing)
       /\ s \in saved => \/ flow[s].pc = "finish" /\ flow[s].outcome = "ok"
                         \/ flow[s].pc = "notify"
                         \/ flow[s].pc = "done" /\ s \in noticed

SaidInv == FactInv /\ \A s \in Starts : StartInv(s)

LEMMA SaidStep ==
  ASSUME TypeInv, TypeInv', RunInv, SaidInv, [DeviceNext]_deviceVars
  PROVE  SaidInv'
<1> USE DEF TypeInv, SaidInv, FactInv, StartInv, AtWork, InGroup, Landed
<1>1. ASSUME NEW kind \in {"cli", "nous"}, StartWith(kind) PROVE SaidInv'
  <2> DEFINE s == sent + 1
  <2>1. s \in Starts /\ sent' = s /\ UNCHANGED <<cli, saved, noticed, cancelled>>
    BY <1>1 DEF StartWith
  <2>2. PICK label \in {"spawn", "ask", "done"} :
          /\ flow' = [flow EXCEPT ![s] = Flow(kind, label, "gone")]
          /\ label = "spawn" => kind = "cli"
    BY <1>1 DEF StartWith
  <2>3. /\ flow'[s].pc = label /\ flow'[s].kind = kind /\ flow'[s].outcome = "gone"
        /\ \A t \in Starts : t # s => flow'[t] = flow[t]
    BY <2>1, <2>2 DEF Flow
  <2>4. flow[s].pc = "none"
    BY <2>1 DEF RunInv
  <2>5. fact'.seq = s /\ fact'.state # "ok"
    BY <1>1 DEF StartWith
  <2> QED BY <2>1, <2>2, <2>3, <2>4, <2>5, DeviceAssumption DEF Starts
<1>2. CASE Cancel
  BY <1>2, DeviceAssumption DEF Cancel, NoFact, Starts
<1>3. CASE StopAll
  <2>1. \A t \in Starts : cli'[t] \in {cli[t], Killed(t)}
    BY <1>3 DEF StopAll
  <2>2. \A t \in Starts : cli'[t].success = cli[t].success
    BY <2>1, KilledDoes
  <2>3. \A t \in Starts : cli[t].life = "none" => cli'[t].life = "none"
    BY <2>1, KilledDoes
  <2> QED BY <1>3, <2>2, <2>3 DEF StopAll
<1>4. CASE Exit
  BY <1>4 DEF Exit
<1>5. ASSUME NEW s \in Starts, FlowStep(s) PROVE SaidInv'
  <2> USE GotoDoes, ConcludeDoes, PublishDoes DEF FlowAt, Labels, Outcomes, Verdicts, States
  <2>1. CASE Spawn(s)
    BY <2>1 DEF Spawn, Clis
  <2>2. CASE Look(s)
    BY <2>2 DEF Look
  <2>3. CASE ShowCode(s)
    <3>1. CASE Publish(s, "waiting", FALSE) /\ flow' = [flow EXCEPT ![s] = Waiting(s)]
      <4>0. Publish(s, "waiting", FALSE)
        BY <3>1
      <4>1. /\ fact'.seq = fact.seq /\ (fact.seq # s => fact' = fact)
            /\ fact.seq = s => fact'.state = "waiting"
        BY <4>0
      <4>2. /\ flow'[s].pc = "wait" /\ flow'[s].kind = "cli" /\ flow'[s].outcome = "gone"
            /\ \A t \in Starts : t # s => flow'[t] = flow[t]
        BY <2>3, <3>1, WaitingDoes DEF ShowCode
      <4>3. UNCHANGED <<sent, cli, saved, noticed, cancelled>>
        BY <2>3 DEF ShowCode
      <4> QED BY <4>1, <4>2, <4>3
    <3>2. CASE Conclude(s, "kill", "failed") /\ UNCHANGED fact
      BY <2>3, <3>2 DEF ShowCode
    <3> QED BY <2>3, <3>1, <3>2 DEF ShowCode
  <2>4. CASE Wait(s)
    BY <2>4 DEF Wait
  <2>5. CASE Kill(s)
    BY <2>5, KilledDoes DEF Kill
  <2>6. CASE Unlist(s)
    BY <2>6 DEF Unlist
  <2>7. CASE Reap(s)
    BY <2>7 DEF Reap, Clis
  <2>8. CASE AskForCode(s)
    BY <2>8 DEF AskForCode
  <2>9. CASE ShowPortalCode(s)
    <3>1. /\ fact'.seq = fact.seq /\ (fact.seq # s => fact' = fact)
          /\ fact.seq = s => fact'.state = "waiting"
      BY <2>9 DEF ShowPortalCode
    <3>2. /\ flow'[s].pc \in {"poll", "finish"} /\ flow'[s].kind = flow[s].kind
          /\ flow'[s].outcome \in {flow[s].outcome, "gone"}
          /\ \A t \in Starts : t # s => flow'[t] = flow[t]
      BY <2>9 DEF ShowPortalCode
    <3>3. UNCHANGED <<sent, cli, saved, noticed, cancelled>> /\ flow[s].pc = "code"
      BY <2>9 DEF ShowPortalCode
    <3> QED BY <3>1, <3>2, <3>3
  <2>10. CASE Poll(s)
    BY <2>10 DEF Poll
  <2>11. CASE BeginCommit(s)
    <3>1. PICK state \in States : fact.state = state /\ fact \in Facts
      BY DEF Facts
    <3>5. Publish(s, state, TRUE)
      BY <2>11, <3>1 DEF BeginCommit
    <3>2. /\ fact'.seq = fact.seq /\ (fact.seq # s => fact' = fact)
          /\ fact.seq = s => fact'.state = fact.state /\ fact'.committing
      <4> HIDE DEF TypeInv, SaidInv, FactInv, StartInv
      <4> QED BY <3>1, <3>5
    <3>3. /\ \/ flow'[s].pc = "persist" /\ fact.seq = s
             \/ flow'[s].pc = "finish"
          /\ flow'[s].kind = flow[s].kind /\ flow'[s].outcome \in {flow[s].outcome, "gone"}
          /\ \A t \in Starts : t # s => flow'[t] = flow[t]
      BY <2>11 DEF BeginCommit, Current
    <3>4. UNCHANGED <<sent, cli, saved, noticed, cancelled>> /\ flow[s].pc = "claim"
      BY <2>11 DEF BeginCommit
    <3> QED BY <3>2, <3>3, <3>4
  <2>12. CASE Persist(s)
    <3>1. /\ flow'[s].pc = "finish" /\ flow'[s].kind = flow[s].kind
          /\ \/ flow'[s].outcome = "ok" /\ saved' = saved \cup {s}
             \/ flow'[s].outcome = "failed" /\ saved' = saved
          /\ \A t \in Starts : t # s => flow'[t] = flow[t]
      BY <2>12 DEF Persist
    <3>2. UNCHANGED <<sent, fact, cli, noticed, cancelled>> /\ flow[s].pc = "persist"
      BY <2>12 DEF Persist
    <3>3. flow[s].kind = "nous" => s \notin cancelled /\ (s < sent \/ (fact.seq = s /\ fact.committing))
      BY <3>2
    <3>4. FactInv'
      BY <3>1, <3>2
    <3>5. StartInv(s)'
      BY <3>1, <3>2, <3>3
    <3>6. ASSUME NEW t \in Starts, t # s PROVE StartInv(t)'
      <4>1. flow'[t] = flow[t] /\ (t \in saved' <=> t \in saved) /\ StartInv(t)
        BY <3>1, <3>6
      <4>2. UNCHANGED <<sent, fact, cli, noticed, cancelled>>
        BY <3>2
      <4> HIDE DEF TypeInv, SaidInv, FactInv
      <4> QED BY <4>1, <4>2
    <3> QED BY <3>4, <3>5, <3>6
  <2>13. CASE Finish(s)
    <3>1. /\ fact'.seq = fact.seq /\ (fact.seq # s => fact' = fact)
          /\ fact.seq = s => /\ fact'.committing = fact.committing
                             /\ fact'.state \in {fact.state, flow[s].outcome}
      <4>1. flow[s].outcome # "gone" => flow[s].outcome \in States
        BY <2>13 DEF Finish, Flows
      <4>2. fact.committing \in BOOLEAN
        BY DEF Facts
      <4> QED BY <2>13, <4>1, <4>2 DEF Finish
    <3>2. /\ flow'[s].pc = IF flow[s].outcome = "ok" THEN "notify" ELSE "done"
          /\ flow'[s].kind = flow[s].kind /\ flow'[s].outcome = flow[s].outcome
          /\ \A t \in Starts : t # s => flow'[t] = flow[t]
      BY <2>13 DEF Finish
    <3>3. UNCHANGED <<sent, cli, saved, noticed, cancelled>> /\ flow[s].pc = "finish"
      BY <2>13 DEF Finish
    <3> QED BY <3>1, <3>2, <3>3
  <2>14. CASE SignedIn(s)
    BY <2>14 DEF SignedIn
  <2> QED BY <1>5, <2>1, <2>2, <2>3, <2>4, <2>5, <2>6, <2>7, <2>8, <2>9, <2>10, <2>11, <2>12,
             <2>13, <2>14 DEF FlowStep
<1>6. ASSUME NEW s \in Starts, CliStep(s) PROVE SaidInv'
  <2>1. CASE CliStartsAProcess(s)
    BY <2>1 DEF CliStartsAProcess, Clis
  <2>2. CASE CliSaves(s)
    BY <2>2 DEF CliSaves, Alive, RunInv
  <2>3. CASE CliExits(s)
    BY <2>3 DEF CliExits, Clis, Alive
  <2> QED BY <1>6, <2>1, <2>2, <2>3 DEF CliStep
<1>7. ASSUME NEW s \in Starts, DeadlinePasses(s) PROVE SaidInv'
  BY <1>7 DEF DeadlinePasses, Flows
<1>8. CASE UNCHANGED deviceVars
  BY <1>8 DEF deviceVars
<1> QED BY <1>1, <1>2, <1>3, <1>4, <1>5, <1>6, <1>7, <1>8 DEF DeviceNext

-----------------------------------------------------------------------------
Inv == TypeInv /\ RunInv /\ SaidInv

LEMMA Started ==
  ASSUME DeviceInit
  PROVE  Inv
<1> USE DEF DeviceInit, NoFlow, Flow, NoCli, NoFact
<1>1. TypeInv
  <2>1. NoFact \in Facts
    BY DeviceAssumption DEF Facts, States
  <2>2. NoFlow \in Flows
    BY DEF Flows, Labels, Outcomes
  <2>3. NoCli \in Clis
    BY DEF Clis
  <2>4. [closed |-> FALSE, pids |-> {}] \in Registries
    BY DEF Registries
  <2> HIDE DEF NoFact, NoFlow, NoCli
  <2>5. fact \in Facts /\ flow \in [Starts -> Flows] /\ cli \in [Starts -> Clis]
    BY <2>1, <2>2, <2>3
  <2>6. \A s \in Starts : flow[s].pc = "none"
    BY DEF NoFlow
  <2>7. sent \in 0 .. MaxStarts
    BY DeviceAssumption
  <2>8. running \in Registries /\ gone \in BOOLEAN
    BY <2>4
  <2>9. saved \subseteq Starts /\ noticed \subseteq Starts /\ cancelled \subseteq Starts
    OBVIOUS
  <2>10. \A s \in Starts : flow[s].pc # "finish"
    BY <2>6
  <2> HIDE DEF DeviceInit
  <2> QED BY <2>5, <2>7, <2>8, <2>9, <2>10 DEF TypeInv
<1>2. RunInv
  BY DEF RunInv, InGroup, AtWork, Alive
<1>3. SaidInv
  BY DEF SaidInv, FactInv, StartInv, AtWork, InGroup, Landed
<1> QED BY <1>1, <1>2, <1>3 DEF Inv

LEMMA Invariance == DeviceSpec => []Inv
<1>1. Inv /\ [DeviceNext]_deviceVars => Inv'
  BY TypeStep, RunStep, SaidStep DEF Inv
<1> QED BY Started, <1>1, PTL DEF DeviceSpec

(***************************************************************************)
(* The fact, the flows, the CLIs and the registry have their shapes; the   *)
(* registry lists started CLIs, and only a saved login is announced.       *)
(***************************************************************************)
THEOREM TypesHold == DeviceSpec => []DeviceTypeOK
<1>1. Inv => DeviceTypeOK
  <2> SUFFICES ASSUME Inv PROVE DeviceTypeOK
    OBVIOUS
  <2>1. fact \in Facts /\ flow \in [Starts -> Flows] /\ cli \in [Starts -> Clis]
    BY DEF Inv, TypeInv
  <2>2. \A s \in running.pids : s \in Starts /\ cli[s].life # "none"
    BY DEF Inv, TypeInv, RunInv, AtWork, InGroup, Registries
  <2>3. running \in [closed : BOOLEAN, pids : SUBSET {s \in Starts : cli[s].life # "none"}]
    BY <2>2 DEF Inv, TypeInv, Registries
  <2>4. /\ sent \in 0 .. MaxStarts /\ saved \subseteq Starts /\ noticed \subseteq saved
        /\ cancelled \subseteq Starts /\ gone \in BOOLEAN
    BY DEF Inv, TypeInv, SaidInv, FactInv
  <2>5. fact \in [seq : 0 .. MaxStarts, state : {"starting", "waiting"} \cup Verdicts,
                  committing : BOOLEAN]
    BY <2>1 DEF Facts, States
  <2>6. flow \in [Starts ->
          [kind : {"cli", "nous"},
           pc : {"none", "spawn", "look", "show", "wait", "kill", "unlist", "reap", "ask",
                 "code", "poll", "claim", "persist", "finish", "notify", "done"},
           outcome : {"gone", "exited"} \cup Verdicts, shown : BOOLEAN, late : BOOLEAN]]
    BY <2>1, Zenon DEF Flows, Labels, Outcomes
  <2>7. cli \in [Starts -> [life : {"none", "running", "exited", "reaped"}, success : BOOLEAN,
                            kin : BOOLEAN]]
    BY <2>1, Zenon DEF Clis
  <2> QED BY <2>3, <2>4, <2>5, <2>6, <2>7, Zenon DEF DeviceTypeOK
<1> QED BY <1>1, Invariance, PTL

(***************************************************************************)
(* Tree and Running, for any number of starts: a flow that ended leaves no *)
(* process of its CLI's group, no sign-in CLI outlives the tray, and no    *)
(* listed pid has been reaped.                                             *)
(***************************************************************************)
THEOREM NothingLeft == DeviceSpec => []NothingIsLeftRunning
<1>1. Inv => NothingIsLeftRunning
  BY DEF Inv, TypeInv, RunInv, AtWork, InGroup, Alive, Registries, NothingIsLeftRunning,
         EndedFlowLeavesNothing, NoCliOutlivesTheTray, ListedIsNotReaped
<1> QED BY <1>1, Invariance, PTL

(***************************************************************************)
(* begin_commit and finish, for any number of starts: a cancelled sign-in  *)
(* with Nous is not saved, the sheet says "ok" only of a stored login, and *)
(* a login this program saved is told to the host.                         *)
(***************************************************************************)
THEOREM SaidIsTrue == DeviceSpec => []SavedAsSaid
<1>1. Inv => SavedAsSaid
  BY DEF Inv, TypeInv, SaidInv, FactInv, StartInv, Landed, SavedAsSaid, CancelledIsNotSaved,
         VerdictsAreHonest, OkMeansSaved, SavedIsNoticed
<1> QED BY <1>1, Invariance, PTL

-----------------------------------------------------------------------------
(* Notify. *)

LEMMA Numbers ==
  /\ Threshold \in Nat /\ Hysteresis \in Nat /\ Tolerance \in Nat /\ Span \in Nat
  /\ Step \in Nat /\ MaxChanges \in Nat /\ MaxCrashes \in Nat
  /\ RearmBelow \in Int /\ RearmBelow <= Threshold
  /\ Span > 0
  /\ \A l \in Levels : l \in Nat
BY NotifyAssumption DEF RearmBelow

LEMMA KeysAre ==
  /\ Windows \subseteq Keys /\ Credits \subseteq Keys /\ Windows \cap Credits = {}
  /\ \A k \in Keys : Entry[k] \in Entries
  /\ \A e \in Entries : Of(e, Windows) \subseteq Windows /\ Of(e, Credits) \subseteq Credits
  /\ \A w \in Windows : w \in Of(Entry[w], Windows)
  /\ \A e, w : w \in Of(e, Windows) => Entry[w] = e
BY NotifyAssumption DEF Keys, Entries, Of

-----------------------------------------------------------------------------
(* What a check is. *)

LEMMA AtFields ==
  ASSUME NEW pc, NEW entry, NEW rows, NEW listed, NEW seen, NEW toasts, NEW older
  PROVE  LET c == At(pc, entry, rows, listed, seen, toasts, older)
         IN  /\ c.pc = pc /\ c.entry = entry /\ c.rows = rows /\ c.listed = listed
             /\ c.seen = seen /\ c.toasts = toasts /\ c.older = older
BY DEF At

LEMMA NoRowsAre == DOMAIN NoRows = {} /\ NoRows \in [{} -> Usages]
BY DEF NoRows

(***************************************************************************)
(* The checks that read nothing, or have no more to read.                  *)
(***************************************************************************)
LEMMA PlainChecks ==
  /\ IsCheck(Idle) /\ Idle.pc = "idle" /\ Idle.toasts = {} /\ Idle.older = {}
  /\ \A S \in SUBSET Toasts :
       /\ IsCheck(Telling(S)) /\ Telling(S).pc = "toasts" /\ Telling(S).toasts = S
       /\ Telling(S).older = {}
<1>1. /\ Idle.pc = "idle" /\ Idle.toasts = {} /\ Idle.older = {}
      /\ Idle.entry = "none" /\ Idle.rows = NoRows /\ Idle.listed = {} /\ Idle.seen = NoMarks
  BY AtFields DEF Idle
<1>2. IsCheck(Idle)
  BY <1>1, NoRowsAre DEF IsCheck, Idle
<1>3. ASSUME NEW S \in SUBSET Toasts
      PROVE  /\ IsCheck(Telling(S)) /\ Telling(S).pc = "toasts" /\ Telling(S).toasts = S
             /\ Telling(S).older = {}
  <2>1. /\ Telling(S).pc = "toasts" /\ Telling(S).toasts = S /\ Telling(S).older = {}
        /\ Telling(S).entry = "none" /\ Telling(S).rows = NoRows /\ Telling(S).listed = {}
        /\ Telling(S).seen = NoMarks
    BY AtFields DEF Telling
  <2>2. IsCheck(Telling(S))
    BY <2>1, NoRowsAre DEF IsCheck, Telling
  <2> QED BY <2>1, <2>2
<1> QED BY <1>1, <1>2, <1>3

(***************************************************************************)
(* Taking the lock moves a check on and leaves what it read.               *)
(***************************************************************************)
LEMMA DecidingIs ==
  ASSUME NEW c, IsCheck(c), c.pc = "read", NEW seen
  PROVE  LET d == Deciding(c, seen)
         IN  /\ IsCheck(d) /\ d.pc = "locked" /\ d.entry = c.entry /\ d.rows = c.rows
             /\ d.listed = c.listed /\ d.seen = seen /\ d.toasts = {} /\ d.older = {}
<1> DEFINE d == Deciding(c, seen)
<1>1. /\ d.pc = "locked" /\ d.entry = c.entry /\ d.rows = c.rows
      /\ d.listed = c.listed /\ d.seen = seen /\ d.toasts = {} /\ d.older = {}
  BY AtFields DEF Deciding
<1>2. d = At(d.pc, d.entry, d.rows, d.listed, d.seen, d.toasts, d.older)
  BY <1>1 DEF Deciding
<1> HIDE DEF d
<1>3. IsCheck(d)
  BY <1>1, <1>2 DEF IsCheck
<1> QED BY <1>1, <1>3 DEF d

LEMMA ReadingIs ==
  ASSUME NEW e \in Entries, NEW rows \in [Of(e, Windows) -> Usages],
         NEW listed \in SUBSET Credits, NEW older \in SUBSET Procs
  PROVE  LET d == Reading(e, rows, listed, older)
         IN  /\ IsCheck(d) /\ d.pc = "read" /\ d.entry = e /\ d.rows = rows
             /\ d.listed = listed /\ d.toasts = {} /\ d.older = older
<1> DEFINE d == Reading(e, rows, listed, older)
<1>1. /\ d.pc = "read" /\ d.entry = e /\ d.rows = rows
      /\ d.listed = listed /\ d.seen = NoMarks /\ d.toasts = {} /\ d.older = older
  BY AtFields DEF Reading
<1>2. d = At(d.pc, d.entry, d.rows, d.listed, d.seen, d.toasts, d.older)
  BY <1>1 DEF Reading
<1> HIDE DEF d
<1>3. IsCheck(d)
  BY <1>1, <1>2 DEF IsCheck
<1> QED BY <1>1, <1>3 DEF d

(***************************************************************************)
(* The others' checks, once p does not wait any more.                      *)
(***************************************************************************)
LEMMA WithoutIs ==
  ASSUME NEW p \in Procs, NEW q \in Procs, IsCheck(proc[q])
  PROVE  LET d == Without(p)[q]
         IN  /\ IsCheck(d) /\ d.pc = proc[q].pc /\ d.entry = proc[q].entry
             /\ d.rows = proc[q].rows /\ d.listed = proc[q].listed /\ d.seen = proc[q].seen
             /\ d.toasts = proc[q].toasts /\ d.older = proc[q].older \ {p}
<1> DEFINE d == Without(p)[q]
<1>1. d = [proc[q] EXCEPT !.older = proc[q].older \ {p}]
  BY DEF Without
<1>2. PICK c : c = proc[q]
  OBVIOUS
<1>3. d = At(c.pc, c.entry, c.rows, c.listed, c.seen, c.toasts, c.older \ {p})
  <2>1. c = At(c.pc, c.entry, c.rows, c.listed, c.seen, c.toasts, c.older)
    BY <1>2 DEF IsCheck
  <2>2. d = [c EXCEPT !.older = c.older \ {p}]
    BY <1>1, <1>2
  <2> QED BY <2>1, <2>2 DEF At
<1>4. /\ d.pc = c.pc /\ d.entry = c.entry /\ d.rows = c.rows /\ d.listed = c.listed
      /\ d.seen = c.seen /\ d.toasts = c.toasts /\ d.older = c.older \ {p}
  BY <1>3, AtFields
<1> HIDE DEF d
<1>5. IsCheck(d)
  BY <1>2, <1>3, <1>4 DEF IsCheck
<1> QED BY <1>2, <1>4, <1>5 DEF d

-----------------------------------------------------------------------------
(* What a toast shows. *)

Shown(t) == [crossing |-> t.crossing, reset |-> t.reset]

Toast(k, c) == [key |-> k, crossing |-> c.crossing, reset |-> c.reset]

LEMMA ToastsShow ==
  /\ \A t \in Toasts : t.key \in Keys /\ Shown(t) \in Announcements /\ t = Toast(t.key, Shown(t))
  /\ \A k, c : /\ Toast(k, c).key = k /\ Toast(k, c).crossing = c.crossing
               /\ Toast(k, c).reset = c.reset
  /\ \A t : Shown(t).crossing = t.crossing /\ Shown(t).reset = t.reset
  /\ \A c \in Announcements : c.crossing \in Nat /\ c.reset \in Nat /\ c = Shown(c)
BY DEF Toasts, Toast, Shown, Announcements

-----------------------------------------------------------------------------
(* The check of p goes on, and the others stay but that they need not wait *)
(* for p any more.                                                         *)

Stays(q, p) ==
  /\ proc'[q].pc = proc[q].pc /\ proc'[q].entry = proc[q].entry /\ proc'[q].rows = proc[q].rows
  /\ proc'[q].listed = proc[q].listed /\ proc'[q].seen = proc[q].seen
  /\ proc'[q].toasts = proc[q].toasts /\ proc'[q].older = proc[q].older \ {p}

Becoming(p, d) ==
  /\ proc' = [q \in Procs |-> proc'[q]]
  /\ proc'[p] = d
  /\ \A q \in Procs : IsCheck(proc'[q])
  /\ \A q \in Procs \ {p} : Stays(q, p)

LEMMA GoesOn ==
  ASSUME TypeOK, NEW p \in Procs, NEW d, IsCheck(d),
         \/ proc' = [proc EXCEPT ![p] = d] /\ proc[p].pc # "read"
         \/ proc' = [Without(p) EXCEPT ![p] = d]
  PROVE  Becoming(p, d)
<1>1. CASE proc' = [proc EXCEPT ![p] = d] /\ proc[p].pc # "read"
  <2>1. proc' = [q \in Procs |-> IF q = p THEN d ELSE proc[q]]
    BY <1>1 DEF TypeOK
  <2>2. \A q \in Procs : p \notin proc[q].older
    BY <1>1 DEF TypeOK, Waits
  <2>3. \A q \in Procs \ {p} : proc'[q] = proc[q] /\ proc[q].older = proc[q].older \ {p}
    BY <2>1, <2>2
  <2>4. \A q \in Procs \ {p} : IsCheck(proc'[q]) /\ Stays(q, p)
    BY <2>3 DEF TypeOK, Stays
  <2>5. proc'[p] = d /\ proc' = [q \in Procs |-> proc'[q]]
    BY <2>1
  <2> QED BY <2>4, <2>5 DEF Becoming
<1>2. CASE proc' = [Without(p) EXCEPT ![p] = d]
  <2>1. proc' = [q \in Procs |-> IF q = p THEN d ELSE Without(p)[q]]
    BY <1>2 DEF Without
  <2>2. proc'[p] = d /\ proc' = [q \in Procs |-> proc'[q]]
    BY <2>1
  <2>3. ASSUME NEW q \in Procs \ {p} PROVE IsCheck(proc'[q]) /\ Stays(q, p)
    <3>1. proc'[q] = Without(p)[q]
      BY <2>1
    <3>2. IsCheck(proc[q])
      BY DEF TypeOK
    <3> QED BY <3>1, <3>2, WithoutIs DEF Stays
  <2> QED BY <2>2, <2>3 DEF Becoming
<1> QED BY <1>1, <1>2

LEMMA ReadDoes ==
  ASSUME TypeOK, NEW p \in Procs, NEW e \in Entries, Read(p, e)
  PROVE  \E d : /\ Becoming(p, d)
                /\ d.pc = "read" /\ d.entry = e /\ d.toasts = {}
                /\ d.rows = [w \in Of(e, Windows) |-> usage[w]]
                /\ d.older = {q \in Procs : Waits(q, e)}
<1> DEFINE rows == [w \in Of(e, Windows) |-> usage[w]]
           listed == {c \in Of(e, Credits) : credits[c] # "gone"}
           older == {q \in Procs : Waits(q, e)}
           d == Reading(e, rows, listed, older)
<1>1. rows \in [Of(e, Windows) -> Usages] /\ listed \in SUBSET Credits /\ older \in SUBSET Procs
  BY KeysAre DEF TypeOK, Of
<1>2. proc' = [proc EXCEPT ![p] = d] /\ proc[p].pc # "read"
  BY DEF Read
<1> HIDE DEF rows, listed, older
<1>3. /\ IsCheck(d) /\ d.pc = "read" /\ d.entry = e /\ d.rows = rows
      /\ d.toasts = {} /\ d.older = older
  BY <1>1, ReadingIs
<1> HIDE DEF d
<1>4. Becoming(p, d)
  BY <1>2, <1>3, GoesOn
<1> QED BY <1>3, <1>4 DEF rows, older

LEMMA TakeLockDoes ==
  ASSUME TypeOK, NEW p \in Procs, TakeLock(p)
  PROVE  \E d : /\ Becoming(p, d)
                /\ d.pc = "locked" /\ d.entry = proc[p].entry /\ d.rows = proc[p].rows
                /\ d.seen = marks /\ d.toasts = {} /\ d.older = {}
<1> DEFINE d == Deciding(proc[p], marks)
<1>1. IsCheck(proc[p]) /\ proc[p].pc = "read"
  BY DEF TypeOK, TakeLock
<1>2. /\ IsCheck(d) /\ d.pc = "locked" /\ d.entry = proc[p].entry /\ d.rows = proc[p].rows
      /\ d.seen = marks /\ d.toasts = {} /\ d.older = {}
  BY <1>1, DecidingIs
<1>3. proc' = [Without(p) EXCEPT ![p] = d]
  BY DEF TakeLock
<1> HIDE DEF d
<1>4. Becoming(p, d)
  BY <1>2, <1>3, GoesOn
<1> QED BY <1>2, <1>4

(***************************************************************************)
(* The other steps end the check, or leave it something to tell.           *)
(***************************************************************************)
LEMMA EndingDoes ==
  ASSUME TypeOK, NEW p \in Procs, LockTimesOut(p) \/ Done(p) \/ Crash(p)
  PROVE  Becoming(p, Idle)
<1>1. \/ proc' = [proc EXCEPT ![p] = Idle] /\ proc[p].pc # "read"
      \/ proc' = [Without(p) EXCEPT ![p] = Idle]
  BY DEF TypeOK, LockTimesOut, Done, Crash
<1> QED BY <1>1, GoesOn, PlainChecks

LEMMA TellingDoes ==
  ASSUME TypeOK, NEW p \in Procs, proc[p].pc \in {"locked", "toasts"}, NEW S \in SUBSET Toasts,
         proc' = [proc EXCEPT ![p] = Telling(S)]
  PROVE  Becoming(p, Telling(S))
BY GoesOn, PlainChecks

-----------------------------------------------------------------------------
(* Types. *)

LEMMA InitTypes == Init => TypeOK
<1> SUFFICES ASSUME Init PROVE TypeOK
  OBVIOUS
<1>1. usage \in [Windows -> Usages]
  BY NotifyAssumption DEF Init, Usages, NoInstant
<1>2. marks \in [Keys -> Nat \cup {Unmarked}]
  BY DEF Init, NoMarks
<1>3. \A p \in Procs : proc[p] = Idle
  BY DEF Init
<1>4. \A p \in Procs : IsCheck(proc[p]) /\ proc[p].pc = "idle" /\ proc[p].older = {}
  BY <1>3, PlainChecks
<1>5. proc = [p \in Procs |-> proc[p]]
  BY DEF Init
<1>6. lock = "none" /\ "none" \notin Procs
  BY NotifyAssumption DEF Init
<1>7. told \in [Keys -> Seq(Announcements)]
  BY DEF Init
<1>8. count \in [changes : Nat, crashes : Nat]
  BY Numbers DEF Init
<1> QED BY <1>1, <1>2, <1>4, <1>5, <1>6, <1>7, <1>8 DEF TypeOK, Init

(***************************************************************************)
(* The provider's account of a window: its crossing grows when a new       *)
(* window opens or it falls below the band, and stays otherwise.           *)
(***************************************************************************)
LEMMA BecomesDoes ==
  ASSUME TypeOK, NEW w \in Windows, NEW pct \in Levels, NEW reset \in Nat, NEW newWindow \in BOOLEAN,
         Becomes(w, pct, reset, newWindow)
  PROVE  /\ usage' \in [Windows -> Usages]
         /\ usage'[w].pct = pct /\ usage'[w].reset = reset
         /\ usage'[w].crossing = IF newWindow \/ pct < RearmBelow THEN usage[w].crossing + 1
                                 ELSE usage[w].crossing
         /\ \A v \in Windows \ {w} : usage'[v] = usage[v]
         /\ credits' = credits
<1> DEFINE u == [pct |-> pct, reset |-> reset,
                 crossing |-> IF newWindow \/ pct < RearmBelow THEN usage[w].crossing + 1
                              ELSE usage[w].crossing]
<1>1. usage' = [usage EXCEPT ![w] = u] /\ credits' = credits
  BY DEF Becomes
<1>2. usage[w].crossing \in Nat
  BY DEF TypeOK, Usages
<1>3. u \in Usages
  BY <1>2 DEF Usages
<1>4. u.pct = pct /\ u.reset = reset
      /\ u.crossing = IF newWindow \/ pct < RearmBelow THEN usage[w].crossing + 1
                      ELSE usage[w].crossing
  OBVIOUS
<1> HIDE DEF u
<1> QED BY <1>1, <1>3, <1>4 DEF TypeOK

(***************************************************************************)
(* What a change leaves alone, and what it may make of a window.           *)
(***************************************************************************)
Changed(w) ==
  /\ usage' \in [Windows -> Usages]
  /\ \A v \in Windows \ {w} : usage'[v] = usage[v]
  /\ usage'[w].crossing >= usage[w].crossing
  /\ usage'[w].crossing = usage[w].crossing => usage'[w].pct >= RearmBelow
  /\ usage'[w].reset = NoInstant <=> usage[w].reset = NoInstant

LEMMA BecomesIsAChange ==
  ASSUME TypeOK, NEW w \in Windows, NEW pct \in Levels, NEW reset \in Nat, NEW newWindow \in BOOLEAN,
         Becomes(w, pct, reset, newWindow),
         reset = NoInstant <=> usage[w].reset = NoInstant
  PROVE  Changed(w) /\ credits' = credits
<1>1. /\ usage' \in [Windows -> Usages]
      /\ usage'[w].pct = pct /\ usage'[w].reset = reset
      /\ usage'[w].crossing = IF newWindow \/ pct < RearmBelow THEN usage[w].crossing + 1
                              ELSE usage[w].crossing
      /\ \A v \in Windows \ {w} : usage'[v] = usage[v]
      /\ credits' = credits
  BY BecomesDoes
<1>2. usage[w].crossing \in Nat /\ pct \in Nat /\ RearmBelow \in Int
  BY Numbers DEF TypeOK, Usages
<1>3. usage'[w].crossing >= usage[w].crossing
  BY <1>1, <1>2
<1>4. usage'[w].crossing = usage[w].crossing => ~newWindow /\ usage'[w].pct >= RearmBelow
  BY <1>1, <1>2
<1> QED BY <1>1, <1>3, <1>4 DEF Changed

LEMMA ProviderDoes ==
  ASSUME TypeOK, \A w \in Windows : usage[w].reset = NoInstant <=> w \in Silent, Provider
  PROVE  /\ UNCHANGED <<marks, lock, proc, told, overtaken>>
         /\ credits' \in [Credits -> {"far", "soon", "gone"}]
         /\ count' \in [changes : Nat, crashes : Nat]
         /\ \/ UNCHANGED usage
            \/ \E w \in Windows : Changed(w)
<1>0. /\ \A w \in Windows : /\ usage[w] \in Usages /\ usage[w].crossing \in Nat
                            /\ usage[w].reset \in Nat /\ usage[w].pct \in Levels
      /\ count.changes \in Nat /\ count.crashes \in Nat
      /\ count = [changes |-> count.changes, crashes |-> count.crashes]
      /\ Regen \subseteq Windows /\ Silent \subseteq Windows /\ Rolling \subseteq Windows
      /\ Regen \cap Silent = {} /\ Rolling \cap (Regen \cup Silent) = {}
      /\ Span > 0 /\ Step \in Nat /\ Span \in Nat
  BY NotifyAssumption DEF TypeOK, Usages
<1>1. Change => UNCHANGED <<marks, lock, proc, told, overtaken>>
  BY DEF Change
<1>2. credits' = credits => credits' \in [Credits -> {"far", "soon", "gone"}]
  BY DEF TypeOK
<1>3. ASSUME Change PROVE count' \in [changes : Nat, crashes : Nat]
  <2>1. count' = [changes |-> count.changes + 1, crashes |-> count.crashes]
    BY <1>0, <1>3 DEF Change
  <2> QED BY <1>0, <2>1
<1>4. CASE \E w \in Windows : Slide(w)
  <2>1. PICK w \in Windows : Slide(w)
    BY <1>4
  <2>2. Becomes(w, usage[w].pct, usage[w].reset + Step, FALSE) /\ w \in Rolling /\ Change
    BY <2>1 DEF Slide
  <2>3. usage[w].reset + Step \in Nat /\ usage[w].reset # 0
    BY <1>0, <2>2 DEF NoInstant
  <2>4. usage[w].reset + Step # 0 /\ usage[w].pct \in Levels
    BY <1>0, <2>3
  <2>5. Changed(w) /\ credits' = credits
    BY <2>2, <2>3, <2>4, BecomesIsAChange DEF NoInstant
  <2> QED BY <1>1, <1>2, <1>3, <2>2, <2>5
<1>5. CASE \E w \in Windows, pct \in Levels : Use(w, pct)
  <2>1. PICK w \in Windows, pct \in Levels : Use(w, pct)
    BY <1>5
  <2>2. Becomes(w, pct, usage[w].reset, FALSE) /\ Change
    BY <2>1 DEF Use
  <2>3. Changed(w) /\ credits' = credits
    BY <1>0, <1>3, <2>2, BecomesIsAChange DEF NoInstant
  <2>4. UNCHANGED <<marks, lock, proc, told, overtaken>>
    BY <1>1, <2>1 DEF Use
  <2> QED BY <1>0, <1>3, <1>2, <2>2, <2>3, <2>4
<1>6. CASE \E w \in Windows, pct \in Levels : NewWindow(w, pct)
  <2>1. PICK w \in Windows, pct \in Levels : NewWindow(w, pct)
    BY <1>6
  <2>2. Becomes(w, pct, usage[w].reset + Span, TRUE) /\ Change /\ w \notin Silent
    BY <2>1 DEF NewWindow
  <2>3. usage[w].reset + Span \in Nat /\ usage[w].reset + Span # 0 /\ usage[w].reset # 0
    BY <1>0, <2>2 DEF NoInstant
  <2>4. Changed(w) /\ credits' = credits
    BY <1>0, <1>3, <2>2, <2>3, BecomesIsAChange DEF NoInstant
  <2>5. UNCHANGED <<marks, lock, proc, told, overtaken>>
    BY <1>1, <2>1 DEF NewWindow
  <2> QED BY <1>0, <1>3, <1>2, <2>2, <2>4, <2>5
<1>7. CASE \E w \in Windows, pct \in Levels : Tick(w, pct)
  <2>1. PICK w \in Windows, pct \in Levels : Tick(w, pct)
    BY <1>7
  <2>2. Becomes(w, pct, usage[w].reset + Span, FALSE) /\ Change /\ w \in Regen
    BY <2>1 DEF Tick
  <2>3. usage[w].reset + Span \in Nat /\ usage[w].reset + Span # 0 /\ usage[w].reset # 0
    BY <1>0, <2>2 DEF NoInstant
  <2>4. Changed(w) /\ credits' = credits
    BY <1>0, <1>3, <2>2, <2>3, BecomesIsAChange DEF NoInstant
  <2>5. UNCHANGED <<marks, lock, proc, told, overtaken>>
    BY <1>1, <2>1 DEF Tick
  <2> QED BY <1>0, <1>3, <1>2, <2>2, <2>4, <2>5
<1>8. CASE \E c \in Credits : CreditAges(c)
  <2>1. PICK c \in Credits : CreditAges(c)
    BY <1>8
  <2>2. credits' \in [Credits -> {"far", "soon", "gone"}]
    BY <2>1 DEF CreditAges, TypeOK
  <2>3. UNCHANGED <<marks, lock, proc, told, overtaken>> /\ Change /\ UNCHANGED usage
    BY <1>1, <2>1 DEF CreditAges
  <2> QED BY <1>0, <1>3, <2>2, <2>3
<1> QED BY <1>4, <1>5, <1>6, <1>7, <1>8 DEF Provider

-----------------------------------------------------------------------------
(* What a save writes, and what it has told. *)

LEMMA SaveWrites ==
  ASSUME TypeOK, NEW p \in Procs, proc[p].pc = "locked"
  PROVE  LET c == proc[p]
         IN  /\ MarksAfter(c.rows, c.listed, c.seen) \in [Keys -> Nat \cup {Unmarked}]
             /\ Fired(c.rows, c.listed, c.seen) \in SUBSET Toasts
<1>1. PICK c : c = proc[p]
  OBVIOUS
<1>2. c.rows \in [DOMAIN c.rows -> Usages] /\ DOMAIN c.rows \subseteq Windows
      /\ c.listed \subseteq Credits /\ c.seen = marks
  BY <1>1, KeysAre DEF TypeOK, IsCheck
<1>3. \A w \in DOMAIN c.rows : c.rows[w].reset \in Nat /\ c.rows[w].crossing \in Nat /\ w \in Keys
  BY <1>2, KeysAre DEF Usages
<1>4. MarksAfter(c.rows, c.listed, c.seen) \in [Keys -> Nat \cup {Unmarked}]
  BY <1>2, <1>3 DEF TypeOK, MarksAfter, Crossed, NoInstant
<1>5. Fired(c.rows, c.listed, c.seen) \subseteq Toasts
  BY <1>2, <1>3, KeysAre DEF Fired, Crossed, Due, Toasts, NoInstant
<1> QED BY <1>1, <1>4, <1>5

(***************************************************************************)
(* The checks after a step of p that leaves the others where they are.     *)
(***************************************************************************)
LEMMA ChecksKept ==
  ASSUME TypeOK, NEW p \in Procs, NEW d, Becoming(p, d),
         lock' \in Procs \cup {"none"},
         d.pc \in {"locked", "toasts"} <=> lock' = p,
         \A q \in Procs \ {p} : lock = q <=> lock' = q,
         \A q \in d.older : q # p /\ Waits(q, d.entry),
         d.pc = "locked" => d.seen = marks',
         marks' = marks \/ lock = p
  PROVE  /\ proc' = [q \in Procs |-> proc'[q]]
         /\ \A q \in Procs :
              /\ IsCheck(proc'[q])
              /\ proc'[q].pc \in {"locked", "toasts"} <=> lock' = q
              /\ \A r \in proc'[q].older :
                   r # q /\ proc'[r].pc = "read" /\ proc'[r].entry = proc'[q].entry
              /\ proc'[q].pc = "locked" => proc'[q].seen = marks'
<1>1. /\ proc' = [q \in Procs |-> proc'[q]] /\ proc'[p] = d
      /\ \A q \in Procs : IsCheck(proc'[q])
      /\ \A q \in Procs \ {p} : Stays(q, p)
  BY DEF Becoming
<1>2. \A q \in Procs : proc'[q].older \subseteq Procs
  BY <1>1 DEF IsCheck
<1>3. \A q \in Procs : \A r \in proc[q].older : r # q /\ r \in Procs /\ Waits(r, proc[q].entry)
  BY DEF TypeOK, IsCheck
<1>4. ASSUME NEW q \in Procs \ {p}
      PROVE  /\ proc'[q].pc \in {"locked", "toasts"} <=> lock' = q
             /\ proc'[q].pc = "locked" => proc'[q].seen = marks'
             /\ \A r \in proc'[q].older :
                  r # q /\ proc'[r].pc = "read" /\ proc'[r].entry = proc'[q].entry
  <2>1. /\ proc'[q].pc = proc[q].pc /\ proc'[q].entry = proc[q].entry
        /\ proc'[q].seen = proc[q].seen /\ proc'[q].older = proc[q].older \ {p}
    BY <1>1 DEF Stays
  <2>2. /\ proc[q].pc \in {"locked", "toasts"} <=> lock = q
        /\ proc[q].pc = "locked" => proc[q].seen = marks
    BY DEF TypeOK
  <2>3. proc'[q].pc = "locked" => proc'[q].seen = marks'
    BY <2>1, <2>2
  <2>4. ASSUME NEW r \in proc'[q].older
        PROVE  r # q /\ proc'[r].pc = "read" /\ proc'[r].entry = proc'[q].entry
    <3>1. r # q /\ r \in Procs \ {p} /\ proc[r].pc = "read" /\ proc[r].entry = proc[q].entry
      BY <1>3, <2>1, <2>4 DEF Waits
    <3>2. proc'[r].pc = proc[r].pc /\ proc'[r].entry = proc[r].entry
      BY <1>1, <3>1 DEF Stays
    <3> QED BY <2>1, <3>1, <3>2
  <2> QED BY <2>1, <2>2, <2>3, <2>4
<1>5. \A r \in d.older : r # p /\ proc'[r].pc = "read" /\ proc'[r].entry = d.entry
  <2> SUFFICES ASSUME NEW r \in d.older
               PROVE  r # p /\ proc'[r].pc = "read" /\ proc'[r].entry = d.entry
    OBVIOUS
  <2>1. r # p /\ r \in Procs /\ proc[r].pc = "read" /\ proc[r].entry = d.entry
    BY <1>1, <1>2 DEF Waits
  <2>2. Stays(r, p)
    BY <1>1, <2>1
  <2> QED BY <2>1, <2>2 DEF Stays
<1> QED BY <1>1, <1>4, <1>5

(***************************************************************************)
(* A reset is reported for a window or it is not, always.                  *)
(***************************************************************************)
ResetsOK ==
  \A w \in Windows :
    /\ usage[w].reset = NoInstant <=> w \in Silent
    /\ marks[w] = NoInstant => w \in Silent
    /\ \A p \in Procs :
         w \in DOMAIN proc[p].rows => (proc[p].rows[w].reset = NoInstant <=> w \in Silent)

LEMMA CheckTypes ==
  ASSUME TypeOK, NEW p \in Procs, Check(p)
  PROVE  TypeOK'
<1>0. p # "none" /\ \A q \in Procs : q # "none"
  BY NotifyAssumption
<1>1. CASE \E e \in Entries : Read(p, e)
  <2>1. PICK e \in Entries : Read(p, e)
    BY <1>1
  <2>2. PICK d : /\ Becoming(p, d)
                 /\ d.pc = "read" /\ d.entry = e /\ d.toasts = {}
                 /\ d.rows = [w \in Of(e, Windows) |-> usage[w]]
                 /\ d.older = {q \in Procs : Waits(q, e)}
    BY <2>1, ReadDoes
  <2>3. UNCHANGED <<usage, credits, marks, lock, told, overtaken, count>> /\ proc[p].pc = "idle"
    BY <2>1 DEF Read
  <2>4. lock # p
    BY <2>3 DEF TypeOK
  <2>5. \A q \in d.older : q # p /\ Waits(q, d.entry)
    BY <2>2, <2>3 DEF Waits
  <2>6. lock \in Procs \cup {"none"}
    BY DEF TypeOK
  <2>7. /\ proc' = [q \in Procs |-> proc'[q]]
        /\ \A q \in Procs :
             /\ IsCheck(proc'[q])
             /\ proc'[q].pc \in {"locked", "toasts"} <=> lock' = q
             /\ \A r \in proc'[q].older :
                  r # q /\ proc'[r].pc = "read" /\ proc'[r].entry = proc'[q].entry
             /\ proc'[q].pc = "locked" => proc'[q].seen = marks'
    BY <2>2, <2>3, <2>4, <2>5, <2>6, ChecksKept
  <2> QED BY <2>3, <2>7 DEF TypeOK, Waits
<1>2. CASE TakeLock(p)
  <2>1. PICK d : /\ Becoming(p, d)
                 /\ d.pc = "locked" /\ d.entry = proc[p].entry /\ d.rows = proc[p].rows
                 /\ d.seen = marks /\ d.toasts = {} /\ d.older = {}
    BY <1>2, TakeLockDoes
  <2>2. UNCHANGED <<usage, credits, marks, told, count>> /\ lock = "none" /\ lock' = p
        /\ proc[p].pc = "read"
    BY <1>2 DEF TakeLock, MayTake
  <2>3. overtaken' \subseteq Entries
    <3>1. proc[p].entry \in Entries
      BY <2>2 DEF TypeOK, IsCheck
    <3> QED BY <1>2, <3>1 DEF TakeLock, TypeOK
  <2>4. /\ proc' = [q \in Procs |-> proc'[q]]
        /\ \A q \in Procs :
             /\ IsCheck(proc'[q])
             /\ proc'[q].pc \in {"locked", "toasts"} <=> lock' = q
             /\ \A r \in proc'[q].older :
                  r # q /\ proc'[r].pc = "read" /\ proc'[r].entry = proc'[q].entry
             /\ proc'[q].pc = "locked" => proc'[q].seen = marks'
    BY <1>0, <2>1, <2>2, ChecksKept
  <2> QED BY <2>2, <2>3, <2>4 DEF TypeOK, Waits
<1>3. ASSUME NEW S \in SUBSET Toasts, proc[p].pc \in {"locked", "toasts"},
             proc' = [proc EXCEPT ![p] = Telling(S)],
             UNCHANGED <<usage, credits, lock, overtaken, count>>,
             marks' \in [Keys -> Nat \cup {Unmarked}], told' \in [Keys -> Seq(Announcements)]
      PROVE  TypeOK'
  <2>1. Becoming(p, Telling(S)) /\ Telling(S).pc = "toasts" /\ Telling(S).older = {}
    BY <1>3, TellingDoes, PlainChecks
  <2>2. lock = p
    BY <1>3 DEF TypeOK
  <2>3. /\ proc' = [q \in Procs |-> proc'[q]]
        /\ \A q \in Procs :
             /\ IsCheck(proc'[q])
             /\ proc'[q].pc \in {"locked", "toasts"} <=> lock' = q
             /\ \A r \in proc'[q].older :
                  r # q /\ proc'[r].pc = "read" /\ proc'[r].entry = proc'[q].entry
             /\ proc'[q].pc = "locked" => proc'[q].seen = marks'
    BY <1>3, <2>1, <2>2, ChecksKept
  <2> QED BY <1>3, <2>3 DEF TypeOK, Waits
<1>4. CASE Save(p)
  <2>1. /\ MarksAfter(proc[p].rows, proc[p].listed, proc[p].seen) \in [Keys -> Nat \cup {Unmarked}]
        /\ Fired(proc[p].rows, proc[p].listed, proc[p].seen) \in SUBSET Toasts
    BY <1>4, SaveWrites DEF Save
  <2>2. told' \in [Keys -> Seq(Announcements)]
    BY <1>4 DEF Save, TypeOK
  <2>3. PICK S \in SUBSET Toasts : proc' = [proc EXCEPT ![p] = Telling(S)]
    BY <1>4, <2>1 DEF Save
  <2>4. marks' \in [Keys -> Nat \cup {Unmarked}] /\ proc[p].pc \in {"locked", "toasts"}
    BY <1>4, <2>1 DEF Save
  <2>5. UNCHANGED <<usage, credits, lock, overtaken, count>>
    BY <1>4 DEF Save
  <2> QED BY <1>3, <2>2, <2>3, <2>4, <2>5
<1>5. CASE SaveFails(p)
  <2>1. /\ proc' = [proc EXCEPT ![p] = Telling({})] /\ {} \in SUBSET Toasts
        /\ proc[p].pc \in {"locked", "toasts"}
        /\ UNCHANGED <<usage, credits, lock, overtaken, count>> /\ UNCHANGED <<marks, told>>
    BY <1>5 DEF SaveFails, Unsaved
  <2>2. marks' \in [Keys -> Nat \cup {Unmarked}] /\ told' \in [Keys -> Seq(Announcements)]
    BY <2>1 DEF TypeOK
  <2> QED BY <1>3, <2>1, <2>2
<1>6. CASE Deliver(p)
  <2>1. PICK t \in proc[p].toasts : /\ told' = [told EXCEPT ![t.key] = Append(told[t.key], Shown(t))]
                                    /\ proc' = [proc EXCEPT ![p] = Telling(proc[p].toasts \ {t})]
    BY <1>6 DEF Deliver, Shown
  <2>2. proc[p].toasts \subseteq Toasts
    BY DEF TypeOK, IsCheck
  <2>3. t.key \in Keys /\ Shown(t) \in Announcements
    BY <2>2, ToastsShow
  <2>4. told' \in [Keys -> Seq(Announcements)]
    BY <2>1, <2>3 DEF TypeOK
  <2>5. proc[p].toasts \ {t} \in SUBSET Toasts
    BY <2>2
  <2>6. marks' \in [Keys -> Nat \cup {Unmarked}]
    BY <1>6 DEF Deliver, TypeOK
  <2> QED BY <1>3, <1>6, <2>1, <2>4, <2>5, <2>6 DEF Deliver
<1>7. CASE LockTimesOut(p) \/ Done(p) \/ Crash(p)
  <2>1. Becoming(p, Idle) /\ Idle.pc = "idle" /\ Idle.older = {}
    BY <1>7, EndingDoes, PlainChecks
  <2>2. UNCHANGED <<usage, credits, marks, told, overtaken>>
    BY <1>7 DEF LockTimesOut, Done, Crash
  <2>3. count' \in [changes : Nat, crashes : Nat]
    <3>1. /\ count.changes \in Nat /\ count.crashes \in Nat
          /\ count = [changes |-> count.changes, crashes |-> count.crashes]
      BY DEF TypeOK
    <3>2. \/ count' = count
          \/ count' = [changes |-> count.changes, crashes |-> count.crashes + 1]
      BY <1>7, <3>1 DEF LockTimesOut, Done, Crash
    <3> QED BY <3>1, <3>2
  <2>4. lock' \in Procs \cup {"none"} /\ lock' # p /\ \A q \in Procs \ {p} : lock = q <=> lock' = q
    <3>1. lock \in Procs \cup {"none"} /\ (proc[p].pc = "read" => lock # p)
      BY DEF TypeOK
    <3> QED BY <1>0, <1>7, <3>1 DEF LockTimesOut, Done, Crash
  <2>5. /\ proc' = [q \in Procs |-> proc'[q]]
        /\ \A q \in Procs :
             /\ IsCheck(proc'[q])
             /\ proc'[q].pc \in {"locked", "toasts"} <=> lock' = q
             /\ \A r \in proc'[q].older :
                  r # q /\ proc'[r].pc = "read" /\ proc'[r].entry = proc'[q].entry
             /\ proc'[q].pc = "locked" => proc'[q].seen = marks'
    BY <2>1, <2>2, <2>4, ChecksKept
  <2> QED BY <2>2, <2>3, <2>4, <2>5 DEF TypeOK, Waits
<1> QED BY <1>1, <1>2, <1>4, <1>5, <1>6, <1>7 DEF Check

LEMMA StepTypes == TypeOK /\ ResetsOK /\ [Next]_vars => TypeOK'
<1> SUFFICES ASSUME TypeOK, ResetsOK, [Next]_vars PROVE TypeOK'
  OBVIOUS
<1>1. CASE Provider
  <2>1. /\ UNCHANGED <<marks, lock, proc, told, overtaken>>
        /\ credits' \in [Credits -> {"far", "soon", "gone"}]
        /\ count' \in [changes : Nat, crashes : Nat]
        /\ UNCHANGED usage \/ \E w \in Windows : Changed(w)
    BY <1>1, ProviderDoes DEF ResetsOK
  <2>2. usage' \in [Windows -> Usages]
    BY <2>1 DEF Changed, TypeOK
  <2> QED BY <2>1, <2>2 DEF TypeOK, Waits
<1>2. CASE \E p \in Procs : Check(p)
  BY <1>2, CheckTypes
<1>3. CASE UNCHANGED vars
  BY <1>3 DEF vars, TypeOK, Waits
<1> QED BY <1>1, <1>2, <1>3 DEF Next

LEMMA ResetsHold ==
  /\ Init => ResetsOK
  /\ TypeOK /\ ResetsOK /\ [Next]_vars => ResetsOK'
<1>1. ASSUME Init PROVE ResetsOK
  <2>1. \A p \in Procs : DOMAIN proc[p].rows = {}
    BY <1>1, PlainChecks, NoRowsAre, AtFields DEF Init, Idle
  <2>2. \A w \in Windows : marks[w] = Unmarked /\ usage[w].reset = IF w \in Silent THEN 0 ELSE Span
    BY <1>1, KeysAre DEF Init, NoMarks, NoInstant
  <2> QED BY <2>1, <2>2, Numbers DEF ResetsOK, NoInstant, Unmarked
<1>2. ASSUME TypeOK, ResetsOK, NEW p \in Procs, NEW d, Becoming(p, d),
             UNCHANGED usage,
             \A w \in Windows : marks'[w] = NoInstant => w \in Silent,
             \A w \in Windows : w \in DOMAIN d.rows => (d.rows[w].reset = NoInstant <=> w \in Silent)
      PROVE  ResetsOK'
  <2>1. \A q \in Procs \ {p} : proc'[q].rows = proc[q].rows
    BY <1>2 DEF Becoming, Stays
  <2>2. proc'[p].rows = d.rows
    BY <1>2 DEF Becoming
  <2>3. ASSUME NEW w \in Windows, NEW q \in Procs, w \in DOMAIN proc'[q].rows
        PROVE  proc'[q].rows[w].reset = NoInstant <=> w \in Silent
    BY <1>2, <2>1, <2>2, <2>3 DEF ResetsOK
  <2> QED BY <1>2, <2>3 DEF ResetsOK
<1>3. ASSUME TypeOK, ResetsOK, NEW p \in Procs, Check(p) PROVE ResetsOK'
  <2>0. \A w \in Windows : marks[w] = NoInstant => w \in Silent
    BY <1>3 DEF ResetsOK
  <2>1. CASE \E e \in Entries : Read(p, e)
    <3>1. PICK e \in Entries : Read(p, e)
      BY <2>1
    <3>2. PICK d : Becoming(p, d) /\ d.rows = [w \in Of(e, Windows) |-> usage[w]]
      BY <1>3, <3>1, ReadDoes
    <3>3. UNCHANGED <<usage, marks>>
      BY <3>1 DEF Read
    <3>4. \A w \in Windows : w \in DOMAIN d.rows => (d.rows[w].reset = NoInstant <=> w \in Silent)
      BY <1>3, <3>2 DEF ResetsOK
    <3> QED BY <1>2, <1>3, <2>0, <3>2, <3>3, <3>4
  <2>2. CASE TakeLock(p)
    <3>1. PICK d : Becoming(p, d) /\ d.rows = proc[p].rows
      BY <1>3, <2>2, TakeLockDoes
    <3>2. UNCHANGED <<usage, marks>>
      BY <2>2 DEF TakeLock
    <3>3. \A w \in Windows : w \in DOMAIN d.rows => (d.rows[w].reset = NoInstant <=> w \in Silent)
      BY <1>3, <3>1 DEF ResetsOK
    <3> QED BY <1>2, <1>3, <2>0, <3>1, <3>2, <3>3
  <2>3. CASE LockTimesOut(p) \/ Done(p) \/ Crash(p)
    <3>1. Becoming(p, Idle) /\ DOMAIN Idle.rows = {}
      BY <1>3, <2>3, EndingDoes, NoRowsAre, AtFields DEF Idle
    <3>2. UNCHANGED <<usage, marks>>
      BY <2>3 DEF LockTimesOut, Done, Crash
    <3> QED BY <1>2, <1>3, <2>0, <3>1, <3>2
  <2>4. ASSUME NEW S, UNCHANGED usage, Becoming(p, Telling(S)),
               \A w \in Windows : marks'[w] = NoInstant => w \in Silent
        PROVE  ResetsOK'
    <3>1. DOMAIN Telling(S).rows = {}
      BY NoRowsAre, AtFields DEF Telling
    <3> QED BY <1>2, <1>3, <2>4, <3>1
  <2>5. CASE SaveFails(p) \/ Deliver(p)
    <3>1. UNCHANGED <<usage, marks>> /\ proc[p].pc \in {"locked", "toasts"}
      BY <2>5 DEF SaveFails, Deliver
    <3>2. \E S \in SUBSET Toasts : proc' = [proc EXCEPT ![p] = Telling(S)]
      <4>1. proc[p].toasts \subseteq Toasts
        BY <1>3 DEF TypeOK, IsCheck
      <4> QED BY <2>5, <4>1 DEF SaveFails, Unsaved, Deliver
    <3>3. \E S : Becoming(p, Telling(S))
      BY <1>3, <3>1, <3>2, TellingDoes
    <3> QED BY <2>0, <2>4, <3>1, <3>3
  <2>6. CASE Save(p)
    <3>1. PICK c : c = proc[p]
      OBVIOUS
    <3>2. /\ UNCHANGED usage /\ marks' = MarksAfter(c.rows, c.listed, c.seen)
          /\ proc' = [proc EXCEPT ![p] = Telling(Fired(c.rows, c.listed, c.seen))]
          /\ c.pc = "locked"
      BY <2>6, <3>1 DEF Save
    <3>3. Fired(c.rows, c.listed, c.seen) \in SUBSET Toasts
      BY <1>3, <3>1, <3>2, SaveWrites
    <3>4. Becoming(p, Telling(Fired(c.rows, c.listed, c.seen)))
      BY <1>3, <3>1, <3>2, <3>3, TellingDoes
    <3>5. c.seen = marks /\ c.listed \subseteq Credits
      BY <1>3, <3>1, <3>2 DEF TypeOK, IsCheck
    <3>6. ASSUME NEW w \in Windows, marks'[w] = NoInstant PROVE w \in Silent
      <4>1. marks'[w] = IF w \in Dropped(c.rows) THEN Unmarked
                        ELSE IF w \in Crossed(c.rows, c.seen) THEN c.rows[w].reset
                        ELSE IF w \in Due(c.listed, c.seen) THEN NoInstant ELSE c.seen[w]
        BY <3>2, KeysAre DEF MarksAfter
      <4>2. w \notin Due(c.listed, c.seen)
        BY <3>5, KeysAre DEF Due
      <4>3. CASE w \in Crossed(c.rows, c.seen) /\ w \notin Dropped(c.rows)
        BY <1>3, <3>1, <3>6, <4>1, <4>3 DEF Crossed, ResetsOK
      <4> QED BY <2>0, <3>5, <3>6, <4>1, <4>2, <4>3 DEF NoInstant, Unmarked
    <3> QED BY <2>4, <3>2, <3>4, <3>6
  <2> QED BY <1>3, <2>1, <2>2, <2>3, <2>5, <2>6 DEF Check
<1>4. ASSUME TypeOK, ResetsOK, Provider PROVE ResetsOK'
  <2>1. UNCHANGED <<marks, proc>> /\ (UNCHANGED usage \/ \E w \in Windows : Changed(w))
    BY <1>4, ProviderDoes DEF ResetsOK
  <2>2. \A w \in Windows : usage'[w].reset = NoInstant <=> usage[w].reset = NoInstant
    BY <2>1 DEF Changed
  <2> QED BY <1>4, <2>1, <2>2 DEF ResetsOK
<1>5. ASSUME ResetsOK, UNCHANGED vars PROVE ResetsOK'
  BY <1>5 DEF ResetsOK, vars
<1> QED BY <1>1, <1>3, <1>4, <1>5 DEF Next

THEOREM NotifyTypes == Spec => [](TypeOK /\ ResetsOK)
<1>1. Init => TypeOK /\ ResetsOK
  BY InitTypes, ResetsHold
<1>2. TypeOK /\ ResetsOK /\ [Next]_vars => (TypeOK /\ ResetsOK)'
  BY StepTypes, ResetsHold
<1> QED BY <1>1, <1>2, PTL DEF Spec

-----------------------------------------------------------------------------
(***************************************************************************)
(* s is a reading of a window made after r.  What fell below the band and  *)
(* comes back is another crossing.                                         *)
(***************************************************************************)
Follows(r, s) ==
  /\ r.crossing <= s.crossing
  /\ r.crossing = s.crossing /\ s.pct < RearmBelow => r.pct < RearmBelow

(***************************************************************************)
(* Of the crossing that the reading r shows, nothing was announced (said)  *)
(* or the file has a mark, as late as any instant it was announced with.   *)
(***************************************************************************)
Settled(r, said, mark) ==
  \A c \in said :
    /\ c.crossing <= r.crossing
    /\ c.crossing = r.crossing =>
         r.pct >= RearmBelow /\ mark # Unmarked /\ c.reset <= mark

LEMMA Reads ==
  \A u \in Usages : u.pct \in Nat /\ u.reset \in Nat /\ u.crossing \in Nat
BY Numbers DEF Usages

LEMMA FollowsItself ==
  ASSUME NEW u \in Usages
  PROVE  Follows(u, u)
BY Reads DEF Follows

LEMMA SettledLess ==
  ASSUME NEW r, NEW S, NEW T \in SUBSET S, NEW m, Settled(r, S, m)
  PROVE  Settled(r, T, m)
BY DEF Settled

(***************************************************************************)
(* A later account of the window: of another crossing, or in the band or   *)
(* over it.                                                                *)
(***************************************************************************)
Later(s, t) ==
  /\ t.crossing >= s.crossing
  /\ t.crossing = s.crossing => t.pct >= RearmBelow

LEMMA FollowsOn ==
  ASSUME NEW r \in Usages, NEW s \in Usages, NEW t \in Usages, Follows(r, s), Later(s, t)
  PROVE  Follows(r, t)
<1>1. /\ r.crossing \in Nat /\ s.crossing \in Nat /\ t.crossing \in Nat
      /\ t.pct \in Nat /\ RearmBelow \in Int
  BY Reads, Numbers
<1> QED BY <1>1 DEF Follows, Later

LEMMA SettledOn ==
  ASSUME NEW s \in Usages, NEW t \in Usages, NEW S \in SUBSET Announcements, NEW m,
         Settled(s, S, m), Later(s, t)
  PROVE  Settled(t, S, m)
<1>1. s.crossing \in Nat /\ t.crossing \in Nat /\ \A c \in S : c.crossing \in Nat
  BY Reads, ToastsShow
<1> QED BY <1>1 DEF Settled, Later

(***************************************************************************)
(* A save decides by the reading r: it drops the mark, sets it and         *)
(* announces r's crossing, or leaves it.  What came after r stays settled. *)
(***************************************************************************)
Decided(w, r, S, m, T, n) ==
  \/ r.pct < RearmBelow /\ n = Unmarked /\ T \subseteq S
  \/ /\ r.pct >= Threshold /\ Armed(w, r.reset, m)
     /\ n = r.reset /\ T \subseteq S \cup {Shown(r)}
  \/ n = m /\ T \subseteq S

LEMMA SettledBySave ==
  ASSUME NEW w, NEW r \in Usages, NEW s \in Usages,
         NEW S \in SUBSET Announcements, NEW T \in SUBSET Announcements,
         NEW m \in Nat \cup {Unmarked}, NEW n \in Nat \cup {Unmarked},
         Follows(r, s), Settled(r, S, m), Settled(s, S, m), Decided(w, r, S, m, T, n),
         m = NoInstant => r.reset = NoInstant
  PROVE  Settled(s, T, n)
<1>1. /\ r.pct \in Nat /\ r.reset \in Nat /\ r.crossing \in Nat
      /\ s.pct \in Nat /\ s.reset \in Nat /\ s.crossing \in Nat
      /\ RearmBelow \in Int /\ RearmBelow <= Threshold /\ Threshold \in Nat
      /\ m \in Int /\ Tolerance \in Nat
      /\ \A c \in S \cup T : c.crossing \in Nat /\ c.reset \in Nat
  BY Reads, Numbers, ToastsShow DEF Unmarked
<1>2. CASE n = m /\ T \subseteq S
  BY <1>2 DEF Settled
<1>3. CASE r.pct < RearmBelow /\ n = Unmarked /\ T \subseteq S
  <2>1. ASSUME NEW c \in T, c.crossing = s.crossing PROVE FALSE
    <3>1. c \in S /\ c.crossing <= r.crossing /\ r.crossing <= s.crossing
      BY <1>3, <2>1 DEF Settled, Follows
    <3>2. c.crossing = r.crossing
      BY <1>1, <2>1, <3>1
    <3>3. r.pct >= RearmBelow
      BY <3>1, <3>2 DEF Settled
    <3> QED BY <1>1, <1>3, <3>3
  <2>2. \A c \in T : c.crossing <= s.crossing
    BY <1>3 DEF Settled
  <2> QED BY <2>1, <2>2 DEF Settled
<1>4. CASE /\ r.pct >= Threshold /\ Armed(w, r.reset, m)
           /\ n = r.reset /\ T \subseteq S \cup {Shown(r)}
  <2>1. r.crossing <= s.crossing
    BY DEF Follows
  <2>2. \A c \in T : c \in S \/ (c.crossing = r.crossing /\ c.reset = r.reset)
    BY <1>4, ToastsShow
  <2>3. ASSUME NEW c \in T
        PROVE  /\ c.crossing <= s.crossing /\ c.crossing <= r.crossing
               /\ c.crossing = r.crossing => c.reset <= r.reset
    <3>1. CASE c \in S
      <4>1. c.crossing <= r.crossing /\ c.crossing <= s.crossing
        BY <3>1 DEF Settled
      <4>2. ASSUME c.crossing = r.crossing PROVE c.reset <= r.reset
        <5>1. m # Unmarked /\ c.reset <= m
          BY <3>1, <4>2 DEF Settled
        <5>2. m # NoInstant => r.reset - m > Tolerance
          BY <1>4, <5>1 DEF Armed, MovedLater
        <5>3. m = NoInstant => m <= r.reset
          BY <1>1 DEF NoInstant
        <5> QED BY <1>1, <5>1, <5>2, <5>3
      <4> QED BY <4>1, <4>2
    <3>2. CASE c.crossing = r.crossing /\ c.reset = r.reset
      BY <1>1, <2>1, <3>2
    <3> QED BY <2>2, <3>1, <3>2
  <2>4. ASSUME NEW c \in T, c.crossing = s.crossing
        PROVE  s.pct >= RearmBelow /\ n # Unmarked /\ c.reset <= n
    <3>1. r.crossing = s.crossing /\ c.crossing = r.crossing
      BY <1>1, <2>1, <2>3, <2>4
    <3>2. s.pct < RearmBelow => r.pct < RearmBelow
      BY <3>1 DEF Follows
    <3> QED BY <1>1, <1>4, <2>3, <3>1, <3>2 DEF Unmarked
  <2> QED BY <2>3, <2>4 DEF Settled
<1> QED BY <1>2, <1>3, <1>4 DEF Decided

(***************************************************************************)
(* What is announced was not announced before, or its instant has slid by  *)
(* more than the tolerance since.                                          *)
(***************************************************************************)
LEMMA SaidAgainWhenSlid ==
  ASSUME NEW w, NEW r \in Usages, NEW S \in SUBSET Announcements,
         NEW m \in Nat \cup {Unmarked},
         Settled(r, S, m), Armed(w, r.reset, m), m = NoInstant => r.reset = NoInstant,
         NEW c \in S, c.crossing = r.crossing
  PROVE  w \notin Regen /\ r.reset - c.reset > Tolerance
<1>1. m # Unmarked /\ c.reset <= m
  BY DEF Settled
<1>2. w \notin Regen /\ r.reset # NoInstant /\ r.reset - m > Tolerance
  BY <1>1 DEF Armed, MovedLater
<1>3. r.reset \in Nat /\ m \in Int /\ Tolerance \in Nat /\ c.reset \in Nat
  BY Reads, Numbers, ToastsShow DEF Unmarked
<1> QED BY <1>1, <1>2, <1>3

-----------------------------------------------------------------------------
(* What has been said of each key. *)

Said(k) ==
  {c \in Announcements : \/ \E i \in DOMAIN told[k] : told[k][i] = c
                         \/ \E p \in Procs : Toast(k, c) \in proc[p].toasts}

(***************************************************************************)
(* As long as no reading of an entry was decided after a newer one: its    *)
(* waiting readings are in a line, each follows those before it and the    *)
(* one being decided, and they and the provider's account are settled.     *)
(***************************************************************************)
Open(p) == proc[p].pc \in {"read", "locked"} /\ proc[p].entry \notin overtaken

RowsSettled ==
  \A p \in Procs : Open(p) =>
    \A w \in Of(proc[p].entry, Windows) :
      /\ Follows(proc[p].rows[w], usage[w])
      /\ Settled(proc[p].rows[w], Said(w), marks[w])

UsageSettled ==
  \A w \in Windows : Entry[w] \notin overtaken => Settled(usage[w], Said(w), marks[w])

RowsInOrder ==
  \A p, q \in Procs :
    p # q /\ Open(p) /\ Open(q) /\ proc[p].entry = proc[q].entry /\ proc[q].pc = "read" =>
      /\ proc[p].pc = "read" => p \in proc[q].older \/ q \in proc[p].older
      /\ p \in proc[q].older \/ proc[p].pc = "locked" =>
           \A w \in Of(proc[q].entry, Windows) :
             Follows(proc[p].rows[w], proc[q].rows[w])

LEMMA OpenRows ==
  ASSUME TypeOK, NEW p \in Procs, proc[p].pc \in {"read", "locked"}
  PROVE  /\ proc[p].entry \in Entries /\ Of(proc[p].entry, Windows) \subseteq Windows
         /\ DOMAIN proc[p].rows = Of(proc[p].entry, Windows)
         /\ \A w \in Of(proc[p].entry, Windows) : proc[p].rows[w] \in Usages
BY KeysAre DEF TypeOK, IsCheck

LEMMA OrderKept ==
  ASSUME TypeOK, RowsSettled, UsageSettled, RowsInOrder,
         NEW p \in Procs, NEW d, Becoming(p, d),
         UNCHANGED <<usage, marks>>,
         \A w \in Windows : Said(w)' \subseteq Said(w),
         overtaken \subseteq overtaken',
         d.pc \in {"read", "locked"} /\ d.entry \notin overtaken' =>
           /\ d.entry \in Entries
           /\ \A w \in Of(d.entry, Windows) :
                /\ d.rows[w] \in Usages
                /\ Follows(d.rows[w], usage[w])
                /\ Settled(d.rows[w], Said(w), marks[w])
           /\ \A q \in Procs \ {p} : proc[q].entry = d.entry =>
                /\ proc[q].pc = "read" /\ d.pc = "read" => q \in d.older
                /\ proc[q].pc = "read" /\ d.pc = "locked" =>
                     \A w \in Of(d.entry, Windows) : Follows(d.rows[w], proc[q].rows[w])
                /\ proc[q].pc \in {"read", "locked"} /\ d.pc = "read" =>
                     \A w \in Of(d.entry, Windows) : Follows(proc[q].rows[w], d.rows[w])
  PROVE  RowsSettled' /\ UsageSettled' /\ RowsInOrder'
<1>0. \A w \in Windows : Said(w)' \in SUBSET Said(w) /\ usage[w] \in Usages
  BY DEF TypeOK
<1>1. proc'[p] = d /\ \A q \in Procs \ {p} : Stays(q, p)
  BY DEF Becoming
<1>2. \A w \in Windows, r \in Usages :
        Settled(r, Said(w), marks[w]) => Settled(r, Said(w)', marks'[w])
  BY <1>0, SettledLess
<1>3. UsageSettled'
  BY <1>0, <1>2 DEF UsageSettled
<1>4. RowsSettled'
  <2> SUFFICES ASSUME NEW q \in Procs, proc'[q].pc \in {"read", "locked"},
                      proc'[q].entry \notin overtaken', NEW w \in Of(proc'[q].entry, Windows)
               PROVE  /\ Follows(proc'[q].rows[w], usage'[w])
                      /\ Settled(proc'[q].rows[w], Said(w)', marks'[w])
    BY DEF RowsSettled, Open
  <2>1. CASE q = p
    BY <1>0, <1>1, <1>2, <2>1, KeysAre
  <2>2. CASE q # p
    <3>1. /\ proc'[q].pc = proc[q].pc /\ proc'[q].entry = proc[q].entry
          /\ proc'[q].rows = proc[q].rows
      BY <1>1, <2>2 DEF Stays
    <3>2. proc[q].rows[w] \in Usages /\ w \in Windows
      BY <3>1, OpenRows
    <3>3. /\ Follows(proc[q].rows[w], usage[w])
          /\ Settled(proc[q].rows[w], Said(w), marks[w])
      BY <3>1 DEF RowsSettled, Open
    <3> QED BY <1>0, <1>2, <3>1, <3>2, <3>3
  <2> QED BY <2>1, <2>2
<1>5. RowsInOrder'
  <2> SUFFICES ASSUME NEW q \in Procs, NEW r \in Procs, q # r,
                      proc'[q].pc \in {"read", "locked"}, proc'[r].pc = "read",
                      proc'[r].entry \notin overtaken', proc'[q].entry = proc'[r].entry
               PROVE  /\ proc'[q].pc = "read" => q \in proc'[r].older \/ r \in proc'[q].older
                      /\ q \in proc'[r].older \/ proc'[q].pc = "locked" =>
                           \A w \in Of(proc'[r].entry, Windows) :
                             Follows(proc'[q].rows[w], proc'[r].rows[w])
    BY DEF RowsInOrder, Open
  <2>1. CASE q = p
    <3>1. /\ proc'[r].pc = proc[r].pc /\ proc'[r].entry = proc[r].entry
          /\ proc'[r].rows = proc[r].rows /\ q \notin proc'[r].older
      BY <1>1, <2>1 DEF Stays
    <3> QED BY <1>0, <1>1, <2>1, <3>1
  <2>2. CASE r = p
    <3>1. /\ proc'[q].pc = proc[q].pc /\ proc'[q].entry = proc[q].entry
          /\ proc'[q].rows = proc[q].rows
      BY <1>1, <2>2 DEF Stays
    <3> QED BY <1>0, <1>1, <2>2, <3>1
  <2>3. CASE q # p /\ r # p
    <3>1. /\ proc'[q].pc = proc[q].pc /\ proc'[q].entry = proc[q].entry
          /\ proc'[q].rows = proc[q].rows /\ proc'[q].older = proc[q].older \ {p}
          /\ proc'[r].pc = proc[r].pc /\ proc'[r].entry = proc[r].entry
          /\ proc'[r].rows = proc[r].rows /\ proc'[r].older = proc[r].older \ {p}
      BY <1>1, <2>3 DEF Stays
    <3>2. Open(q) /\ Open(r)
      BY <3>1 DEF Open
    <3> QED BY <1>0, <2>3, <3>1, <3>2 DEF RowsInOrder
  <2> QED BY <2>1, <2>2, <2>3
<1> QED BY <1>3, <1>4, <1>5

(***************************************************************************)
(* The toasts of a key: one per check, none of a crossing that was told,   *)
(* and a credit that was announced is marked.                              *)
(***************************************************************************)
Orderly(k) == k \in Windows => Entry[k] \notin overtaken

(* What was announced of k leaves room to announce c. *)
Room(k, c) ==
  \A i \in DOMAIN told[k] :
    told[k][i].crossing = c.crossing =>
      k \notin Regen /\ c.reset - told[k][i].reset > Tolerance

ToldOnce ==
  /\ \A c \in Credits : Said(c) # {} => marks[c] # Unmarked
  /\ \A k \in Keys : Orderly(k) =>
       /\ OnceUnlessSlid(k)
       /\ \A p \in Procs : \A t \in proc[p].toasts : t.key = k => Room(k, t)
  /\ \A p \in Procs : \A t, u \in proc[p].toasts : t.key = u.key => t = u

NotifyInv == TypeOK /\ ResetsOK /\ RowsSettled /\ UsageSettled /\ RowsInOrder /\ ToldOnce

LEMMA QuietSays ==
  ASSUME told' = told, \A q \in Procs : proc'[q].toasts \subseteq proc[q].toasts
  PROVE  \A k \in Keys : Said(k)' \subseteq Said(k)
BY DEF Said

LEMMA QuietTold ==
  ASSUME ToldOnce, told' = told, \A q \in Procs : proc'[q].toasts \subseteq proc[q].toasts,
         marks' = marks, overtaken \subseteq overtaken'
  PROVE  ToldOnce'
<1>1. \A c \in Credits : Said(c)' # {} => marks'[c] # Unmarked
  <2>1. \A c \in Credits : Said(c)' \subseteq Said(c)
    BY QuietSays, KeysAre
  <2> QED BY <2>1 DEF ToldOnce
<1>2. \A k \in Keys : Orderly(k)' => Orderly(k)
  BY DEF Orderly
<1>3. \A p \in Procs : \A t, u \in proc'[p].toasts : t.key = u.key => t = u
  BY DEF ToldOnce
<1>4. ASSUME NEW k \in Keys, Orderly(k)'
      PROVE  /\ OnceUnlessSlid(k)'
             /\ \A p \in Procs : \A t \in proc'[p].toasts : t.key = k => Room(k, t)'
  <2>1. Orderly(k)
    BY <1>2, <1>4
  <2>2. OnceUnlessSlid(k)' = OnceUnlessSlid(k) /\ \A t : Room(k, t)' = Room(k, t)
    BY DEF OnceUnlessSlid, Room
  <2> QED BY <2>1, <2>2 DEF ToldOnce
<1> QED BY <1>1, <1>3, <1>4 DEF ToldOnce

LEMMA TheOthersToastsAreNone ==
  ASSUME TypeOK, NEW p \in Procs, proc[p].pc \in {"locked", "toasts"}
  PROVE  /\ \A q \in Procs \ {p} : proc[q].toasts = {}
         /\ proc[p].pc = "locked" => proc[p].toasts = {}
         /\ proc[p].toasts \subseteq Toasts
<1>1. lock = p
  BY DEF TypeOK
<1>2. \A q \in Procs \ {p} : proc[q].pc # "toasts"
  BY <1>1 DEF TypeOK
<1> QED BY <1>2 DEF TypeOK, IsCheck

(***************************************************************************)
(* A toast that is delivered was said already.                             *)
(***************************************************************************)
LEMMA DeliverTells ==
  ASSUME TypeOK, ToldOnce, NEW p \in Procs, Deliver(p)
  PROVE  ToldOnce' /\ \A k \in Keys : Said(k)' \subseteq Said(k)
<1>0. proc[p].pc = "toasts" /\ UNCHANGED <<marks, overtaken>>
  BY DEF Deliver
<1>1. PICK t \in proc[p].toasts : /\ told' = [told EXCEPT ![t.key] = Append(told[t.key], Shown(t))]
                                  /\ proc' = [proc EXCEPT ![p] = Telling(proc[p].toasts \ {t})]
  BY DEF Deliver, Shown
<1>2. /\ \A q \in Procs \ {p} : proc[q].toasts = {}
      /\ proc[p].toasts \subseteq Toasts
  BY <1>0, TheOthersToastsAreNone
<1>3. proc'[p].toasts = proc[p].toasts \ {t} /\ \A q \in Procs \ {p} : proc'[q].toasts = {}
  <2>1. proc'[p] = Telling(proc[p].toasts \ {t}) /\ \A q \in Procs \ {p} : proc'[q] = proc[q]
    BY <1>1 DEF TypeOK
  <2>2. proc[p].toasts \ {t} \in SUBSET Toasts
    BY <1>2
  <2> QED BY <1>2, <2>1, <2>2, PlainChecks
<1>4. /\ t.key \in Keys /\ Shown(t) \in Announcements /\ told[t.key] \in Seq(Announcements)
      /\ t = Toast(t.key, Shown(t))
  BY <1>1, <1>2, ToastsShow DEF TypeOK
<1>5. /\ told'[t.key] = Append(told[t.key], Shown(t))
      /\ \A k \in Keys \ {t.key} : told'[k] = told[k]
  BY <1>1, <1>4 DEF TypeOK
<1>6. /\ DOMAIN told[t.key] = 1 .. Len(told[t.key]) /\ Len(told[t.key]) \in Nat
      /\ DOMAIN told'[t.key] = 1 .. Len(told[t.key]) + 1
      /\ \A i \in DOMAIN told[t.key] : told'[t.key][i] = told[t.key][i]
      /\ told'[t.key][Len(told[t.key]) + 1] = Shown(t)
  BY <1>4, <1>5
<1>7. ASSUME NEW k \in Keys, NEW c \in Said(k)' PROVE c \in Said(k)
  <2>1. c \in Announcements /\ \/ \E i \in DOMAIN told'[k] : told'[k][i] = c
                               \/ \E q \in Procs : Toast(k, c) \in proc'[q].toasts
    BY <1>7 DEF Said
  <2>2. CASE \E q \in Procs : Toast(k, c) \in proc'[q].toasts
    BY <1>3, <2>1, <2>2 DEF Said
  <2>3. CASE \E i \in DOMAIN told'[k] : told'[k][i] = c
    <3>1. CASE k # t.key
      BY <1>5, <2>1, <2>3, <3>1 DEF Said
    <3>2. CASE k = t.key
      <4>1. PICK i \in DOMAIN told'[k] : told'[k][i] = c
        BY <2>3
      <4>2. (i \in DOMAIN told[k] /\ told[k][i] = c) \/ c = Shown(t)
        BY <1>6, <3>2, <4>1
      <4>3. c = Shown(t) => Toast(k, c) \in proc[p].toasts
        BY <1>1, <1>4, <3>2
      <4> QED BY <2>1, <4>2, <4>3 DEF Said
    <3> QED BY <3>1, <3>2
  <2> QED BY <2>1, <2>2, <2>3
<1>8. \A c \in Credits : Said(c)' # {} => marks'[c] # Unmarked
  <2>1. \A c \in Credits : Said(c)' \subseteq Said(c)
    BY <1>7, KeysAre
  <2> QED BY <1>0, <2>1 DEF ToldOnce
<1>9. \A q \in Procs : \A u, v \in proc'[q].toasts : u.key = v.key => u = v
  BY <1>3 DEF ToldOnce
<1>10. \A k \in Keys : Orderly(k)' = Orderly(k)
  BY <1>0 DEF Orderly
<1>11. ASSUME NEW k \in Keys, Orderly(k)
       PROVE  /\ OnceUnlessSlid(k)'
              /\ \A q \in Procs : \A u \in proc'[q].toasts : u.key = k => Room(k, u)'
  <2>1. OnceUnlessSlid(k) /\ \A u \in proc[p].toasts : u.key = k => Room(k, u)
    BY <1>11 DEF ToldOnce
  <2>2. CASE k # t.key
    <3>1. OnceUnlessSlid(k)' = OnceUnlessSlid(k) /\ \A u : Room(k, u)' = Room(k, u)
      BY <1>5, <2>2 DEF OnceUnlessSlid, Room
    <3> QED BY <1>3, <2>1, <3>1
  <2>3. CASE k = t.key
    <3>1. \A q \in Procs : \A u \in proc'[q].toasts : u.key # k
      <4>1. \A u \in proc[p].toasts : u.key = t.key => u = t
        BY <1>1 DEF ToldOnce
      <4> QED BY <1>3, <2>3, <4>1
    <3>2. \A i \in DOMAIN told[k] : told[k][i].crossing = Shown(t).crossing =>
             k \notin Regen /\ Shown(t).reset - told[k][i].reset > Tolerance
      BY <1>1, <2>1, <2>3, ToastsShow DEF Room
    <3>3. OnceUnlessSlid(k)'
      <4> SUFFICES ASSUME NEW i \in DOMAIN told'[k], NEW j \in DOMAIN told'[k], i < j,
                          told'[k][i].crossing = told'[k][j].crossing
                   PROVE  k \notin Regen /\ told'[k][j].reset - told'[k][i].reset > Tolerance
        BY DEF OnceUnlessSlid
      <4>1. i \in DOMAIN told[k] /\ told'[k][i] = told[k][i]
        BY <1>6, <2>3
      <4>2. CASE j \in DOMAIN told[k]
        <5>1. told'[k][j] = told[k][j]
          BY <1>6, <2>3, <4>2
        <5> QED BY <2>1, <4>1, <4>2, <5>1 DEF OnceUnlessSlid
      <4>3. CASE j = Len(told[k]) + 1
        <5>1. told'[k][j] = Shown(t)
          BY <1>6, <2>3, <4>3
        <5> QED BY <3>2, <4>1, <5>1
      <4> QED BY <1>6, <2>3, <4>2, <4>3
    <3> QED BY <3>1, <3>3
  <2> QED BY <2>2, <2>3
<1>12. \A k \in Keys : Said(k)' \subseteq Said(k)
  BY <1>7
<1> QED BY <1>8, <1>9, <1>10, <1>11, <1>12 DEF ToldOnce

-----------------------------------------------------------------------------
(* The save. *)

LEMMA SaveSays ==
  ASSUME TypeOK, NEW p \in Procs, Save(p),
         NEW rows, rows = proc[p].rows, NEW listed, listed = proc[p].listed
  PROVE  /\ proc[p].pc = "locked" /\ proc[p].toasts = {}
         /\ UNCHANGED <<usage, credits, told, overtaken, count>>
         /\ Becoming(p, Telling(Fired(rows, listed, marks)))
         /\ marks' = MarksAfter(rows, listed, marks)
         /\ proc'[p].pc = "toasts" /\ proc'[p].toasts = Fired(rows, listed, marks)
         /\ \A q \in Procs \ {p} : proc'[q].toasts = {}
         /\ \A k \in Keys : \A c \in Said(k)' :
              c \in Said(k) \/ Toast(k, c) \in Fired(rows, listed, marks)
<1>1. /\ proc[p].pc = "locked" /\ UNCHANGED <<usage, credits, told, overtaken, count>>
      /\ marks' = MarksAfter(proc[p].rows, proc[p].listed, proc[p].seen)
      /\ proc' = [proc EXCEPT ![p] = Telling(Fired(proc[p].rows, proc[p].listed, proc[p].seen))]
  BY DEF Save
<1>2. proc[p].seen = marks
  BY <1>1 DEF TypeOK
<1>3. Fired(rows, listed, marks) \in SUBSET Toasts
  BY <1>1, <1>2, SaveWrites
<1>4. Becoming(p, Telling(Fired(rows, listed, marks)))
  BY <1>1, <1>2, <1>3, TellingDoes
<1>5. proc'[p].pc = "toasts" /\ proc'[p].toasts = Fired(rows, listed, marks)
  BY <1>3, <1>4, PlainChecks DEF Becoming
<1>6. /\ proc[p].toasts = {} /\ \A q \in Procs \ {p} : proc[q].toasts = {}
      /\ \A q \in Procs \ {p} : proc'[q].toasts = {}
  BY <1>1, <1>4, TheOthersToastsAreNone DEF Becoming, Stays
<1>7. \A k \in Keys : \A c \in Said(k)' :
        c \in Said(k) \/ Toast(k, c) \in Fired(rows, listed, marks)
  BY <1>1, <1>5, <1>6 DEF Said
<1> QED BY <1>1, <1>2, <1>4, <1>5, <1>6, <1>7

(***************************************************************************)
(* What is decided of a window, and of a credit.                           *)
(***************************************************************************)
LEMMA SaveDecides ==
  ASSUME TypeOK, NEW p \in Procs, Save(p)
  PROVE  /\ \A w \in Of(proc[p].entry, Windows) :
              Decided(w, proc[p].rows[w], Said(w), marks[w], Said(w)', marks'[w])
         /\ \A w \in Windows : w \notin Of(proc[p].entry, Windows) =>
              Said(w)' \subseteq Said(w) /\ marks'[w] = marks[w]
         /\ \A c \in Credits : /\ Said(c) # {} /\ marks[c] # Unmarked => marks'[c] # Unmarked
                               /\ Said(c) = {} /\ Said(c)' # {} => marks'[c] # Unmarked
<1>1. PICK rows, listed : rows = proc[p].rows /\ listed = proc[p].listed
  OBVIOUS
<1>2. /\ proc[p].pc = "locked" /\ marks' = MarksAfter(rows, listed, marks)
      /\ \A k \in Keys : \A c \in Said(k)' :
           c \in Said(k) \/ Toast(k, c) \in Fired(rows, listed, marks)
  BY <1>1, SaveSays
<1>3. /\ DOMAIN rows = Of(proc[p].entry, Windows) /\ DOMAIN rows \subseteq Windows
      /\ listed \subseteq Credits /\ \A w \in DOMAIN rows : rows[w] \in Usages
  BY <1>1, <1>2, OpenRows DEF TypeOK, IsCheck
<1>4. \A k \in Keys : marks'[k] = IF k \in Dropped(rows) THEN Unmarked
                                  ELSE IF k \in Crossed(rows, marks) THEN rows[k].reset
                                  ELSE IF k \in Due(listed, marks) THEN NoInstant ELSE marks[k]
  BY <1>2 DEF MarksAfter
<1>5. ASSUME NEW w \in Windows, NEW c \in Announcements,
             Toast(w, c) \in Fired(rows, listed, marks)
      PROVE  w \in Crossed(rows, marks) /\ c = Shown(rows[w])
  <2>1. PICK t : t = Toast(w, c)
    OBVIOUS
  <2>2. t.key = w /\ t.crossing = c.crossing /\ t.reset = c.reset /\ w \notin Due(listed, marks)
    BY <1>3, <2>1, KeysAre, ToastsShow DEF Due
  <2>3. \/ \E v \in Crossed(rows, marks) : t = Toast(v, rows[v])
        \/ \E v \in Due(listed, marks) : t = Toast(v, [crossing |-> 1, reset |-> NoInstant])
    BY <1>5, <2>1 DEF Fired, Toast
  <2>4. PICK v : \/ v \in Crossed(rows, marks) /\ t = Toast(v, rows[v])
                 \/ v \in Due(listed, marks) /\ t.key = v
    BY <2>3, ToastsShow
  <2>5. v = w
    BY <2>2, <2>4, ToastsShow
  <2>6. w \in Crossed(rows, marks) /\ c.crossing = rows[w].crossing /\ c.reset = rows[w].reset
    BY <2>2, <2>4, <2>5, ToastsShow
  <2> QED BY <1>5, <2>6, ToastsShow DEF Shown
<1>6. ASSUME NEW e \in Credits, NEW c, Toast(e, c) \in Fired(rows, listed, marks)
      PROVE  e \in Due(listed, marks)
  <2>1. PICK t : t = Toast(e, c)
    OBVIOUS
  <2>2. t.key = e /\ e \notin Crossed(rows, marks)
    BY <1>3, <2>1, KeysAre, ToastsShow DEF Crossed
  <2>3. \/ \E v \in Crossed(rows, marks) : t = Toast(v, rows[v])
        \/ \E v \in Due(listed, marks) : t = Toast(v, [crossing |-> 1, reset |-> NoInstant])
    BY <1>6, <2>1 DEF Fired, Toast
  <2> QED BY <2>2, <2>3, ToastsShow
<1>7. ASSUME NEW w \in DOMAIN rows
      PROVE  Decided(w, rows[w], Said(w), marks[w], Said(w)', marks'[w])
  <2>1. w \in Windows /\ w \in Keys /\ w \notin Due(listed, marks)
    BY <1>3, KeysAre DEF Due
  <2>2. \A c \in Said(w)' : c \in Said(w) \/ (w \in Crossed(rows, marks) /\ c = Shown(rows[w]))
    BY <1>2, <1>5, <2>1 DEF Said
  <2>3. rows[w].pct \in Nat /\ RearmBelow \in Int /\ RearmBelow <= Threshold /\ Threshold \in Nat
    BY <1>3, Reads, Numbers
  <2>4. CASE w \in Dropped(rows)
    <3>1. rows[w].pct < RearmBelow /\ w \notin Crossed(rows, marks)
      BY <2>3, <2>4 DEF Dropped, Crossed
    <3> QED BY <1>4, <2>1, <2>2, <2>4, <3>1 DEF Decided
  <2>5. CASE w \in Crossed(rows, marks)
    <3>1. /\ rows[w].pct >= Threshold /\ Armed(w, rows[w].reset, marks[w])
          /\ w \notin Dropped(rows)
      BY <2>3, <2>5 DEF Dropped, Crossed
    <3>2. marks'[w] = rows[w].reset
      BY <1>4, <2>1, <2>5, <3>1
    <3> QED BY <2>2, <3>1, <3>2 DEF Decided
  <2>6. CASE w \notin Dropped(rows) /\ w \notin Crossed(rows, marks)
    BY <1>4, <2>1, <2>2, <2>6 DEF Decided
  <2> QED BY <2>4, <2>5, <2>6
<1>8. ASSUME NEW w \in Windows, w \notin DOMAIN rows
      PROVE  Said(w)' \subseteq Said(w) /\ marks'[w] = marks[w]
  <2>1. w \notin Dropped(rows) /\ w \notin Crossed(rows, marks) /\ w \notin Due(listed, marks)
    BY <1>3, <1>8, KeysAre DEF Dropped, Crossed, Due
  <2> QED BY <1>2, <1>4, <1>5, <2>1, KeysAre DEF Said
<1>9. ASSUME NEW c \in Credits
      PROVE  /\ Said(c) # {} /\ marks[c] # Unmarked => marks'[c] # Unmarked
             /\ Said(c) = {} /\ Said(c)' # {} => marks'[c] # Unmarked
  <2>1. c \in Keys /\ c \notin Dropped(rows) /\ c \notin Crossed(rows, marks)
    BY <1>3, KeysAre DEF Dropped, Crossed
  <2>2. marks'[c] = IF c \in Due(listed, marks) THEN NoInstant ELSE marks[c]
    BY <1>4, <2>1
  <2>3. Said(c) = {} /\ Said(c)' # {} => c \in Due(listed, marks)
    BY <1>2, <1>6, <2>1
  <2> QED BY <2>2, <2>3 DEF NoInstant, Unmarked
<1> QED BY <1>1, <1>3, <1>7, <1>8, <1>9

(***************************************************************************)
(* What a save announces has room beside what was announced.               *)
(***************************************************************************)
LEMMA SaveTellsOnce ==
  ASSUME TypeOK, ResetsOK, RowsSettled, ToldOnce,
         NEW p \in Procs, Save(p)
  PROVE  ToldOnce'
<1>1. PICK rows, listed : rows = proc[p].rows /\ listed = proc[p].listed
  OBVIOUS
<1>2. /\ proc[p].pc = "locked" /\ UNCHANGED <<told, overtaken>>
      /\ proc'[p].toasts = Fired(rows, listed, marks)
      /\ \A q \in Procs \ {p} : proc'[q].toasts = {}
  BY <1>1, SaveSays
<1>3. /\ DOMAIN rows = Of(proc[p].entry, Windows) /\ DOMAIN rows \subseteq Windows
      /\ listed \subseteq Credits /\ \A w \in DOMAIN rows : rows[w] \in Usages
  BY <1>1, <1>2, OpenRows DEF TypeOK, IsCheck
<1>4. \A c \in Credits : Said(c)' # {} => marks'[c] # Unmarked
  BY SaveDecides DEF ToldOnce
<1>5. \A t, u \in Fired(rows, listed, marks) : t.key = u.key => t = u
  BY <1>3, KeysAre DEF Fired, Crossed, Due
<1>6. \A k \in Keys : Orderly(k)' = Orderly(k)
  BY <1>2 DEF Orderly
<1>7. ASSUME NEW t \in Fired(rows, listed, marks), Orderly(t.key), NEW i \in DOMAIN told[t.key],
             told[t.key][i].crossing = t.crossing
      PROVE  t.key \notin Regen /\ t.reset - told[t.key][i].reset > Tolerance
  <2>1. CASE \E w \in Crossed(rows, marks) : t = Toast(w, rows[w])
    <3>1. PICK w \in Crossed(rows, marks) : t = Toast(w, rows[w])
      BY <2>1
    <3>2. /\ w \in DOMAIN rows /\ w \in Windows /\ w \in Keys /\ rows[w] \in Usages
          /\ Armed(w, rows[w].reset, marks[w]) /\ Entry[w] = proc[p].entry
      BY <1>3, <3>1, KeysAre DEF Crossed
    <3>3. t.key = w /\ t.crossing = rows[w].crossing /\ t.reset = rows[w].reset
      BY <3>1, ToastsShow
    <3>4. PICK c : c = told[w][i] /\ c \in Announcements /\ c \in Said(w)
      BY <1>7, <3>2, <3>3 DEF Said, TypeOK
    <3>5. Settled(rows[w], Said(w), marks[w])
      BY <1>1, <1>2, <1>3, <1>7, <3>2, <3>3 DEF RowsSettled, Open, Orderly
    <3>6. marks[w] = NoInstant => rows[w].reset = NoInstant
      BY <1>1, <3>2 DEF ResetsOK
    <3>7. Said(w) \in SUBSET Announcements /\ marks[w] \in Nat \cup {Unmarked}
      BY <3>2 DEF Said, TypeOK
    <3>8. c.crossing = rows[w].crossing
      BY <1>7, <3>3, <3>4
    <3>9. w \notin Regen /\ rows[w].reset - c.reset > Tolerance
      BY <3>2, <3>4, <3>5, <3>6, <3>7, <3>8, SaidAgainWhenSlid
    <3> QED BY <3>3, <3>4, <3>9
  <2>2. CASE \E c \in Due(listed, marks) : t = Toast(c, [crossing |-> 1, reset |-> NoInstant])
    <3>1. PICK c \in Due(listed, marks) : t.key = c
      BY <2>2, ToastsShow
    <3>2. c \in Credits /\ marks[c] = Unmarked
      BY <1>3, <3>1 DEF Due
    <3>3. told[c][i] \in Said(c)
      BY <1>7, <3>1, <3>2, KeysAre DEF Said, TypeOK, Keys
    <3> QED BY <3>2, <3>3 DEF ToldOnce
  <2> QED BY <2>1, <2>2 DEF Fired, Toast
<1>8. ASSUME NEW k \in Keys, Orderly(k)
      PROVE  /\ OnceUnlessSlid(k)'
             /\ \A q \in Procs : \A t \in proc'[q].toasts : t.key = k => Room(k, t)'
  <2>1. told' = told /\ OnceUnlessSlid(k)
    BY <1>2, <1>8 DEF ToldOnce
  <2>2. OnceUnlessSlid(k)' /\ \A t : Room(k, t)' = Room(k, t)
    BY <2>1 DEF OnceUnlessSlid, Room
  <2>3. ASSUME NEW q \in Procs, NEW t \in proc'[q].toasts, t.key = k
        PROVE  Room(k, t)
    <3>1. t \in Fired(rows, listed, marks)
      BY <1>2, <2>3
    <3> QED BY <1>7, <1>8, <2>3, <3>1 DEF Room
  <2> QED BY <2>2, <2>3
<1>9. ASSUME NEW q \in Procs, NEW t \in proc'[q].toasts, NEW u \in proc'[q].toasts, t.key = u.key
      PROVE  t = u
  <2>1. t \in Fired(rows, listed, marks) /\ u \in Fired(rows, listed, marks)
    BY <1>2, <1>9
  <2> QED BY <1>5, <1>9, <2>1
<1> QED BY <1>4, <1>6, <1>8, <1>9 DEF ToldOnce

(***************************************************************************)
(* What is decided by an orderly reading settles what comes after it.      *)
(***************************************************************************)
LEMMA SaveSettles ==
  ASSUME TypeOK, ResetsOK, RowsSettled, UsageSettled, RowsInOrder, NEW p \in Procs, Save(p)
  PROVE  RowsSettled' /\ UsageSettled' /\ RowsInOrder'
<1>1. PICK d : d = Telling(Fired(proc[p].rows, proc[p].listed, marks))
  OBVIOUS
<1>2. /\ proc[p].pc = "locked" /\ UNCHANGED <<usage, overtaken, count>> /\ Becoming(p, d)
      /\ d.pc = "toasts"
  BY <1>1, SaveSays DEF Becoming
<1>3. proc'[p].pc = "toasts" /\ \A q \in Procs \ {p} : Stays(q, p)
  BY <1>2 DEF Becoming
<1>4. /\ marks' \in [Keys -> Nat \cup {Unmarked}]
      /\ \A w \in Windows : /\ Said(w) \in SUBSET Announcements
                            /\ Said(w)' \in SUBSET Announcements
                            /\ marks[w] \in Nat \cup {Unmarked} /\ usage[w] \in Usages
                            /\ marks'[w] \in Nat \cup {Unmarked}
  <2>1. \A w \in Windows : Said(w) \in SUBSET Announcements /\ Said(w)' \in SUBSET Announcements
    BY DEF Said
  <2>2. marks' \in [Keys -> Nat \cup {Unmarked}]
    BY CheckTypes DEF Check, TypeOK
  <2> QED BY <2>1, <2>2, KeysAre DEF TypeOK
<1>5. ASSUME NEW w \in Windows, Entry[w] \notin overtaken, NEW s \in Usages,
             Settled(s, Said(w), marks[w]),
             w \in Of(proc[p].entry, Windows) => Follows(proc[p].rows[w], s)
      PROVE  Settled(s, Said(w)', marks'[w])
  <2>1. CASE w \notin Of(proc[p].entry, Windows)
    <3>1. Said(w)' \in SUBSET Said(w) /\ marks'[w] = marks[w]
      BY <1>4, <2>1, SaveDecides
    <3>2. Settled(s, Said(w)', marks[w])
      BY <1>4, <1>5, <3>1, SettledLess
    <3> QED BY <3>1, <3>2
  <2>2. CASE w \in Of(proc[p].entry, Windows)
    <3>1. PICK r \in Usages : r = proc[p].rows[w]
      BY <1>2, <2>2, OpenRows
    <3>2. Settled(r, Said(w), marks[w]) /\ Follows(r, s)
      BY <1>2, <1>5, <2>2, <3>1, KeysAre DEF RowsSettled, Open
    <3>3. Decided(w, r, Said(w), marks[w], Said(w)', marks'[w])
      BY <2>2, <3>1, SaveDecides
    <3>4. marks[w] = NoInstant => r.reset = NoInstant
      BY <1>2, <2>2, <3>1, OpenRows DEF ResetsOK
    <3> QED BY <1>4, <1>5, <3>2, <3>3, <3>4, SettledBySave
  <2> QED BY <2>1, <2>2
<1>6. UsageSettled'
  <2> SUFFICES ASSUME NEW w \in Windows, Entry[w] \notin overtaken
               PROVE  Settled(usage[w], Said(w)', marks'[w])
    BY <1>2, <1>4 DEF UsageSettled
  <2>1. w \in Of(proc[p].entry, Windows) => Follows(proc[p].rows[w], usage[w])
    BY <1>2, KeysAre DEF RowsSettled, Open
  <2>2. Settled(usage[w], Said(w), marks[w])
    BY DEF UsageSettled
  <2> QED BY <1>4, <1>5, <2>1, <2>2
<1>7. RowsSettled'
  <2> SUFFICES ASSUME NEW q \in Procs, proc'[q].pc \in {"read", "locked"},
                      proc'[q].entry \notin overtaken, NEW w \in Of(proc'[q].entry, Windows)
               PROVE  /\ Follows(proc'[q].rows[w], usage[w])
                      /\ Settled(proc'[q].rows[w], Said(w)', marks'[w])
    BY <1>2, <1>4 DEF RowsSettled, Open
  <2>1. q # p
    BY <1>3
  <2>2. /\ proc'[q].pc = proc[q].pc /\ proc'[q].entry = proc[q].entry
        /\ proc'[q].rows = proc[q].rows
    BY <1>3, <2>1 DEF Stays
  <2>3. /\ proc[q].pc = "read" /\ Open(q) /\ proc[q].entry \in Entries
    <3>1. lock = p
      BY <1>2 DEF TypeOK
    <3>2. proc[q].pc # "locked"
      BY <2>1, <3>1 DEF TypeOK
    <3> QED BY <2>2, <3>2, OpenRows DEF Open
  <2>4. PICK s \in Usages : s = proc[q].rows[w]
    BY <2>2, <2>3, OpenRows
  <2>5. /\ Follows(s, usage[w])
        /\ Settled(s, Said(w), marks[w])
    BY <2>2, <2>3, <2>4 DEF RowsSettled
  <2>6. w \in Windows /\ Entry[w] = proc[q].entry
    BY <2>2, <2>3, KeysAre
  <2>7. w \in Of(proc[p].entry, Windows) => Follows(proc[p].rows[w], s)
    <3> SUFFICES ASSUME w \in Of(proc[p].entry, Windows)
                 PROVE  Follows(proc[p].rows[w], s)
      OBVIOUS
    <3>1. proc[p].entry = proc[q].entry
      BY <2>6, KeysAre
    <3>2. Open(p)
      BY <1>2, <2>3, <3>1 DEF Open
    <3> QED BY <1>2, <2>1, <2>3, <2>4, <3>1, <3>2 DEF RowsInOrder
  <2>8. Settled(s, Said(w)', marks'[w])
    BY <1>5, <2>2, <2>3, <2>5, <2>6, <2>7 DEF Open
  <2> QED BY <2>2, <2>4, <2>5, <2>8
<1>8. RowsInOrder'
  <2> SUFFICES ASSUME NEW q \in Procs, NEW r \in Procs, q # r,
                      proc'[q].pc \in {"read", "locked"}, proc'[r].pc = "read",
                      proc'[r].entry \notin overtaken, proc'[q].entry = proc'[r].entry
               PROVE  /\ proc'[q].pc = "read" => q \in proc'[r].older \/ r \in proc'[q].older
                      /\ q \in proc'[r].older \/ proc'[q].pc = "locked" =>
                           \A w \in Of(proc'[r].entry, Windows) :
                             Follows(proc'[q].rows[w], proc'[r].rows[w])
    BY <1>2, <1>4 DEF RowsInOrder, Open
  <2>1. q # p /\ r # p
    BY <1>3
  <2>2. /\ proc'[q].pc = proc[q].pc /\ proc'[q].entry = proc[q].entry
        /\ proc'[q].rows = proc[q].rows /\ proc'[q].older = proc[q].older \ {p}
        /\ proc'[r].pc = proc[r].pc /\ proc'[r].entry = proc[r].entry
        /\ proc'[r].rows = proc[r].rows /\ proc'[r].older = proc[r].older \ {p}
    BY <1>3, <2>1 DEF Stays
  <2>3. Open(q) /\ Open(r)
    BY <2>2 DEF Open
  <2> QED BY <2>1, <2>2, <2>3 DEF RowsInOrder
<1> QED BY <1>6, <1>7, <1>8

-----------------------------------------------------------------------------
(* The other steps. *)

LEMMA InitNotifies == Init => NotifyInv
<1> SUFFICES ASSUME Init PROVE NotifyInv
  OBVIOUS
<1>1. TypeOK /\ ResetsOK
  BY InitTypes, ResetsHold
<1>2. \A p \in Procs : proc[p].pc = "idle" /\ proc[p].toasts = {}
  BY PlainChecks DEF Init
<1>3. \A k \in Keys : told[k] = <<>>
  BY DEF Init
<1>4. \A k \in Keys : Said(k) = {}
  BY <1>2, <1>3 DEF Said
<1>5. RowsSettled /\ RowsInOrder
  BY <1>2 DEF RowsSettled, RowsInOrder, Open
<1>6. UsageSettled
  BY <1>4, KeysAre DEF UsageSettled, Settled
<1>7. ToldOnce
  BY <1>2, <1>3, <1>4, KeysAre DEF ToldOnce, OnceUnlessSlid, Room
<1> QED BY <1>1, <1>5, <1>6, <1>7 DEF NotifyInv

LEMMA ProviderKeeps ==
  ASSUME NotifyInv, Provider
  PROVE  RowsSettled' /\ UsageSettled' /\ RowsInOrder' /\ ToldOnce'
<1>0. TypeOK /\ ResetsOK /\ RowsSettled /\ UsageSettled /\ RowsInOrder /\ ToldOnce
  BY DEF NotifyInv
<1>1. /\ UNCHANGED <<marks, lock, proc, told, overtaken>>
      /\ count' \in [changes : Nat, crashes : Nat]
      /\ UNCHANGED usage \/ \E w \in Windows : Changed(w)
  BY <1>0, ProviderDoes DEF ResetsOK
<1>4. \A k \in Keys : Said(k)' = Said(k) /\ Said(k) \in SUBSET Announcements /\ Said(k) \in SUBSET Said(k)
  BY <1>1 DEF Said
<1>5. usage \in [Windows -> Usages] /\ usage' \in [Windows -> Usages]
      /\ marks \in [Keys -> Nat \cup {Unmarked}]
  BY <1>0, <1>1 DEF TypeOK, Changed
<1>6. \A w \in Windows : usage'[w] = usage[w] \/ Later(usage[w], usage'[w])
  <2>1. CASE \E w \in Windows : Changed(w)
    <3>1. PICK w \in Windows : Changed(w)
      BY <2>1
    <3>2. \A v \in Windows \ {w} : usage'[v] = usage[v]
      BY <3>1 DEF Changed
    <3>3. Later(usage[w], usage'[w])
      BY <3>1 DEF Changed, Later
    <3> QED BY <3>2, <3>3
  <2> QED BY <1>1, <2>1
<1>7. ASSUME NEW w \in Windows, NEW r \in Usages, Follows(r, usage[w])
      PROVE  Follows(r, usage'[w])
  BY <1>5, <1>6, <1>7, FollowsOn
<1>8. ASSUME NEW w \in Windows, Settled(usage[w], Said(w), marks[w])
      PROVE  Settled(usage'[w], Said(w), marks[w])
  <2>1. usage[w] \in Usages /\ usage'[w] \in Usages /\ Said(w) \in SUBSET Announcements
    BY <1>4, <1>5, KeysAre
  <2> QED BY <1>6, <1>8, <2>1, SettledOn
<1>9. UsageSettled'
  <2> SUFFICES ASSUME NEW w \in Windows, Entry[w] \notin overtaken
               PROVE  Settled(usage'[w], Said(w), marks[w])
    BY <1>1, <1>4, KeysAre DEF UsageSettled
  <2> QED BY <1>0, <1>8 DEF UsageSettled
<1>10. RowsSettled'
  <2> SUFFICES ASSUME NEW q \in Procs, Open(q), NEW w \in Of(proc[q].entry, Windows)
               PROVE  /\ Follows(proc[q].rows[w], usage'[w])
                      /\ Settled(proc[q].rows[w], Said(w)', marks[w])
    BY <1>1 DEF RowsSettled, Open
  <2>1. w \in Windows /\ proc[q].rows[w] \in Usages
    BY <1>0, OpenRows DEF Open
  <2>2. Said(w)' = Said(w)
    BY <1>4, <2>1, KeysAre
  <2>3. /\ Follows(proc[q].rows[w], usage[w])
        /\ Settled(proc[q].rows[w], Said(w), marks[w])
    BY <1>0 DEF RowsSettled
  <2> QED BY <1>7, <2>1, <2>2, <2>3
<1>11. RowsInOrder'
  <2> SUFFICES ASSUME NEW q \in Procs, NEW r \in Procs, q # r, Open(q), Open(r),
                      proc[q].entry = proc[r].entry, proc[r].pc = "read"
               PROVE  /\ proc[q].pc = "read" => q \in proc[r].older \/ r \in proc[q].older
                      /\ q \in proc[r].older \/ proc[q].pc = "locked" =>
                           \A w \in Of(proc[r].entry, Windows) :
                             Follows(proc[q].rows[w], proc[r].rows[w])
    BY <1>1 DEF RowsInOrder, Open
  <2>1. /\ proc[q].pc = "read" => q \in proc[r].older \/ r \in proc[q].older
        /\ q \in proc[r].older \/ proc[q].pc = "locked" =>
             \A w \in Of(proc[r].entry, Windows) :
               Follows(proc[q].rows[w], proc[r].rows[w])
    BY <1>0 DEF RowsInOrder
  <2> QED BY <2>1
<1>12. ToldOnce'
  BY <1>0, <1>1, QuietTold
<1> QED BY <1>9, <1>10, <1>11, <1>12

(***************************************************************************)
(* A reading is settled as the provider's account is, and comes after all  *)
(* that were made and not decided.                                         *)
(***************************************************************************)
LEMMA ReadKeeps ==
  ASSUME NotifyInv, NEW p \in Procs, NEW e \in Entries, Read(p, e)
  PROVE  RowsSettled' /\ UsageSettled' /\ RowsInOrder' /\ ToldOnce'
<1>0. TypeOK /\ ResetsOK /\ RowsSettled /\ UsageSettled /\ RowsInOrder /\ ToldOnce
  BY DEF NotifyInv
<1>1. PICK d : /\ Becoming(p, d)
               /\ d.pc = "read" /\ d.entry = e /\ d.toasts = {}
               /\ d.rows = [w \in Of(e, Windows) |-> usage[w]]
               /\ d.older = {q \in Procs : Waits(q, e)}
  BY <1>0, ReadDoes
<1>2. UNCHANGED <<usage, marks, told, overtaken, count>>
  BY DEF Read
<1>3. \A q \in Procs : proc'[q].toasts \subseteq proc[q].toasts
  BY <1>1 DEF Becoming, Stays
<1>4. \A w \in Windows : Said(w)' \subseteq Said(w)
  BY <1>2, <1>3, QuietSays, KeysAre
<1>5. \A w \in Of(e, Windows) : w \in Windows /\ Entry[w] = e /\ d.rows[w] = usage[w] /\ usage[w] \in Usages
  BY <1>0, <1>1, KeysAre DEF TypeOK
<1>7. ASSUME e \notin overtaken, NEW w \in Of(e, Windows)
      PROVE  /\ d.rows[w] \in Usages
             /\ Follows(d.rows[w], usage[w])
             /\ Settled(d.rows[w], Said(w), marks[w])
  BY <1>0, <1>5, <1>7, FollowsItself DEF UsageSettled
<1>8. ASSUME e \notin overtaken, NEW q \in Procs, proc[q].entry = e
      PROVE  /\ proc[q].pc = "read" => q \in d.older
             /\ proc[q].pc \in {"read", "locked"} =>
                  \A w \in Of(e, Windows) : Follows(proc[q].rows[w], d.rows[w])
  BY <1>0, <1>1, <1>5, <1>8 DEF Waits, RowsSettled, Open
<1>9. RowsSettled' /\ UsageSettled' /\ RowsInOrder'
  BY <1>0, <1>1, <1>2, <1>4, <1>7, <1>8, OrderKept
<1>10. ToldOnce'
  BY <1>0, <1>2, <1>3, QuietTold
<1> QED BY <1>9, <1>10

(***************************************************************************)
(* The reading that is decided comes before all that wait, or its entry is *)
(* overtaken.                                                              *)
(***************************************************************************)
LEMMA TakeLockKeeps ==
  ASSUME NotifyInv, NEW p \in Procs, TakeLock(p)
  PROVE  RowsSettled' /\ UsageSettled' /\ RowsInOrder' /\ ToldOnce'
<1>0. TypeOK /\ ResetsOK /\ RowsSettled /\ UsageSettled /\ RowsInOrder /\ ToldOnce
  BY DEF NotifyInv
<1>1. PICK d : /\ Becoming(p, d)
               /\ d.pc = "locked" /\ d.entry = proc[p].entry /\ d.rows = proc[p].rows
               /\ d.seen = marks /\ d.toasts = {} /\ d.older = {}
  BY <1>0, TakeLockDoes
<1>2. /\ UNCHANGED <<usage, marks, told, count>> /\ proc[p].pc = "read"
      /\ overtaken' = IF proc[p].older = {} THEN overtaken ELSE overtaken \cup {proc[p].entry}
  BY DEF TakeLock
<1>3. \A q \in Procs : proc'[q].toasts \subseteq proc[q].toasts
  BY <1>1 DEF Becoming, Stays
<1>4. \A w \in Windows : Said(w)' \subseteq Said(w)
  BY <1>2, <1>3, QuietSays, KeysAre
<1>5. overtaken \subseteq overtaken' /\ (d.entry \notin overtaken' => Open(p) /\ proc[p].older = {})
  BY <1>1, <1>2 DEF Open
<1>6. d.entry \in Entries /\ \A w \in Of(d.entry, Windows) : d.rows[w] \in Usages
  BY <1>0, <1>1, <1>2, OpenRows
<1>7. ASSUME d.entry \notin overtaken', NEW w \in Of(d.entry, Windows)
      PROVE  /\ Follows(d.rows[w], usage[w])
             /\ Settled(d.rows[w], Said(w), marks[w])
  BY <1>0, <1>1, <1>5, <1>7 DEF RowsSettled
<1>8. ASSUME d.entry \notin overtaken', NEW q \in Procs \ {p}, proc[q].entry = d.entry,
             proc[q].pc = "read"
      PROVE  \A w \in Of(d.entry, Windows) : Follows(d.rows[w], proc[q].rows[w])
  <2>1. Open(p) /\ Open(q) /\ proc[p].older = {} /\ proc[q].entry = proc[p].entry
    BY <1>1, <1>5, <1>8 DEF Open
  <2>2. p \in proc[q].older
    BY <1>0, <1>2, <1>8, <2>1 DEF RowsInOrder
  <2> QED BY <1>0, <1>1, <1>2, <1>8, <2>1, <2>2 DEF RowsInOrder
<1>9. RowsSettled' /\ UsageSettled' /\ RowsInOrder'
  BY <1>0, <1>1, <1>2, <1>4, <1>5, <1>6, <1>7, <1>8, OrderKept
<1>10. ToldOnce'
  BY <1>0, <1>2, <1>3, <1>5, QuietTold
<1> QED BY <1>9, <1>10

LEMMA EndKeeps ==
  ASSUME NotifyInv, NEW p \in Procs,
         LockTimesOut(p) \/ SaveFails(p) \/ Deliver(p) \/ Done(p) \/ Crash(p)
  PROVE  RowsSettled' /\ UsageSettled' /\ RowsInOrder' /\ ToldOnce'
<1>0. TypeOK /\ ResetsOK /\ RowsSettled /\ UsageSettled /\ RowsInOrder /\ ToldOnce
  BY DEF NotifyInv
<1>1. UNCHANGED <<usage, marks, overtaken>>
  BY DEF LockTimesOut, SaveFails, Deliver, Done, Crash
<1>2. \E d : Becoming(p, d) /\ d.pc \notin {"read", "locked"} /\ (Deliver(p) \/ d.toasts = {})
  <2>1. CASE LockTimesOut(p) \/ Done(p) \/ Crash(p)
    BY <1>0, <2>1, EndingDoes, PlainChecks
  <2>2. CASE SaveFails(p)
    <3>1. /\ proc[p].pc \in {"locked", "toasts"} /\ proc' = [proc EXCEPT ![p] = Telling({})]
          /\ {} \in SUBSET Toasts
      BY <2>2 DEF SaveFails, Unsaved
    <3>2. Becoming(p, Telling({})) /\ Telling({}).pc = "toasts" /\ Telling({}).toasts = {}
      BY <1>0, <3>1, TellingDoes, PlainChecks
    <3> QED BY <3>2
  <2>3. CASE Deliver(p)
    <3>1. PICK t \in proc[p].toasts : proc' = [proc EXCEPT ![p] = Telling(proc[p].toasts \ {t})]
      BY <2>3 DEF Deliver
    <3>2. proc[p].pc \in {"locked", "toasts"} /\ proc[p].toasts \ {t} \in SUBSET Toasts
      BY <1>0, <2>3 DEF Deliver, TypeOK, IsCheck
    <3>3. Becoming(p, Telling(proc[p].toasts \ {t})) /\ Telling(proc[p].toasts \ {t}).pc = "toasts"
      BY <1>0, <3>1, <3>2, TellingDoes, PlainChecks
    <3> QED BY <2>3, <3>3
  <2> QED BY <2>1, <2>2, <2>3
<1>3. PICK d : Becoming(p, d) /\ d.pc \notin {"read", "locked"} /\ (Deliver(p) \/ d.toasts = {})
  BY <1>2
<1>4. ToldOnce' /\ \A k \in Keys : Said(k)' \subseteq Said(k)
  <2>1. CASE Deliver(p)
    BY <1>0, <2>1, DeliverTells
  <2>2. CASE d.toasts = {}
    <3>1. \A q \in Procs : proc'[q].toasts \subseteq proc[q].toasts
      BY <1>3, <2>2 DEF Becoming, Stays
    <3>2. CASE Deliver(p)
      BY <1>0, <3>2, DeliverTells
    <3>3. CASE ~Deliver(p)
      <4>1. told' = told
        BY <3>3 DEF LockTimesOut, SaveFails, Done, Crash
      <4> QED BY <1>0, <1>1, <3>1, <4>1, QuietSays, QuietTold
    <3> QED BY <3>2, <3>3
  <2> QED BY <1>3, <2>1, <2>2
<1>5. RowsSettled' /\ UsageSettled' /\ RowsInOrder'
  <2>1. overtaken \subseteq overtaken' /\ \A w \in Windows : Said(w)' \subseteq Said(w)
    BY <1>1, <1>4, KeysAre
  <2> QED BY <1>0, <1>1, <1>3, <2>1, OrderKept
<1> QED BY <1>4, <1>5

(***************************************************************************)
(* One crossing is one notification, for however many windows, frontends   *)
(* and slides: it is announced again only when the instant it names has    *)
(* slid by more than the tolerance since, which decide takes for a new     *)
(* window's.                                                               *)
(***************************************************************************)
THEOREM OneToast == Spec => []OneToastPerCrossing
<1>1. Init => NotifyInv
  BY InitNotifies
<1>2. NotifyInv /\ [Next]_vars => NotifyInv'
  <2> SUFFICES ASSUME NotifyInv, [Next]_vars PROVE NotifyInv'
    OBVIOUS
  <2>1. TypeOK' /\ ResetsOK'
    BY StepTypes, ResetsHold DEF NotifyInv
  <2>2. RowsSettled' /\ UsageSettled' /\ RowsInOrder' /\ ToldOnce'
    <3>1. CASE Provider
      BY <3>1, ProviderKeeps
    <3>2. ASSUME NEW p \in Procs, NEW e \in Entries, Read(p, e)
          PROVE  RowsSettled' /\ UsageSettled' /\ RowsInOrder' /\ ToldOnce'
      BY <3>2, ReadKeeps
    <3>3. ASSUME NEW p \in Procs, TakeLock(p)
          PROVE  RowsSettled' /\ UsageSettled' /\ RowsInOrder' /\ ToldOnce'
      BY <3>3, TakeLockKeeps
    <3>4. ASSUME NEW p \in Procs, Save(p)
          PROVE  RowsSettled' /\ UsageSettled' /\ RowsInOrder' /\ ToldOnce'
      <4>1. TypeOK /\ ResetsOK /\ RowsSettled /\ UsageSettled /\ RowsInOrder /\ ToldOnce
        BY DEF NotifyInv
      <4>2. RowsSettled' /\ UsageSettled' /\ RowsInOrder'
        BY <3>4, <4>1, SaveSettles
      <4>3. ToldOnce'
        BY <3>4, <4>1, SaveTellsOnce
      <4> QED BY <4>2, <4>3
    <3>5. ASSUME NEW p \in Procs,
                 LockTimesOut(p) \/ SaveFails(p) \/ Deliver(p) \/ Done(p) \/ Crash(p)
          PROVE  RowsSettled' /\ UsageSettled' /\ RowsInOrder' /\ ToldOnce'
      BY <3>5, EndKeeps
    <3>6. CASE UNCHANGED vars
      <4>1. UNCHANGED <<usage, credits, marks, lock, proc, told, overtaken, count>>
        BY <3>6 DEF vars
      <4>2. \A k : Said(k)' = Said(k) /\ OnceUnlessSlid(k)' = OnceUnlessSlid(k) /\ Orderly(k)' = Orderly(k)
        BY <4>1 DEF Said, OnceUnlessSlid, Orderly
      <4>3. \A k, t : Room(k, t)' = Room(k, t)
        BY <4>1 DEF Room
      <4>4. RowsSettled' /\ UsageSettled' /\ RowsInOrder'
        BY <4>1, <4>2 DEF NotifyInv, RowsSettled, UsageSettled, RowsInOrder, Open
      <4>5. ToldOnce'
        BY <4>1, <4>2, <4>3 DEF NotifyInv, ToldOnce
      <4> QED BY <4>4, <4>5
    <3> QED BY <3>1, <3>2, <3>3, <3>4, <3>5, <3>6 DEF Next, Check
  <2> QED BY <2>1, <2>2 DEF NotifyInv
<1>3. NotifyInv => OneToastPerCrossing
  BY DEF NotifyInv, ToldOnce, Orderly, OneToastPerCrossing
<1> QED BY <1>1, <1>2, <1>3, PTL DEF Spec
=============================================================================
